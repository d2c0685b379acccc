------------------------- MODULE OutputQueueProofs -------------------------
(* Proofs about OutputQueue, for every block size, payload size and bound. *)
EXTENDS OutputQueue, SeqOpsProofs

\* The position of the first byte that is still in the queue.
Taken == IF blocks = <<>> THEN accepted ELSE blocks[1].from

InFlight == wpc \in {"write", "sub_ok", "sub_err"}
Stopping == wpc \in {"stop", "close", "shutdown", "exited"}

\* The queue holds consecutive, non-empty runs of whole frames up to accepted.
Contiguous ==
    /\ accepted \in frame_ends
    /\ \A i \in 1 .. Len(blocks) :
        /\ blocks[i].from < blocks[i].to
        /\ blocks[i].to <= accepted
        /\ blocks[i].from \in frame_ends /\ blocks[i].to \in frame_ends
    /\ \A i \in 1 .. Len(blocks) - 1 : blocks[i].to = blocks[i + 1].from
    /\ blocks # <<>> => blocks[Len(blocks)].to = accepted

\* The block in the worker's hands ends where the queue begins.
FrameTaken ==
    InFlight => /\ frame.from < frame.to
                /\ frame.to = Taken
                /\ frame.from \in frame_ends /\ frame.to \in frame_ends

Accounting ==
    queued_bytes = (accepted - Taken) + (IF InFlight THEN BlockLen(frame) ELSE 0)

\* A frame under construction has at least its header in `pending'.
PendingNonEmpty == ppc \in {"payload", "flush", "lock"} => pending > 0

\* Until the transport breaks the peer has all that was taken and written.
DeliveredPrefix ==
    ~broken => delivered = IF wpc = "write" THEN frame.from ELSE Taken

StoppingState ==
    /\ broken => wpc = "sub_err" \/ Stopping
    /\ wpc = "sub_err" => broken
    /\ Stopping => broken \/ (closed /\ blocks = <<>>)
    /\ wpc \in {"shutdown", "exited"} => closed /\ blocks = <<>>

Inv ==
    /\ TypeOK
    /\ Contiguous
    /\ FrameTaken
    /\ Accounting
    /\ PendingNonEmpty
    /\ DeliveredPrefix
    /\ StoppingState
    /\ QueueBounded

\* The initial state satisfies the invariant.
LEMMA InvInit == Init => Inv
<1> SUFFICES ASSUME Init PROVE Inv
  OBVIOUS
<1> USE SizesAssumption DEF Init
<1>1. TypeOK
  <2>1. {closed, failed, shut, broken} \subseteq BOOLEAN
    BY Zenon
  <2>2. blocks \in Seq(Block) /\ frame \in Block
    BY DEF NoBlock, Block
  <2>3. pending \in 0 .. QUEUE_BYTES
    BY DEF QUEUE_BYTES
  <2> QED
    BY <2>1, <2>2, <2>3 DEF TypeOK, ProducerPC, WorkerPC
<1>2. Contiguous
  BY DEF Contiguous
<1>3. FrameTaken /\ Accounting /\ PendingNonEmpty
  BY DEF FrameTaken, Accounting, PendingNonEmpty, Taken, InFlight
<1>4. DeliveredPrefix /\ StoppingState /\ QueueBounded
  BY DEF DeliveredPrefix, StoppingState, QueueBounded, Taken, Stopping, QUEUE_BYTES
<1> QED
  BY <1>1, <1>2, <1>3, <1>4 DEF Inv

\* The numeric facts every step below computes with.
LEMMA Numbers ==
  ASSUME TypeOK, Contiguous
  PROVE  /\ Taken \in Nat /\ Taken <= accepted /\ accepted \in Nat
         /\ queued_bytes \in Nat /\ delivered \in Nat /\ QUEUE_BYTES \in Nat
         /\ frame.from \in Nat /\ frame.to \in Nat
         /\ \A i \in 1 .. Len(blocks) : blocks[i] \in Block /\ blocks[i].from \in Nat /\ blocks[i].to \in Nat
<1>1. /\ accepted \in Nat /\ queued_bytes \in Nat /\ delivered \in Nat
      /\ frame \in Block /\ blocks \in Seq(Block)
  BY DEF TypeOK
<1>2. QUEUE_BYTES \in Nat
  BY SizesAssumption DEF QUEUE_BYTES
<1>3. \A b \in Block : b.from \in Nat /\ b.to \in Nat
  BY DEF Block
<1>4. \A i \in 1 .. Len(blocks) : blocks[i] \in Block
  BY <1>1
<1>5. Taken \in Nat /\ Taken <= accepted
  <2>1. CASE blocks = <<>>
    BY <1>1, <2>1 DEF Taken
  <2>2. CASE blocks # <<>>
    <3>1. 1 \in 1 .. Len(blocks)
      BY <1>1, <2>2
    <3> QED
      BY <1>1, <1>3, <1>4, <2>2, <3>1 DEF Taken, Contiguous
  <2> QED
    BY <2>1, <2>2
<1> QED
  BY <1>1, <1>2, <1>3, <1>4, <1>5

\* Consecutive blocks: the sum of their lengths is the distance they span.
LEMMA RemainingSpans ==
  ASSUME NEW bs \in Seq(Block), \A i \in 1 .. Len(bs) - 1 : bs[i].to = bs[i + 1].from
  PROVE  Remaining(bs) = IF bs = <<>> THEN 0 ELSE bs[Len(bs)].to - bs[1].from
<1> DEFINE w == [i \in 1 .. Len(bs) |-> BlockLen(bs[i])]
<1>1. /\ Len(bs) \in Nat
      /\ \A i \in 1 .. Len(bs) : bs[i].from \in Nat /\ bs[i].to \in Nat
  <2>1. \A b \in Block : b.from \in Nat /\ b.to \in Nat
    BY DEF Block
  <2>2. QED
    BY <2>1
<1>2. /\ w \in Seq(Int) /\ Len(w) = Len(bs)
      /\ \A i \in 1 .. Len(bs) : w[i] = bs[i].to - bs[i].from
  BY <1>1 DEF BlockLen
<1>3. Remaining(bs) = Total(w)
  BY DEF Remaining
<1> HIDE DEF w
<1>4. PICK f : Sums(f, w) /\ Total(w) = f[Len(w)]
  BY <1>2, TotalIs
<1> DEFINE S == {k \in Nat : k + 1 <= Len(bs) => f[k + 1] = bs[k + 1].to - bs[1].from}
<1>5. f[0] = 0 /\ \A k \in Nat : k + 1 <= Len(w) => f[k + 1] = f[k] + w[k + 1]
  BY <1>2, <1>4, SumsStep
<1>6. 0 \in S
  <2>1. SUFFICES ASSUME 1 <= Len(bs)
                 PROVE  f[1] = bs[1].to - bs[1].from
    OBVIOUS
  <2>2. f[0 + 1] = f[0] + w[0 + 1]
    BY <1>2, <1>5, <2>1
  <2>3. QED
    BY <1>1, <1>2, <1>5, <2>1, <2>2
<1>7. ASSUME NEW k \in S
      PROVE  k + 1 \in S
  <2>1. SUFFICES ASSUME k + 2 <= Len(bs)
                 PROVE  f[k + 2] = bs[k + 2].to - bs[1].from
    BY <1>1
  <2>2. k \in Nat /\ k + 1 \in 1 .. Len(bs) - 1 /\ k + 2 \in 1 .. Len(bs) /\ 1 \in 1 .. Len(bs)
    BY <1>1, <2>1
  <2>3. f[k + 1] = bs[k + 1].to - bs[1].from /\ bs[k + 1].to = bs[k + 2].from
    BY <1>1, <2>2
  <2>4. f[(k + 1) + 1] = f[k + 1] + w[(k + 1) + 1]
    BY <1>1, <1>2, <1>5, <2>2
  <2>5. f[k + 2] = f[k + 1] + (bs[k + 2].to - bs[k + 2].from)
    BY <1>2, <2>2, <2>4
  <2>6. bs[k + 2].from \in Nat /\ bs[k + 2].to \in Nat /\ bs[1].from \in Nat
    BY <1>1, <2>2
  <2>7. QED
    BY <2>3, <2>5, <2>6
<1>8. \A k \in Nat : k \in S
  <2> HIDE DEF S
  <2>1. S \in SUBSET Nat
    BY DEF S
  <2>2. QED
    BY <1>6, <1>7, <2>1, Induction
<1>9. CASE bs = <<>>
  BY <1>2, <1>3, <1>4, <1>5, <1>9
<1>10. CASE bs # <<>>
  <2>1. Len(bs) - 1 \in Nat /\ (Len(bs) - 1) + 1 = Len(bs)
    BY <1>1, <1>10
  <2>2. f[Len(bs)] = bs[Len(bs)].to - bs[1].from
    <3>1. Len(bs) - 1 \in S
      BY <1>8, <2>1
    <3>2. QED
      BY <1>1, <2>1, <3>1
  <2>3. QED
    BY <1>2, <1>3, <1>4, <1>10, <2>2
<1>11. QED
  BY <1>9, <1>10

\* What is left in the queue are the accepted bytes the worker has not taken.
LEMMA RemainingIs ==
  ASSUME TypeOK, Contiguous
  PROVE  Remaining(blocks) = accepted - Taken
<1>1. blocks \in Seq(Block) /\ accepted \in Nat
  BY DEF TypeOK
<1>2. \A i \in 1 .. Len(blocks) - 1 : blocks[i].to = blocks[i + 1].from
  BY DEF Contiguous
<1>3. Remaining(blocks) = IF blocks = <<>> THEN 0 ELSE blocks[Len(blocks)].to - blocks[1].from
  BY <1>1, <1>2, RemainingSpans
<1>4. blocks # <<>> => blocks[Len(blocks)].to = accepted
  BY DEF Contiguous
<1>5. QED
  BY <1>1, <1>3, <1>4 DEF Taken

\* The producer's steps outside the queue leave the worker's facts alone.
LEMMA FailInv ==
  ASSUME Inv, Fail
  PROVE  Inv'
  BY DEF Fail, Inv, TypeOK, Contiguous, FrameTaken, Accounting, PendingNonEmpty,
     DeliveredPrefix, StoppingState, QueueBounded, Taken, InFlight, Stopping, BlockLen,
     ProducerPC, workVars, histVars

\* A write takes what is first in the queue, as far as the socket accepts it.
LEMMA WriteBytesInv ==
  ASSUME Inv, NEW n \in Nat, n > 0 \/ pending > 0, NEW next \in {"payload", "flush"}, WriteBytes(n, next),
         payload' \in Payloads \cup {0}
  PROVE  Inv'
  BY SizesAssumption
     DEF WriteBytes, WriteRefused, Inv, TypeOK, Contiguous, FrameTaken, Accounting,
     PendingNonEmpty, DeliveredPrefix, StoppingState, QueueBounded, Taken, InFlight, Stopping,
     BlockLen, ProducerPC, sharedVars, workVars, histVars, QUEUE_BYTES

\* A frame enters the queue: it extends the tail block or becomes a new one.
LEMMA EnqueueInv ==
  ASSUME Inv, FlushLocked, ~FlushRefused(pending)
  PROVE  Inv'
<1> DEFINE len == pending
           bs  == Enqueue(len)
<1> USE SizesAssumption
<1>0. /\ TypeOK /\ Contiguous /\ FrameTaken /\ Accounting
      /\ PendingNonEmpty /\ DeliveredPrefix /\ StoppingState /\ QueueBounded
  BY DEF Inv
<1>1. /\ len \in Nat \ {0}
      /\ ~closed /\ ~failed /\ ~(queued_bytes + len > QUEUE_BYTES)
      /\ queued_bytes' = queued_bytes + len /\ blocks' = bs /\ pending' = 0
      /\ accepted' = accepted + len /\ frame_ends' = frame_ends \cup {accepted + len}
      /\ ppc' = "notify"
      /\ UNCHANGED <<payload, closed, failed, shut, wpc, frame, delivered, broken>>
  <2>1. len \in Nat \ {0}
    BY <1>0 DEF FlushLocked, PendingNonEmpty, TypeOK, QUEUE_BYTES
  <2> QED
    BY <2>1, Zenon DEF FlushLocked, FlushRefused, workVars
<1>2. /\ bs \in Seq(Block) /\ bs # <<>>
      /\ bs[1].from = Taken
      /\ bs[Len(bs)].to = accepted + len
      /\ \A i \in 1 .. Len(bs) :
            /\ bs[i].from < bs[i].to
            /\ bs[i].to <= accepted + len
            /\ {bs[i].from, bs[i].to} \subseteq frame_ends \cup {accepted + len}
      /\ \A i \in 1 .. Len(bs) - 1 : bs[i].to = bs[i + 1].from
  <2> DEFINE tail == [from |-> accepted, to |-> accepted + len]
  <2>1. CASE Coalesces(len)
    <3> DEFINE last == Len(blocks)
               grown == [from |-> blocks[last].from, to |-> accepted + len]
    <3>1. /\ blocks # <<>> /\ last \in 1 .. Len(blocks) /\ blocks[last] \in Block
          /\ accepted \in Nat
      BY <1>0, <2>1 DEF Coalesces, TypeOK
    <3>2. grown \in Block /\ bs = [blocks EXCEPT ![last] = grown]
      <4>1. blocks[last].to = accepted
        BY <1>0, <3>1 DEF Contiguous
      <4>2. bs = [blocks EXCEPT ![last] = [blocks[last] EXCEPT !.to = accepted + len]]
        BY <2>1, <4>1, Zenon DEF Enqueue
      <4>3. [blocks[last] EXCEPT !.to = accepted + len] = grown /\ grown \in Block
        BY <1>1, <3>1 DEF Block
      <4> QED
        BY <4>2, <4>3
    <3>3. /\ bs \in Seq(Block) /\ Len(bs) = Len(blocks)
          /\ \A i \in 1 .. Len(blocks) : bs[i] = IF i = last THEN grown ELSE blocks[i]
      BY <1>0, <3>1, <3>2, ExceptSeq DEF TypeOK
    <3>4. Len(bs) \in Nat \ {0} /\ last = Len(bs) /\ bs # <<>>
      BY <3>1, <3>3
    <3> HIDE DEF bs, last
    <3>5. bs[1].from = Taken /\ bs[Len(bs)].to = accepted + len
      BY <3>1, <3>3, <3>4 DEF Taken
    <3>6. ASSUME NEW i \in 1 .. Len(bs)
          PROVE  /\ bs[i].from < bs[i].to
                 /\ bs[i].to <= accepted + len
                 /\ {bs[i].from, bs[i].to} \subseteq frame_ends \cup {accepted + len}
      <4>1. /\ blocks[i].from \in Nat /\ blocks[i].to \in Nat
            /\ blocks[i].from < blocks[i].to /\ blocks[i].to <= accepted
            /\ blocks[i].from \in frame_ends /\ blocks[i].to \in frame_ends
        <5>1. blocks[i] \in Block
          BY <1>0, <3>3 DEF TypeOK
        <5> QED
          BY <1>0, <3>3, <5>1 DEF Contiguous, Block
      <4>2. CASE i = last
        BY <1>1, <3>1, <3>3, <4>1, <4>2
      <4>3. CASE i # last
        <5>1. bs[i] = blocks[i]
          BY <3>3, <4>3
        <5> QED
          BY <1>1, <3>1, <4>1, <5>1
      <4> QED
        BY <4>2, <4>3
    <3>7. ASSUME NEW i \in 1 .. Len(bs) - 1
          PROVE  bs[i].to = bs[i + 1].from
      BY <1>0, <3>1, <3>3, <3>4 DEF Contiguous
    <3> QED
      BY <3>3, <3>4, <3>5, <3>6, <3>7
  <2>2. CASE ~Coalesces(len)
    <3>1. bs = Append(blocks, tail) /\ tail \in Block
      BY <1>0, <1>1, <2>2 DEF Enqueue, TypeOK, Block
    <3>2. /\ bs \in Seq(Block) /\ Len(bs) = Len(blocks) + 1
          /\ \A i \in 1 .. Len(blocks) : bs[i] = blocks[i]
          /\ bs[Len(bs)] = tail
      BY <1>0, <3>1 DEF TypeOK
    <3> HIDE DEF bs
    <3>3. Len(blocks) \in Nat /\ accepted \in Nat /\ bs # <<>>
      BY <1>0, <3>2 DEF TypeOK
    <3>4. bs[1].from = Taken /\ bs[Len(bs)].to = accepted + len
      BY <1>0, <3>2, <3>3 DEF Taken, TypeOK
    <3>5. ASSUME NEW i \in 1 .. Len(bs)
          PROVE  /\ bs[i].from < bs[i].to
                 /\ bs[i].to <= accepted + len
                 /\ {bs[i].from, bs[i].to} \subseteq frame_ends \cup {accepted + len}
      <4>1. CASE i = Len(bs)
        BY <1>0, <1>1, <3>2, <3>3, <4>1 DEF Contiguous
      <4>2. CASE i # Len(bs)
        <5>1. i \in 1 .. Len(blocks)
          BY <3>2, <3>3, <4>2
        <5>2. /\ blocks[i].from \in Nat /\ blocks[i].to \in Nat
              /\ blocks[i].from < blocks[i].to /\ blocks[i].to <= accepted
              /\ blocks[i].from \in frame_ends /\ blocks[i].to \in frame_ends
          <6>1. blocks[i] \in Block
            BY <1>0, <5>1 DEF TypeOK
          <6> QED
            BY <1>0, <5>1, <6>1 DEF Contiguous, Block
        <5>3. bs[i] = blocks[i]
          BY <3>2, <5>1
        <5> QED
          BY <1>1, <3>3, <5>2, <5>3
      <4> QED
        BY <4>1, <4>2
    <3>6. ASSUME NEW i \in 1 .. Len(bs) - 1
          PROVE  bs[i].to = bs[i + 1].from
      BY <1>0, <3>2, <3>3 DEF Contiguous
    <3> QED
      BY <3>2, <3>3, <3>4, <3>5, <3>6
  <2> QED
    BY <2>1, <2>2
<1> HIDE DEF len, bs
<1>3. Taken' = Taken
  BY <1>1, <1>2 DEF Taken
<1>4. TypeOK'
  BY <1>0, <1>1, <1>2 DEF TypeOK, ProducerPC, QUEUE_BYTES
<1>5. Contiguous'
  BY <1>0, <1>1, <1>2 DEF Contiguous
<1>6. FrameTaken' /\ PendingNonEmpty'
  BY <1>0, <1>1, <1>3 DEF FrameTaken, PendingNonEmpty, InFlight
<1>8. Accounting' /\ QueueBounded'
  <2>1. accepted \in Nat /\ queued_bytes \in Nat /\ QUEUE_BYTES \in Nat /\ Taken \in Nat
    BY <1>0, Numbers
  <2>2. BlockLen(frame) \in Int
    BY <1>0, Numbers DEF BlockLen
  <2>3. QueueBounded'
    BY <1>1, <2>1 DEF QueueBounded, QUEUE_BYTES
  <2>4. BlockLen(frame)' = BlockLen(frame) /\ InFlight' = InFlight
    BY <1>1 DEF InFlight, BlockLen
  <2>5. Accounting'
    BY <1>0, <1>1, <1>3, <2>1, <2>2, <2>4 DEF Accounting
  <2> QED
    BY <2>3, <2>5
<1>7. DeliveredPrefix' /\ StoppingState'
  BY <1>0, <1>1, <1>3 DEF DeliveredPrefix, StoppingState, Stopping
<1> QED
  BY <1>4, <1>5, <1>6, <1>7, <1>8 DEF Inv

\* The worker takes the first block.
LEMMA TakeBlockInv ==
  ASSUME Inv, Take, blocks # <<>>
  PROVE  Inv'
<1>0. /\ TypeOK /\ Contiguous /\ FrameTaken /\ Accounting
      /\ PendingNonEmpty /\ DeliveredPrefix /\ StoppingState /\ QueueBounded
  BY DEF Inv
<1>1. /\ wpc = "take" /\ wpc' = "write" /\ frame' = Head(blocks) /\ blocks' = Tail(blocks)
      /\ UNCHANGED <<ppc, payload, pending, closed, failed, queued_bytes, shut>>
      /\ UNCHANGED <<accepted, frame_ends, delivered, broken>>
  BY Zenon DEF Take, prodVars, histVars
<1>2. /\ frame' \in Block /\ frame' = blocks[1] /\ blocks' \in Seq(Block)
      /\ 1 \in 1 .. Len(blocks) /\ Len(blocks') = Len(blocks) - 1
      /\ \A i \in 1 .. Len(blocks') : blocks'[i] = blocks[i + 1]
  BY <1>0, <1>1, HeadTailProperties DEF TypeOK
<1>3. TypeOK'
  BY <1>0, <1>1, <1>2 DEF TypeOK, WorkerPC
<1>4. Taken' = frame'.to /\ Taken = frame'.from
  <2>1. Taken = frame'.from
    BY <1>2 DEF Taken
  <2>2. CASE blocks' = <<>>
    <3>1. Len(blocks) = 1
      BY <1>0, <1>2, <2>2 DEF TypeOK
    <3> QED
      BY <1>0, <1>1, <1>2, <2>1, <2>2, <3>1 DEF Taken, Contiguous
  <2>3. CASE blocks' # <<>>
    <3>1. 1 \in 1 .. Len(blocks') /\ 1 \in 1 .. Len(blocks) - 1
      BY <1>0, <1>2, <2>3 DEF TypeOK
    <3>2. blocks'[1] = blocks[2] /\ blocks[1].to = blocks[2].from
      BY <1>0, <1>2, <3>1 DEF Contiguous
    <3> QED
      BY <1>2, <2>1, <2>3, <3>2 DEF Taken
  <2> QED
    BY <2>2, <2>3
<1>5. Contiguous'
  <2>1. Len(blocks) \in Nat /\ Len(blocks') \in Nat
    BY <1>0, <1>2 DEF TypeOK
  <2>2. \A i \in 1 .. Len(blocks') : i + 1 \in 1 .. Len(blocks)
    BY <1>2, <2>1
  <2>3. \A i \in 1 .. Len(blocks') - 1 : i \in 1 .. Len(blocks') /\ i + 1 \in 1 .. Len(blocks')
                                        /\ i + 1 \in 1 .. Len(blocks) - 1
    BY <1>2, <2>1
  <2>4. blocks' # <<>> => Len(blocks') \in 1 .. Len(blocks') /\ Len(blocks') + 1 = Len(blocks)
    BY <1>2, <2>1
  <2> QED
    BY <1>0, <1>1, <1>2, <2>1, <2>2, <2>3, <2>4 DEF Contiguous
<1>6. FrameTaken'
  BY <1>0, <1>1, <1>2, <1>4 DEF FrameTaken, Contiguous
<1>7. Accounting'
  <2>1. queued_bytes = accepted - Taken
    BY <1>0, <1>1, Numbers DEF Accounting, InFlight
  <2>2. frame'.from \in Nat /\ frame'.to \in Nat
    BY <1>0, <1>2, Numbers
  <2>3. Accounting' <=> queued_bytes' = (accepted' - Taken') + BlockLen(frame')
    BY <1>1 DEF Accounting, InFlight, BlockLen
  <2> QED
    BY <1>0, <1>1, <1>4, <2>1, <2>2, <2>3, Numbers DEF BlockLen
<1>8. PendingNonEmpty' /\ QueueBounded'
  BY <1>0, <1>1 DEF PendingNonEmpty, QueueBounded
<1>9. DeliveredPrefix' /\ StoppingState'
  BY <1>0, <1>1, <1>4 DEF DeliveredPrefix, StoppingState, Stopping
<1> QED
  BY <1>3, <1>5, <1>6, <1>7, <1>8, <1>9 DEF Inv

\* The worker's steps after it has taken a block, or found it must stop.
LEMMA WorkerInv ==
  ASSUME Inv, WriteOk \/ WriteErr \/ ReleaseBytes \/ StopFailed \/ StopClose \/ StopShutdown
  PROVE  Inv'
<1>0. /\ TypeOK /\ Contiguous /\ FrameTaken /\ Accounting
      /\ PendingNonEmpty /\ DeliveredPrefix /\ StoppingState /\ QueueBounded
  BY DEF Inv
<1>1. CASE WriteOk
  BY <1>0, <1>1, Numbers DEF WriteOk, Inv, TypeOK, Contiguous, FrameTaken, Accounting, PendingNonEmpty,
     DeliveredPrefix, StoppingState, QueueBounded, Taken, InFlight, Stopping, BlockLen,
     WorkerPC, prodVars, sharedVars
<1>2. CASE WriteErr
  BY <1>0, <1>2, Numbers DEF WriteErr, Inv, TypeOK, Contiguous, FrameTaken, Accounting, PendingNonEmpty,
     DeliveredPrefix, StoppingState, QueueBounded, Taken, InFlight, Stopping, BlockLen,
     WorkerPC, prodVars, sharedVars
<1>3. CASE ReleaseBytes
  <2>1. /\ wpc \in {"sub_ok", "sub_err"} /\ wpc' = (IF wpc = "sub_ok" THEN "take" ELSE "stop")
        /\ queued_bytes' = queued_bytes - BlockLen(frame) /\ frame' = NoBlock
        /\ UNCHANGED <<ppc, payload, pending, blocks, closed, failed, shut>>
        /\ UNCHANGED <<accepted, frame_ends, delivered, broken>>
    BY <1>3, Zenon DEF ReleaseBytes, prodVars, histVars
  <2>2. Taken' = Taken
    BY <2>1 DEF Taken
  <2>3. /\ queued_bytes = (accepted - Taken) + BlockLen(frame) /\ BlockLen(frame) \in Nat \ {0}
        /\ queued_bytes' = accepted - Taken /\ queued_bytes' \in Nat
    <3>1. InFlight /\ BlockLen(frame) = frame.to - frame.from /\ frame.from < frame.to
      BY <1>0, <2>1 DEF FrameTaken, InFlight, BlockLen
    <3>2. queued_bytes = (accepted - Taken) + BlockLen(frame)
      BY <1>0, <3>1 DEF Accounting
    <3>3. /\ accepted \in Nat /\ Taken \in Nat /\ Taken <= accepted
          /\ frame.from \in Nat /\ frame.to \in Nat
      BY <1>0, Numbers
    <3> QED
      BY <2>1, <3>1, <3>2, <3>3
  <2>4. TypeOK'
    <3>1. NoBlock \in Block
      BY DEF NoBlock, Block
    <3> QED
      BY <1>0, <2>1, <2>3, <3>1 DEF TypeOK, WorkerPC
  <2>5. Contiguous' /\ PendingNonEmpty'
    BY <1>0, <2>1 DEF Contiguous, PendingNonEmpty
  <2>6. FrameTaken' /\ Accounting'
    <3>1. ~InFlight'
      BY <2>1 DEF InFlight
    <3> QED
      BY <2>1, <2>2, <2>3, <3>1, Numbers, <1>0 DEF FrameTaken, Accounting
  <2>7. QueueBounded'
    BY <1>0, <2>1, <2>3, Numbers DEF QueueBounded, QUEUE_BYTES
  <2>8. DeliveredPrefix' /\ StoppingState'
    BY <1>0, <2>1, <2>2 DEF DeliveredPrefix, StoppingState, Stopping
  <2> QED
    BY <2>4, <2>5, <2>6, <2>7, <2>8 DEF Inv
<1>4. CASE StopFailed
  BY <1>0, <1>4, Numbers DEF StopFailed, Inv, TypeOK, Contiguous, FrameTaken, Accounting, PendingNonEmpty,
     DeliveredPrefix, StoppingState, QueueBounded, Taken, InFlight, Stopping, BlockLen,
     WorkerPC, prodVars, histVars
<1>5. CASE StopClose
  <2>1. /\ wpc = "close" /\ wpc' = "shutdown" /\ closed' /\ blocks' = <<>>
        /\ queued_bytes' = queued_bytes - Remaining(blocks)
        /\ UNCHANGED <<ppc, payload, pending, failed, shut, frame>>
        /\ UNCHANGED <<accepted, frame_ends, delivered, broken>>
    BY <1>5, Zenon DEF StopClose, prodVars, histVars
  <2>2. closed' \in BOOLEAN
    BY <1>5, Zenon DEF StopClose
  <2>3. queued_bytes = accepted - Taken /\ queued_bytes' = 0 /\ Taken' = accepted
    <3>1. Remaining(blocks) = accepted - Taken
      BY <1>0, RemainingIs
    <3> QED
      BY <1>0, <2>1, <3>1, Numbers DEF Accounting, InFlight, Taken
  <2>4. TypeOK'
    BY <1>0, <2>1, <2>2, <2>3 DEF TypeOK, WorkerPC
  <2>5. Contiguous' /\ PendingNonEmpty'
    BY <1>0, <2>1 DEF Contiguous, PendingNonEmpty
  <2>6. FrameTaken' /\ Accounting' /\ QueueBounded'
    BY <1>0, <2>1, <2>3, Numbers DEF FrameTaken, Accounting, InFlight, QueueBounded
  <2>7. DeliveredPrefix' /\ StoppingState'
    BY <1>0, <2>1, <2>3 DEF DeliveredPrefix, StoppingState, Stopping, Taken
  <2> QED
    BY <2>4, <2>5, <2>6, <2>7 DEF Inv
<1>6. CASE StopShutdown
  BY <1>0, <1>6, Numbers DEF StopShutdown, Inv, TypeOK, Contiguous, FrameTaken, Accounting, PendingNonEmpty,
     DeliveredPrefix, StoppingState, QueueBounded, Taken, InFlight, Stopping, BlockLen,
     WorkerPC, prodVars, histVars
<1> QED
  BY <1>1, <1>2, <1>3, <1>4, <1>5, <1>6

\* Every step keeps the invariant.
LEMMA InvNext ==
  ASSUME Inv, [Next]_vars
  PROVE  Inv'
<1> USE SizesAssumption
<1>1. CASE WriteHeader
  <2>1. CASE WriteRefused(HEADER) /\ Fail
    BY <2>1, FailInv
  <2>2. ASSUME NEW n \in Payloads, payload' = n,
               WriteBytes(HEADER, IF n = 0 THEN "flush" ELSE "payload")
        PROVE  Inv'
    BY <2>2, WriteBytesInv
  <2> QED
    BY <1>1, <2>1, <2>2 DEF WriteHeader
<1>2. CASE WritePayload
  <2>1. CASE WriteRefused(payload) /\ Fail
    BY <2>1, FailInv
  <2>2. CASE WriteBytes(payload, "flush") /\ UNCHANGED payload
    <3>1. payload \in Nat /\ payload \in Payloads \cup {0} /\ pending > 0
      BY <1>2 DEF WritePayload, Inv, TypeOK, PendingNonEmpty
    <3> QED
      BY <2>2, <3>1, WriteBytesInv
  <2> QED
    BY <1>2, <2>1, <2>2 DEF WritePayload
<1>3. CASE FlushCheck
  <2>1. CASE Fail
    BY <2>1, FailInv
  <2>2. CASE ~Fail
    <3>1. /\ ppc = "flush" /\ ppc' = "lock"
          /\ UNCHANGED <<payload, pending, sharedVars, workVars, histVars>>
      BY <1>3, <2>2, Zenon DEF FlushCheck
    <3> QED
      BY <3>1 DEF Inv, TypeOK, Contiguous, FrameTaken, Accounting,
         PendingNonEmpty, DeliveredPrefix, StoppingState, QueueBounded, Taken, InFlight, Stopping,
         BlockLen, ProducerPC, sharedVars, workVars, histVars
  <2> QED
    BY <2>1, <2>2
<1>4. CASE FlushLocked
  <2>1. CASE FlushRefused(pending)
    BY <1>4, <2>1, FailInv DEF FlushLocked
  <2>2. CASE ~FlushRefused(pending)
    BY <1>4, <2>2, EnqueueInv
  <2> QED
    BY <2>1, <2>2
<1>5. CASE FlushNotify \/ DropNotify
  <2>1. /\ ppc' \in {"idle", "dropped"} /\ wpc' = (IF wpc = "waiting" THEN "take" ELSE wpc)
        /\ UNCHANGED <<payload, pending, sharedVars, frame, histVars>>
    BY <1>5 DEF FlushNotify, DropNotify, NotifyOne
  <2> QED
    BY <2>1 DEF Inv, TypeOK, Contiguous, FrameTaken, Accounting,
       PendingNonEmpty, DeliveredPrefix, StoppingState, QueueBounded, Taken, InFlight, Stopping,
       BlockLen, ProducerPC, WorkerPC, sharedVars, histVars
<1>6. CASE Drop
  <2>1. /\ closed' /\ closed' \in BOOLEAN /\ ppc' = "drop_notify"
        /\ UNCHANGED <<payload, pending, blocks, failed, queued_bytes, shut, wpc, frame>>
        /\ UNCHANGED <<accepted, frame_ends, delivered, broken>>
    BY <1>6, Zenon DEF Drop, workVars, histVars
  <2> QED
    BY <2>1 DEF Inv, TypeOK, Contiguous, FrameTaken, Accounting,
       PendingNonEmpty, DeliveredPrefix, StoppingState, QueueBounded, Taken, InFlight, Stopping,
       BlockLen, ProducerPC
<1>7. CASE Take
  <2>1. CASE blocks # <<>>
    BY <1>7, <2>1, TakeBlockInv
  <2>2. CASE blocks = <<>>
    BY <1>7, <2>2 DEF Take, Inv, TypeOK, Contiguous, FrameTaken, Accounting,
       PendingNonEmpty, DeliveredPrefix, StoppingState, QueueBounded, Taken, InFlight, Stopping,
       BlockLen, WorkerPC, prodVars, histVars
  <2> QED
    BY <2>1, <2>2
<1>8. CASE WriteOk \/ WriteErr \/ ReleaseBytes \/ StopFailed \/ StopClose \/ StopShutdown
  BY <1>8, WorkerInv
<1>9. CASE SpuriousWakeup
  BY <1>9 DEF SpuriousWakeup, Inv, TypeOK, Contiguous, FrameTaken, Accounting,
     PendingNonEmpty, DeliveredPrefix, StoppingState, QueueBounded, Taken, InFlight, Stopping,
     BlockLen, WorkerPC, prodVars, sharedVars, histVars
<1>10. CASE UNCHANGED vars
  BY <1>10 DEF vars, Inv, TypeOK, Contiguous, FrameTaken, Accounting,
     PendingNonEmpty, DeliveredPrefix, StoppingState, QueueBounded, Taken, InFlight, Stopping,
     BlockLen, prodVars, sharedVars, workVars, histVars
<1> QED
  BY <1>1, <1>2, <1>3, <1>4, <1>5, <1>6, <1>7, <1>8, <1>9, <1>10
     DEF Next, Producer, Worker, Finished

\* The inductive invariant holds in every state of every behaviour.
THEOREM InvHolds == Spec => []Inv
  BY InvInit, InvNext, PTL DEF Spec

\* Types are kept; the byte counter and `pending' stay in their ranges.
THEOREM TypeCorrect == Spec => []TypeOK
<1>1. Inv => TypeOK
  BY DEF Inv
<1> QED
  BY <1>1, InvHolds, PTL

\* A client's queue never holds more than QUEUE_BYTES (connection.rs, flush).
THEOREM QueueIsBounded == Spec => []QueueBounded
<1>1. Inv => QueueBounded
  BY DEF Inv
<1> QED
  BY <1>1, InvHolds, PTL

\* A worker that has exited leaves neither a block nor a byte of the counter
\* behind, so a flush racing with the worker's stop is refused, not stranded.
THEOREM NothingIsStranded == Spec => []NothingStranded
<1>1. Inv => NothingStranded
  BY Numbers DEF Inv, NothingStranded, StoppingState, Accounting, Taken, InFlight
<1> QED
  BY <1>1, InvHolds, PTL

\* Without a transport error everything accepted before drop, the closing
\* S_DETACHED or S_EXIT included, has reached the peer when the worker exits.
THEOREM CleanExitIsComplete == Spec => []CleanExitDeliversAll
<1>1. Inv => CleanExitDeliversAll
  BY DEF Inv, CleanExitDeliversAll, StoppingState, DeliveredPrefix, Taken
<1> QED
  BY <1>1, InvHolds, PTL

\* The peer never sees a torn frame unless the transport broke.
THEOREM FramesAreWhole == Spec => []WholeFrames
<1>1. ASSUME Inv PROVE WholeFrames
  <2>1. Taken \in frame_ends
    <3>1. CASE blocks = <<>>
      BY <1>1, <3>1 DEF Inv, Contiguous, Taken
    <3>2. CASE blocks # <<>>
      <4>1. 1 \in 1 .. Len(blocks)
        BY <1>1, <3>2 DEF Inv, TypeOK
      <4> QED
        BY <1>1, <3>2, <4>1 DEF Inv, Contiguous, Taken
    <3> QED
      BY <3>1, <3>2
  <2> QED
    BY <1>1, <2>1 DEF Inv, WholeFrames, DeliveredPrefix, FrameTaken, InFlight
<1> QED
  BY <1>1, InvHolds, PTL

\* The counter is the bytes of the queue's blocks and of the worker's, so that
\* no fetch_sub underflows.
THEOREM BytesAccounted == Spec => []ByteAccounting
<1>1. Inv => ByteAccounting
  <2>1. SUFFICES ASSUME Inv
                 PROVE  ByteAccounting
    OBVIOUS
  <2>2. Remaining(blocks) = accepted - Taken
    BY <2>1, RemainingIs DEF Inv
  <2>3. QED
    BY <2>1, <2>2 DEF Inv, Accounting, ByteAccounting, HeldByWorker, InFlight
<1>2. QED
  BY <1>1, InvHolds, PTL

\* A writer or worker that has reported failure accepts no further frame.
THEOREM FailureIsFinal == Spec => FailedIsFinal
<1>1. [Next]_vars => [failed => UNCHANGED accepted]_vars
  BY DEF Next, Producer, Worker, Finished, WriteHeader, WritePayload, FlushCheck, FlushLocked,
     FlushNotify, Drop, DropNotify, NotifyOne, Take, WriteOk, WriteErr, ReleaseBytes, StopFailed,
     StopClose, StopShutdown, SpuriousWakeup, Fail, WriteBytes, FlushRefused,
     prodVars, sharedVars, workVars, histVars, vars
<1> QED
  BY <1>1, PTL DEF Spec, FailedIsFinal

\* The queue implements FrameStream: an ordered, gap-free stream of frames.
THEOREM ImplementsFrameStream == Spec => RefinesFrameStream
<1>1. Init => FS!Init
  BY DEF Init, FS!Init
<1>2. ASSUME Inv, [Next]_vars PROVE [FS!Next]_(FS!vars)
  <2>1. CASE FlushLocked
    <3>1. CASE FlushRefused(pending)
      BY <2>1, <3>1 DEF FlushLocked, Fail, histVars, FS!vars
    <3>2. CASE ~FlushRefused(pending)
      <4>1. pending \in Nat /\ pending > 0 /\ accepted \in Nat
        BY <1>2, <2>1 DEF FlushLocked, Inv, TypeOK, PendingNonEmpty
      <4>2. /\ accepted' = accepted + pending
            /\ frame_ends' = frame_ends \cup {accepted + pending}
            /\ UNCHANGED <<delivered, broken>>
        BY <2>1, <3>2, Zenon DEF FlushLocked
      <4> QED
        BY <4>1, <4>2 DEF FS!Next, FS!Accept
    <3> QED
      BY <3>1, <3>2
  <2>2. CASE WriteOk
    <3>1. /\ delivered = frame.from /\ ~broken /\ frame.from < frame.to /\ frame.to \in frame_ends
          /\ frame.to <= accepted /\ delivered' = frame.to
          /\ UNCHANGED <<accepted, frame_ends, broken>>
      BY <1>2, <2>2, Numbers
         DEF WriteOk, Inv, FrameTaken, InFlight, DeliveredPrefix, StoppingState, Stopping
    <3> QED
      BY <3>1 DEF FS!Next, FS!Deliver
  <2>3. CASE WriteErr
    <3>1. /\ delivered = frame.from /\ ~broken /\ frame.to <= accepted
          /\ frame.from \in Nat /\ frame.to \in Nat /\ accepted \in Nat
      BY <1>2, <2>3, Numbers
         DEF WriteErr, Inv, FrameTaken, InFlight, DeliveredPrefix, StoppingState, Stopping
    <3>2. broken' = TRUE /\ UNCHANGED <<accepted, frame_ends>>
      BY <2>3, Zenon DEF WriteErr
    <3>3. delivered' \in Nat /\ delivered <= delivered' /\ delivered' <= accepted
      BY <2>3, <3>1 DEF WriteErr
    <3> QED
      BY <3>1, <3>2, <3>3, Zenon DEF FS!Next, FS!Break
  <2>4. CASE UNCHANGED histVars
    BY <2>4 DEF histVars, FS!vars
  <2> QED
    BY <1>2, <2>1, <2>2, <2>3, <2>4
       DEF Next, Producer, Worker, Finished, WriteHeader, WritePayload, FlushCheck,
       FlushNotify, Drop, DropNotify, NotifyOne, Take, ReleaseBytes, StopFailed,
       StopClose, StopShutdown, SpuriousWakeup, Fail, WriteBytes, vars
<1> QED
  BY <1>1, <1>2, InvHolds, PTL DEF Spec, RefinesFrameStream, FS!Spec

=============================================================================
