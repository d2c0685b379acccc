------------------------- MODULE ClientInputProofs -------------------------
(***************************************************************************)
(* Proofs about ClientInput, for every capacity, byte budget, set of       *)
(* payload sizes and number of messages.                                   *)
(***************************************************************************)
EXTENDS ClientInput, SeqOpsProofs

-----------------------------------------------------------------------------
(* The inductive invariant.                                                *)

\* The types the argument needs.  (That bytes is never negative takes the sum
\* of the sizes in the channel: see BytesNeverWrap.)
Types ==
    /\ rpc \in {"read", "reserve", "send", "final", "ended"}
    /\ mpc \in {"attached", "drop_receiver", "drop_channel", "gone"}
    /\ held \in Msg /\ chan \in Seq(Msg)
    /\ bytes \in Int /\ read \in Nat /\ received \in Nat

\* The flag is raised exactly on the way to dropping the channel.
ClosedLate == closed <=> mpc \in {"drop_channel", "gone"}

\* The channel holds consecutive messages, the last word only at its end and
\* only when the reader is through.
Consecutive ==
    \A i \in 1 .. Len(chan) :
        \/ chan[i].n = received + i
        \/ chan[i] = Disconnected /\ i = Len(chan) /\ rpc = "ended"

\* What was read is received, in the channel, or in the reader's hands.
Underway ==
    /\ mpc # "gone" /\ rpc \in {"reserve", "send"} =>
           held.n = read /\ read = received + Len(chan) + 1
    /\ mpc # "gone" /\ rpc = "read" => read = received + Len(chan)
    /\ ~closed /\ rpc = "final" => read = received + Len(chan)
    /\ mpc = "attached" /\ rpc = "ended" =>
           IF Len(chan) > 0 /\ chan[Len(chan)] = Disconnected
           THEN read = received + Len(chan) - 1 ELSE read = received + Len(chan)

\* The main loop is told of the end after it has taken everything.
NoticedLate == noticed => rpc = "ended" /\ chan = <<>>

Inv == Types /\ ClosedLate /\ InputBounded /\ Consecutive /\ Underway /\ NoticedLate

-----------------------------------------------------------------------------
(* Preservation.                                                           *)

\* The initial state satisfies the invariant.
LEMMA InitInv == Init => Inv
<1> SUFFICES ASSUME Init PROVE Inv OBVIOUS
<1>1. Types BY DEF Init, Types, Msg, Disconnected
<1>2. ClosedLate /\ NoticedLate BY DEF Init, ClosedLate, NoticedLate
<1>3. InputBounded BY InputAssumption DEF Init, InputBounded
<1>4. Consecutive /\ Underway BY DEF Init, Consecutive, Underway
<1> QED BY <1>1, <1>2, <1>3, <1>4 DEF Inv

\* What Append does to a channel.
LEMMA AppendFacts ==
    ASSUME NEW c \in Seq(Msg), NEW m \in Msg
    PROVE  /\ Append(c, m) \in Seq(Msg) /\ Len(Append(c, m)) = Len(c) + 1
           /\ Append(c, m)[Len(c) + 1] = m
           /\ \A i \in 1 .. Len(c) : Append(c, m)[i] = c[i]
OBVIOUS

\* What taking the head does to a channel.
LEMMA TailFacts ==
    ASSUME NEW c \in Seq(Msg), c # <<>>
    PROVE  /\ Len(c) \in Nat \ {0} /\ Head(c) = c[1] /\ Head(c) \in Msg
           /\ Tail(c) \in Seq(Msg) /\ Len(Tail(c)) = Len(c) - 1
           /\ \A i \in 1 .. Len(c) - 1 : Tail(c)[i] = c[i + 1]
OBVIOUS

\* The steps of the reader thread preserve the invariant.
LEMMA ReaderInv ==
    ASSUME Inv,
           ReadFrame \/ ReadEnd \/ Reserve \/ ReserveGivesUp \/ Send
           \/ SendFails \/ LastWord
    PROVE  Inv'
<1>1. CASE ReadFrame
  <2>1. Types' BY <1>1, InputAssumption DEF Inv, Types, ReadFrame, MsgSize, Msg
  <2>2. ClosedLate' BY <1>1 DEF Inv, Types, ClosedLate, ReadFrame, MsgSize, Msg
  <2>3. InputBounded'
    BY <1>1, InputAssumption DEF Inv, Types, InputBounded, Msg, ReadFrame, MsgSize
  <2>4. Consecutive'
    BY <1>1 DEF Inv, Types, Consecutive, NoticedLate, ClosedLate, ReadFrame, MsgSize, Msg
  <2>5. Underway'
    <3>1. held'.n = read + 1 /\ read' = read + 1 /\ rpc = "read" /\ rpc' = "reserve"
      BY <1>1 DEF ReadFrame
    <3>2. UNCHANGED <<mpc, chan, received>> BY <1>1 DEF ReadFrame
    <3> QED BY <3>1, <3>2 DEF Inv, Types, Underway
  <2>6. NoticedLate'
    BY <1>1 DEF Inv, Types, NoticedLate, Consecutive, ReadFrame, MsgSize, Msg
  <2> QED BY <2>1, <2>2, <2>3, <2>4, <2>5, <2>6 DEF Inv
<1>2. CASE ReadEnd
  <2>1. Types' BY <1>2, InputAssumption DEF Inv, Types, ReadEnd
  <2>2. ClosedLate' BY <1>2 DEF Inv, Types, ClosedLate, ReadEnd
  <2>3. InputBounded' BY <1>2, InputAssumption DEF Inv, Types, InputBounded, Msg, ReadEnd
  <2>4. Consecutive' BY <1>2 DEF Inv, Types, Consecutive, NoticedLate, ClosedLate, ReadEnd
  <2>5. Underway'
    BY <1>2 DEF Inv, Types, ClosedLate, Underway, Consecutive, NoticedLate, ReadEnd
  <2>6. NoticedLate' BY <1>2 DEF Inv, Types, NoticedLate, Consecutive, ReadEnd
  <2> QED BY <2>1, <2>2, <2>3, <2>4, <2>5, <2>6 DEF Inv
<1>3. CASE Reserve
  <2>1. Types' BY <1>3, InputAssumption DEF Inv, Types, Reserve, Fits
  <2>2. ClosedLate' BY <1>3 DEF Inv, Types, ClosedLate, Reserve, Fits
  <2>3. InputBounded'
    BY <1>3, InputAssumption DEF Inv, Types, InputBounded, Msg, Reserve, Fits
  <2>4. Consecutive'
    BY <1>3 DEF Inv, Types, Consecutive, NoticedLate, ClosedLate, Reserve, Fits
  <2>5. Underway'
    BY <1>3 DEF Inv, Types, ClosedLate, Underway, Consecutive, NoticedLate, Reserve, Fits
  <2>6. NoticedLate' BY <1>3 DEF Inv, Types, NoticedLate, Consecutive, Reserve, Fits
  <2> QED BY <2>1, <2>2, <2>3, <2>4, <2>5, <2>6 DEF Inv
<1>4. CASE ReserveGivesUp
  <2>1. Types' BY <1>4, InputAssumption DEF Inv, Types, ReserveGivesUp, Fits
  <2>2. ClosedLate' BY <1>4 DEF Inv, Types, ClosedLate, ReserveGivesUp, Fits
  <2>3. InputBounded'
    BY <1>4, InputAssumption DEF Inv, Types, InputBounded, Msg, ReserveGivesUp, Fits
  <2>4. Consecutive'
    BY <1>4 DEF Inv, Types, Consecutive, NoticedLate, ClosedLate, ReserveGivesUp, Fits
  <2>5. Underway'
    BY <1>4 DEF Inv, Types, ClosedLate, Underway, Consecutive, NoticedLate, ReserveGivesUp, Fits
  <2>6. NoticedLate' BY <1>4 DEF Inv, Types, NoticedLate, Consecutive, ReserveGivesUp, Fits
  <2> QED BY <2>1, <2>2, <2>3, <2>4, <2>5, <2>6 DEF Inv
<1>5. CASE Send
  <2>1. Types' BY <1>5, InputAssumption DEF Inv, Types, Send, Hungup, Msg
  <2>2. ClosedLate' BY <1>5 DEF Inv, Types, ClosedLate, Send, Hungup, Msg
  <2>3. InputBounded'
    BY <1>5, InputAssumption DEF Inv, Types, InputBounded, Msg, Send, Hungup
  <2>4. Consecutive'
    <3>1. chan' = Append(chan, held) /\ UNCHANGED received /\ rpc = "send" /\ mpc # "gone"
      BY <1>5 DEF Send, Hungup
    <3>2. held.n = received + Len(chan) + 1 BY <3>1 DEF Inv, Underway
    <3>3. Len(chan) \in Nat /\ chan \in Seq(Msg) /\ held \in Msg BY DEF Inv, Types
    <3>4. \A i \in 1 .. Len(chan) : chan[i].n = received + i
      BY <3>1 DEF Inv, Consecutive
    <3>5. ASSUME NEW i \in 1 .. Len(chan') PROVE chan'[i].n = received' + i
      <4>1. CASE i \in 1 .. Len(chan) BY <4>1, <3>1, <3>3, <3>4, AppendFacts
      <4>2. CASE i = Len(chan) + 1
        <5>1. chan'[i] = held BY <4>2, <3>1, <3>3, AppendFacts
        <5> QED BY <5>1, <4>2, <3>1, <3>2, <3>3 DEF Inv, Types
      <4> QED BY <4>1, <4>2, <3>1, <3>3, <3>5, AppendFacts
    <3> QED BY <3>5 DEF Consecutive
  <2>5. Underway'
    BY <1>5 DEF Inv, Types, ClosedLate, Underway, Consecutive, NoticedLate, Send, Hungup, Msg
  <2>6. NoticedLate' BY <1>5 DEF Inv, Types, NoticedLate, Consecutive, Send, Hungup, Msg
  <2> QED BY <2>1, <2>2, <2>3, <2>4, <2>5, <2>6 DEF Inv
<1>6. CASE SendFails
  <2>1. Types' BY <1>6, InputAssumption DEF Inv, Types, SendFails, Hungup, Msg
  <2>2. ClosedLate' BY <1>6 DEF Inv, Types, ClosedLate, SendFails, Hungup, Msg
  <2>3. InputBounded'
    BY <1>6, InputAssumption DEF Inv, Types, InputBounded, Msg, SendFails, Hungup
  <2>4. Consecutive'
    BY <1>6 DEF Inv, Types, Consecutive, NoticedLate, ClosedLate, SendFails, Hungup, Msg
  <2>5. Underway'
    BY <1>6 DEF Inv, Types, ClosedLate, Underway, Consecutive, NoticedLate, SendFails, Hungup, Msg
  <2>6. NoticedLate'
    BY <1>6 DEF Inv, Types, NoticedLate, Consecutive, SendFails, Hungup, Msg
  <2> QED BY <2>1, <2>2, <2>3, <2>4, <2>5, <2>6 DEF Inv
<1>7. CASE LastWord
  <2>1. Types'
    <3>1. Disconnected \in Msg BY DEF Disconnected, Msg
    <3>2. chan' \in Seq(Msg) BY <1>7, <3>1 DEF Inv, Types, LastWord
    <3> QED BY <1>7, <3>2 DEF Inv, Types, LastWord
  <2>2. ClosedLate' BY <1>7 DEF Inv, Types, ClosedLate, LastWord, Hungup, Msg, Disconnected
  <2>3. InputBounded'
    BY <1>7, InputAssumption DEF Inv, Types, InputBounded, Msg, LastWord, Hungup, Disconnected
  <2>4. Consecutive'
    BY <1>7 DEF Inv, Types, Consecutive, NoticedLate, ClosedLate, LastWord, Hungup, Msg, Disconnected
  <2>5. Underway'
    <3>1. rpc = "final" /\ rpc' = "ended" /\ UNCHANGED <<mpc, read, received>>
      BY <1>7 DEF LastWord
    <3>2. \/ chan' = chan \/ chan' = Append(chan, Disconnected) BY <1>7 DEF LastWord
    <3>3. chan \in Seq(Msg) /\ Len(chan) \in Nat /\ received \in Nat BY DEF Inv, Types
    <3>4. ASSUME mpc = "attached" PROVE read = received + Len(chan)
      <4>1. ~closed BY <3>4 DEF Inv, ClosedLate
      <4> QED BY <4>1, <3>1 DEF Inv, Underway
    <3>5. CASE chan' = chan
      <4>1. ASSUME Len(chan) > 0 PROVE chan[Len(chan)] # Disconnected
        <5>1. chan[Len(chan)].n = received + Len(chan)
          BY <4>1, <3>1, <3>3 DEF Inv, Consecutive
        <5>2. Disconnected.n = 0 BY DEF Disconnected
        <5> QED BY <5>1, <5>2, <4>1, <3>3
      <4> QED BY <4>1, <3>1, <3>3, <3>4, <3>5 DEF Underway
    <3>6. CASE chan' = Append(chan, Disconnected)
      <4>1. Disconnected \in Msg BY DEF Disconnected, Msg
      <4>2. Len(chan') = Len(chan) + 1 /\ chan'[Len(chan')] = Disconnected
        BY <4>1, <3>3, <3>6, AppendFacts
      <4>3. read \in Nat BY DEF Inv, Types
      <4> QED BY <4>2, <4>3, <3>1, <3>3, <3>4 DEF Underway
    <3> QED BY <3>2, <3>5, <3>6
  <2>6. NoticedLate'
    BY <1>7 DEF Inv, Types, NoticedLate, Consecutive, LastWord, Hungup, Msg, Disconnected
  <2> QED BY <2>1, <2>2, <2>3, <2>4, <2>5, <2>6 DEF Inv
<1> QED BY <1>1, <1>2, <1>3, <1>4, <1>5, <1>6, <1>7

\* The steps of the main loop, and a lost link, preserve it.
LEMMA MainLoopInv ==
    ASSUME Inv,
           TryRecvDisconnected \/ DropWriter \/ DropReceiver
           \/ DropChannel \/ LinkLost
    PROVE  Inv'
<1>1. CASE TryRecvDisconnected
  <2>1. Types' BY <1>1, InputAssumption DEF Inv, Types, TryRecvDisconnected
  <2>2. ClosedLate' BY <1>1 DEF Inv, Types, ClosedLate, TryRecvDisconnected
  <2>3. InputBounded'
    BY <1>1, InputAssumption DEF Inv, Types, InputBounded, Msg, TryRecvDisconnected
  <2>4. Consecutive'
    BY <1>1 DEF Inv, Types, Consecutive, NoticedLate, ClosedLate, TryRecvDisconnected
  <2>5. Underway'
    BY <1>1 DEF Inv, Types, ClosedLate, Underway, Consecutive, NoticedLate, TryRecvDisconnected
  <2>6. NoticedLate' BY <1>1 DEF Inv, Types, NoticedLate, Consecutive, TryRecvDisconnected
  <2> QED BY <2>1, <2>2, <2>3, <2>4, <2>5, <2>6 DEF Inv
<1>2. CASE DropWriter
  <2>1. Types' BY <1>2, InputAssumption DEF Inv, Types, DropWriter
  <2>2. ClosedLate' BY <1>2 DEF Inv, Types, ClosedLate, DropWriter
  <2>3. InputBounded'
    BY <1>2, InputAssumption DEF Inv, Types, InputBounded, Msg, DropWriter
  <2>4. Consecutive'
    BY <1>2 DEF Inv, Types, Consecutive, NoticedLate, ClosedLate, DropWriter
  <2>5. Underway'
    BY <1>2 DEF Inv, Types, ClosedLate, Underway, Consecutive, NoticedLate, DropWriter
  <2>6. NoticedLate' BY <1>2 DEF Inv, Types, NoticedLate, Consecutive, DropWriter
  <2> QED BY <2>1, <2>2, <2>3, <2>4, <2>5, <2>6 DEF Inv
<1>3. CASE DropReceiver
  <2>1. Types' BY <1>3, InputAssumption DEF Inv, Types, DropReceiver
  <2>2. ClosedLate' BY <1>3 DEF Inv, Types, ClosedLate, DropReceiver
  <2>3. InputBounded'
    BY <1>3, InputAssumption DEF Inv, Types, InputBounded, Msg, DropReceiver
  <2>4. Consecutive'
    BY <1>3 DEF Inv, Types, Consecutive, NoticedLate, ClosedLate, DropReceiver
  <2>5. Underway'
    BY <1>3 DEF Inv, Types, ClosedLate, Underway, Consecutive, NoticedLate, DropReceiver
  <2>6. NoticedLate' BY <1>3 DEF Inv, Types, NoticedLate, Consecutive, DropReceiver
  <2> QED BY <2>1, <2>2, <2>3, <2>4, <2>5, <2>6 DEF Inv
<1>4. CASE DropChannel
  <2>1. Types' BY <1>4, InputAssumption DEF Inv, Types, DropChannel
  <2>2. ClosedLate' BY <1>4 DEF Inv, Types, ClosedLate, DropChannel
  <2>3. InputBounded'
    BY <1>4, InputAssumption DEF Inv, Types, InputBounded, Msg, DropChannel
  <2>4. Consecutive'
    BY <1>4 DEF Inv, Types, Consecutive, NoticedLate, ClosedLate, DropChannel
  <2>5. Underway'
    BY <1>4 DEF Inv, Types, ClosedLate, Underway, Consecutive, NoticedLate, DropChannel
  <2>6. NoticedLate' BY <1>4 DEF Inv, Types, NoticedLate, Consecutive, DropChannel
  <2> QED BY <2>1, <2>2, <2>3, <2>4, <2>5, <2>6 DEF Inv
<1>5. CASE LinkLost
  <2>1. Types' BY <1>5, InputAssumption DEF Inv, Types, LinkLost
  <2>2. ClosedLate' BY <1>5 DEF Inv, Types, ClosedLate, LinkLost
  <2>3. InputBounded' BY <1>5, InputAssumption DEF Inv, Types, InputBounded, Msg, LinkLost
  <2>4. Consecutive' BY <1>5 DEF Inv, Types, Consecutive, NoticedLate, ClosedLate, LinkLost
  <2>5. Underway'
    BY <1>5 DEF Inv, Types, ClosedLate, Underway, Consecutive, NoticedLate, LinkLost
  <2>6. NoticedLate' BY <1>5 DEF Inv, Types, NoticedLate, Consecutive, LinkLost
  <2> QED BY <2>1, <2>2, <2>3, <2>4, <2>5, <2>6 DEF Inv
<1> QED BY <1>1, <1>2, <1>3, <1>4, <1>5

\* So does the receipt of a message: the head is the next message, or it is the
\* last word and there is nothing behind it.
LEMMA TryRecvInv == Inv /\ TryRecv => Inv'
<1> SUFFICES ASSUME Inv, TryRecv PROVE Inv' OBVIOUS
<1>1. /\ chan # <<>> /\ chan' = Tail(chan) /\ bytes' = bytes - Head(chan).size
      /\ mpc = "attached" /\ UNCHANGED <<rpc, held, mpc, read>>
  BY DEF TryRecv
<1>2. ~noticed /\ (closed' <=> closed) BY Zenon DEF TryRecv
<1>3. /\ chan \in Seq(Msg) /\ Len(chan) \in Nat \ {0} /\ Head(chan) = chan[1]
      /\ chan[1].n \in Nat /\ chan[1].size \in Nat
      /\ chan' \in Seq(Msg) /\ Len(chan') = Len(chan) - 1
      /\ \A i \in 1 .. Len(chan') : chan'[i] = chan[i + 1]
  BY <1>1, TailFacts DEF Inv, Types, Msg
<1>4. received \in Nat /\ read \in Nat /\ bytes \in Int BY DEF Inv, Types
<1>5. CASE Head(chan) = Disconnected
  <2>1. UNCHANGED received /\ Head(chan).n = 0 BY <1>5 DEF TryRecv, Disconnected
  <2>2. Len(chan) = 1 /\ rpc = "ended"
    <3>1. chan[1].n # received + 1 BY <2>1, <1>3, <1>4
    <3> QED BY <3>1, <1>3 DEF Inv, Consecutive
  <2>3. chan' = <<>> BY <2>2, <1>3
  <2>4. Types' BY <1>1, <1>3, <1>4, <2>1 DEF Inv, Types
  <2>5. ClosedLate' BY <1>1, <1>2 DEF Inv, ClosedLate
  <2>6. InputBounded' BY <1>1, <1>3, <1>4, InputAssumption DEF Inv, InputBounded
  <2>7. Consecutive' BY <2>3 DEF Consecutive
  <2>8. Underway'
    <3>1. read = received BY <1>1, <1>3, <1>4, <1>5, <2>2 DEF Inv, Underway
    <3>2. read' = received' + Len(chan') /\ Len(chan') = 0
      BY <3>1, <1>1, <1>3, <1>4, <2>1, <2>2
    <3> QED BY <3>2, <1>1, <2>2 DEF Underway
  <2>9. NoticedLate' BY <1>1, <2>2, <2>3 DEF NoticedLate
  <2> QED BY <2>4, <2>5, <2>6, <2>7, <2>8, <2>9 DEF Inv
<1>6. CASE Head(chan) # Disconnected
  <2>1. received' = chan[1].n BY <1>3, <1>6 DEF TryRecv
  <2>2. received' = received + 1 BY <2>1, <1>3, <1>6 DEF Inv, Consecutive
  <2>3. Types' BY <1>1, <1>3, <1>4, <2>2 DEF Inv, Types
  <2>4. ClosedLate' BY <1>1, <1>2 DEF Inv, ClosedLate
  <2>5. InputBounded' BY <1>1, <1>3, <1>4, InputAssumption DEF Inv, InputBounded
  <2>6. Consecutive'
    <3> SUFFICES ASSUME NEW i \in 1 .. Len(chan')
                 PROVE  \/ chan'[i].n = received' + i
                        \/ chan'[i] = Disconnected /\ i = Len(chan') /\ rpc' = "ended"
      BY DEF Consecutive
    <3>1. chan'[i] = chan[i + 1] /\ i + 1 \in 1 .. Len(chan) BY <1>3
    <3>2. \/ chan[i + 1].n = received + (i + 1)
          \/ chan[i + 1] = Disconnected /\ i + 1 = Len(chan) /\ rpc = "ended"
      BY <3>1 DEF Inv, Consecutive
    <3>3. received + (i + 1) = received' + i BY <1>4, <2>2
    <3>4. i + 1 = Len(chan) => i = Len(chan') BY <1>3
    <3> QED BY <3>1, <3>2, <3>3, <3>4, <1>1
  <2>7. Underway'
    <3>1. received + Len(chan) = received' + Len(chan') BY <1>3, <1>4, <2>2
    <3>2. (Len(chan) > 0 /\ chan[Len(chan)] = Disconnected)
              <=> (Len(chan') > 0 /\ chan'[Len(chan')] = Disconnected)
      <4>1. CASE Len(chan) = 1 BY <4>1, <1>3, <1>6
      <4>2. CASE Len(chan) > 1
        <5>1. Len(chan') \in 1 .. Len(chan') /\ Len(chan') + 1 = Len(chan) BY <4>2, <1>3
        <5> QED BY <5>1, <4>2, <1>3
      <4> QED BY <4>1, <4>2, <1>3
    <3>3. ~closed' => ~closed BY <1>2
    <3>4. rpc \in {"reserve", "send"} => held.n = read /\ read = received + Len(chan) + 1
      BY <1>1 DEF Inv, Underway
    <3>5. /\ rpc = "read" => read = received + Len(chan)
          /\ ~closed /\ rpc = "final" => read = received + Len(chan)
      BY <1>1 DEF Inv, Underway
    <3>6. rpc = "ended" =>
              IF Len(chan) > 0 /\ chan[Len(chan)] = Disconnected
              THEN read = received + Len(chan) - 1 ELSE read = received + Len(chan)
      BY <1>1 DEF Inv, Underway
    <3>7. rpc' \in {"reserve", "send"} =>
              held'.n = read' /\ read' = received' + Len(chan') + 1
      BY <3>1, <3>4, <1>1
    <3>8. /\ rpc' = "read" => read' = received' + Len(chan')
          /\ ~closed' /\ rpc' = "final" => read' = received' + Len(chan')
      BY <3>1, <3>3, <3>5, <1>1
    <3>9. rpc' = "ended" =>
              IF Len(chan') > 0 /\ chan'[Len(chan')] = Disconnected
              THEN read' = received' + Len(chan') - 1 ELSE read' = received' + Len(chan')
      <4>1. read' = read /\ rpc' = rpc BY <1>1
      <4>2. CASE Len(chan) > 0 /\ chan[Len(chan)] = Disconnected
        <5>1. received' + Len(chan') - 1 = received + Len(chan) - 1 BY <1>3, <1>4, <2>2
        <5>2. rpc' = "ended" => read' = received' + Len(chan') - 1
          BY <3>6, <4>1, <4>2, <5>1
        <5> QED BY <3>2, <4>2, <5>2, Zenon
      <4>3. CASE ~(Len(chan) > 0 /\ chan[Len(chan)] = Disconnected)
        BY <3>1, <3>2, <3>6, <4>1, <4>3, Zenon
      <4> QED BY <4>2, <4>3
    <3> QED BY <3>7, <3>8, <3>9, Zenon DEF Underway
  <2>8. ~noticed' BY <1>2, <1>6, Zenon DEF TryRecv
  <2> QED BY <2>3, <2>4, <2>5, <2>6, <2>7, <2>8 DEF Inv, NoticedLate
<1> QED BY <1>5, <1>6

\* Steps that change nothing preserve it.
LEMMA StutterInv == Inv /\ UNCHANGED vars => Inv'
BY DEF Inv, Types, ClosedLate, InputBounded, Consecutive, Underway, NoticedLate, vars

\* Every step preserves it.
LEMMA NextInv == Inv /\ [Next]_vars => Inv'
BY ReaderInv, MainLoopInv, TryRecvInv, StutterInv, Zenon DEF Next, Reader, MainLoop, Finished

-----------------------------------------------------------------------------
(* The byte budget.                                                        *)

Sizes(c) == [i \in 1 .. Len(c) |-> c[i].size]

\* The sizes of a channel's messages.
LEMMA SizesFacts ==
    ASSUME NEW c \in Seq(Msg)
    PROVE  /\ Len(c) \in Nat /\ Sizes(c) \in Seq(Int) /\ Len(Sizes(c)) = Len(c)
           /\ \A i \in 1 .. Len(c) : Sizes(c)[i] = c[i].size /\ c[i].size \in Nat
<1>1. \A m \in Msg : m.size \in Nat
  BY DEF Msg
<1>2. Len(c) \in Nat /\ \A i \in 1 .. Len(c) : c[i].size \in Nat
  BY <1>1
<1>3. Sizes(c) \in [1 .. Len(c) -> Int] /\ \A i \in 1 .. Len(c) : Sizes(c)[i] = c[i].size
  BY <1>2 DEF Sizes
<1>4. Sizes(c) \in Seq(Int) /\ Len(Sizes(c)) = Len(c)
  BY <1>2, <1>3
<1>5. QED
  BY <1>2, <1>3, <1>4

\* What a channel holds is a number of bytes.
LEMMA WaitingNat ==
    ASSUME NEW c \in Seq(Msg)
    PROVE  Waiting(c) \in Nat
<1>1. Waiting(c) = Total(Sizes(c))
  BY DEF Waiting, Sizes
<1>2. \A i \in 1 .. Len(Sizes(c)) : Sizes(c)[i] >= 0
  BY SizesFacts
<1>3. Total(Sizes(c)) \in Int /\ Total(Sizes(c)) >= 0
  BY <1>2, SizesFacts, TotalInt, TotalNat
<1>4. QED
  BY <1>1, <1>3

\* A message sent adds its size ...
LEMMA WaitingAppend ==
    ASSUME NEW c \in Seq(Msg), NEW m \in Msg
    PROVE  Waiting(Append(c, m)) = Waiting(c) + m.size
<1> DEFINE v == Sizes(Append(c, m))
           u == Append(Sizes(c), m.size)
<1>1. m.size \in Int
  BY DEF Msg
<1>2. /\ Append(c, m) \in Seq(Msg) /\ Len(Append(c, m)) = Len(c) + 1 /\ Len(c) \in Nat
      /\ Append(c, m)[Len(c) + 1] = m
      /\ \A i \in 1 .. Len(c) : Append(c, m)[i] = c[i]
  BY AppendFacts
<1>3. v \in Seq(Int) /\ Len(v) = Len(c) + 1
      /\ \A i \in 1 .. Len(c) + 1 : v[i] = Append(c, m)[i].size
  BY <1>2, SizesFacts
<1>4. u \in Seq(Int) /\ Len(u) = Len(c) + 1 /\ u[Len(c) + 1] = m.size
      /\ \A i \in 1 .. Len(c) : u[i] = c[i].size
  <2>1. /\ Sizes(c) \in Seq(Int) /\ Len(Sizes(c)) = Len(c)
        /\ \A i \in 1 .. Len(c) : Sizes(c)[i] = c[i].size
    BY SizesFacts
  <2>2. QED
    BY <1>1, <1>2, <2>1
<1>5. ASSUME NEW i \in 1 .. Len(c) + 1
      PROVE  v[i] = u[i]
  <2> HIDE DEF v, u
  <2>1. CASE i \in 1 .. Len(c)
    BY <1>2, <1>3, <1>4, <2>1
  <2>2. CASE i = Len(c) + 1
    BY <1>2, <1>3, <1>4, <2>2
  <2>3. QED
    BY <1>2, <2>1, <2>2
<1>6. v = u
  <2> HIDE DEF v, u
  <2>1. QED
    BY <1>3, <1>4, <1>5, SeqEqual
<1>7. Waiting(Append(c, m)) = Total(v) /\ Waiting(c) = Total(Sizes(c))
  BY DEF Waiting, Sizes
<1>8. Total(u) = Total(Sizes(c)) + m.size
  BY <1>1, SizesFacts, TotalAppend
<1>9. QED
  <2> HIDE DEF v, u
  <2>1. QED
    BY <1>6, <1>7, <1>8

\* ... and a message taken takes its size away.
LEMMA WaitingTail ==
    ASSUME NEW c \in Seq(Msg), c # <<>>
    PROVE  Waiting(Tail(c)) = Waiting(c) - c[1].size
<1> DEFINE v == Sizes(Tail(c))
           u == Tail(Sizes(c))
<1>1. /\ Len(c) \in Nat \ {0} /\ Tail(c) \in Seq(Msg) /\ Len(Tail(c)) = Len(c) - 1
      /\ \A i \in 1 .. Len(c) - 1 : Tail(c)[i] = c[i + 1]
  BY TailFacts
<1>2. /\ Sizes(c) \in Seq(Int) /\ Len(Sizes(c)) = Len(c)
      /\ \A i \in 1 .. Len(c) : Sizes(c)[i] = c[i].size
  BY SizesFacts
<1>3. v \in Seq(Int) /\ Len(v) = Len(c) - 1 /\ \A i \in 1 .. Len(c) - 1 : v[i] = Tail(c)[i].size
  BY <1>1, SizesFacts
<1>4. Sizes(c) # <<>>
  BY <1>1, <1>2
<1>5. u \in Seq(Int) /\ Len(u) = Len(c) - 1 /\ \A i \in 1 .. Len(c) - 1 : u[i] = c[i + 1].size
  <2> DEFINE w == Sizes(c)
  <2> HIDE DEF w
  <2>1. w \in Seq(Int) /\ w # <<>> /\ Len(w) = Len(c) /\ \A i \in 1 .. Len(c) : w[i] = c[i].size
    BY <1>2, <1>4 DEF w
  <2>2. Tail(w) \in Seq(Int) /\ Len(Tail(w)) = Len(w) - 1
        /\ \A i \in 1 .. Len(w) - 1 : Tail(w)[i] = w[i + 1]
    BY <2>1
  <2>3. \A i \in 1 .. Len(c) - 1 : i + 1 \in 1 .. Len(c)
    BY <1>1
  <2>4. Tail(w) \in Seq(Int) /\ Len(Tail(w)) = Len(c) - 1
        /\ \A i \in 1 .. Len(c) - 1 : Tail(w)[i] = c[i + 1].size
    BY <2>1, <2>2, <2>3
  <2>5. QED
    BY <2>4 DEF w
<1>6. ASSUME NEW i \in 1 .. Len(c) - 1
      PROVE  v[i] = u[i]
  <2> HIDE DEF v, u
  <2>1. QED
    BY <1>1, <1>3, <1>5
<1>7. v = u
  <2> HIDE DEF v, u
  <2>1. QED
    BY <1>3, <1>5, <1>6, SeqEqual
<1>8. Waiting(Tail(c)) = Total(v) /\ Waiting(c) = Total(Sizes(c))
  BY DEF Waiting, Sizes
<1>9. Total(u) = Total(Sizes(c)) - Sizes(c)[1]
  BY <1>2, <1>4, TotalTail
<1>10. Sizes(c)[1] = c[1].size
  BY <1>1, <1>2
<1>11. QED
  <2> HIDE DEF v, u
  <2>1. QED
    BY <1>7, <1>8, <1>9, <1>10

\* The bytes the reader holds a reservation for.
Reserved == IF rpc = "send" THEN held.size ELSE 0

\* Once the receiver is gone its messages are gone too, and are no longer given
\* back: what the reader may still give back is covered.
Covered == mpc = "gone" => bytes >= Reserved

\* The accounting is kept by every step.
LEMMA AccountingNext ==
    Inv /\ InputAccounting /\ Covered /\ [Next]_vars => InputAccounting' /\ Covered'
<1> SUFFICES ASSUME Inv, InputAccounting, Covered, [Next]_vars
             PROVE  InputAccounting' /\ Covered'
  OBVIOUS
<1>1. /\ held \in Msg /\ held.size \in Nat /\ chan \in Seq(Msg) /\ bytes \in Int
      /\ Waiting(chan) \in Nat /\ Reserved \in Nat
  <2>1. held \in Msg /\ chan \in Seq(Msg) /\ bytes \in Int
    BY DEF Inv, Types
  <2>2. QED
    BY <2>1, WaitingNat DEF Msg, Reserved
<1>2. mpc # "gone" => bytes = Waiting(chan) + Reserved
  BY DEF InputAccounting, Reserved
<1>3. SUFFICES /\ mpc' # "gone" => bytes' = Waiting(chan') + Reserved'
               /\ mpc' = "gone" => bytes' >= Reserved'
  BY DEF InputAccounting, Covered, Reserved
<1>4. Disconnected \in Msg /\ Disconnected.size = 0
  BY DEF Disconnected, Msg
<1>5. CASE Reserve
  <2>1. bytes' = bytes + held.size /\ chan' = chan /\ mpc' = mpc /\ Reserved = 0
        /\ Reserved' = held.size
    BY <1>5 DEF Reserve, Reserved
  <2>2. QED
    BY <1>1, <1>2, <2>1 DEF Covered
<1>6. CASE Send
  <2>1. bytes' = bytes /\ chan' = Append(chan, held) /\ mpc' = mpc /\ mpc # "gone"
        /\ Reserved = held.size /\ Reserved' = 0
    BY <1>6 DEF Send, Reserved, Hungup
  <2>2. Waiting(chan') = Waiting(chan) + held.size
    BY <1>1, <2>1, WaitingAppend
  <2>3. QED
    BY <1>1, <1>2, <2>1, <2>2
<1>7. CASE SendFails
  <2>1. bytes' = bytes - held.size /\ mpc' = mpc /\ mpc = "gone"
        /\ Reserved = held.size /\ Reserved' = 0
    BY <1>7 DEF SendFails, Reserved, Hungup
  <2>2. QED
    BY <1>1, <2>1 DEF Covered
<1>8. CASE LastWord
  <2>1. bytes' = bytes /\ mpc' = mpc /\ Reserved = 0 /\ Reserved' = 0
        /\ (chan' = chan \/ chan' = Append(chan, Disconnected))
    BY <1>8 DEF LastWord, Reserved
  <2>2. Waiting(chan') = Waiting(chan)
    <3>1. Waiting(Append(chan, Disconnected)) = Waiting(chan) + 0
      BY <1>1, <1>4, WaitingAppend
    <3>2. Waiting(Append(chan, Disconnected)) = Waiting(chan)
      BY <1>1, <3>1
    <3>3. QED
      BY <2>1, <3>2, Zenon
  <2>3. QED
    BY <1>1, <1>2, <2>1, <2>2 DEF Covered
<1>9. CASE TryRecv
  <2>1. bytes' = bytes - Head(chan).size /\ mpc' = mpc /\ mpc # "gone" /\ chan # <<>>
        /\ chan' = Tail(chan) /\ Reserved' = Reserved
    BY <1>9 DEF TryRecv, Reserved
  <2>2. Waiting(chan') = Waiting(chan) - chan[1].size /\ Head(chan) = chan[1]
    BY <1>1, <2>1, WaitingTail, TailFacts
  <2>3. chan[1].size \in Nat
    BY <1>1, <2>1, TailFacts DEF Msg
  <2>4. QED
    BY <1>1, <1>2, <2>1, <2>2, <2>3
<1>10. CASE DropChannel
  <2>1. bytes' = bytes /\ mpc' = "gone" /\ mpc # "gone" /\ Reserved' = Reserved
    BY <1>10 DEF DropChannel, Reserved
  <2>2. QED
    BY <1>1, <1>2, <2>1
<1>11. CASE ReadFrame
  <2>1. bytes' = bytes /\ mpc' = mpc /\ chan' = chan /\ Reserved = 0 /\ Reserved' = 0
    BY <1>11 DEF ReadFrame, Reserved
  <2>2. QED
    BY <1>1, <1>2, <2>1 DEF Covered
<1>12. CASE ReadEnd \/ ReserveGivesUp
  <2>1. bytes' = bytes /\ mpc' = mpc /\ chan' = chan /\ Reserved = 0 /\ Reserved' = 0
    BY <1>12 DEF ReadEnd, ReserveGivesUp, Reserved
  <2>2. QED
    BY <1>1, <1>2, <2>1 DEF Covered
<1>13. CASE TryRecvDisconnected \/ LinkLost \/ Finished \/ UNCHANGED vars
  <2>1. bytes' = bytes /\ mpc' = mpc /\ chan' = chan /\ Reserved' = Reserved
    BY <1>13 DEF TryRecvDisconnected, LinkLost, Finished, vars, Reserved
  <2>2. QED
    BY <1>1, <1>2, <2>1 DEF Covered
<1>14. CASE DropWriter \/ DropReceiver
  <2>1. bytes' = bytes /\ mpc' # "gone" /\ mpc # "gone" /\ chan' = chan /\ Reserved' = Reserved
    BY <1>14 DEF DropWriter, DropReceiver, Reserved
  <2>2. QED
    BY <1>1, <1>2, <2>1
<1>15. QED
  BY <1>5, <1>6, <1>7, <1>8, <1>9, <1>10, <1>11, <1>12, <1>13, <1>14, Zenon
     DEF Next, Reader, MainLoop

-----------------------------------------------------------------------------
(* The theorems.                                                           *)

\* The invariant holds in every interleaving of reader, main loop and socket.
THEOREM InvHolds == Spec => []Inv
BY InitInv, NextInv, PTL DEF Spec

\* The byte budget of a connection is never exceeded.
THEOREM InputIsBounded == Spec => []InputBounded
<1>1. Inv => InputBounded BY DEF Inv
<1> QED BY InvHolds, <1>1, PTL

\* The counter is the bytes in the channel and in the reader's hands.
THEOREM InputIsAccounted == Spec => [](InputAccounting /\ Covered)
<1>1. Init => InputAccounting /\ Covered
  <2>1. SUFFICES ASSUME Init
                 PROVE  InputAccounting /\ Covered
    OBVIOUS
  <2>2. Waiting(<<>>) = 0
    <3>1. [i \in 1 .. Len(<<>>) |-> <<>>[i].size] = <<>>
      OBVIOUS
    <3>2. QED
      BY <3>1, TotalEmpty DEF Waiting
  <2>3. QED
    BY <2>1, <2>2 DEF Init, InputAccounting, Covered, Reserved
<1>2. QED
  BY <1>1, AccountingNext, InvHolds, PTL DEF Spec

\* bytes, an AtomicUsize, never wraps: no fetch_sub takes it below zero, also
\* not the reader's after the receiver is gone.
THEOREM BytesNeverWrap == Spec => [](bytes \in 0 .. QUEUE_BYTES)
<1>1. Inv /\ InputAccounting /\ Covered => bytes \in 0 .. QUEUE_BYTES
  <2>1. SUFFICES ASSUME Inv, InputAccounting, Covered
                 PROVE  bytes \in 0 .. QUEUE_BYTES
    OBVIOUS
  <2>2. bytes \in Int /\ bytes <= QUEUE_BYTES /\ QUEUE_BYTES \in Nat
    BY <2>1, InputAssumption DEF Inv, Types, InputBounded
  <2>3. Waiting(chan) \in Nat /\ held.size \in Nat
    BY <2>1, WaitingNat DEF Inv, Types, Msg
  <2>4. QED
    BY <2>1, <2>2, <2>3 DEF InputAccounting, Covered, Reserved
<1>2. QED
  BY <1>1, InputIsAccounted, InvHolds, PTL

\* The main loop receives the messages in order, without a gap.
THEOREM InputIsInOrder == Spec => []InOrder
<1>1. Inv => InOrder
  <2> SUFFICES ASSUME Inv, chan # <<>>, chan[1] # Disconnected
               PROVE  chan[1].n = received + 1
    BY DEF InOrder
  <2>1. Len(chan) \in Nat \ {0} BY TailFacts DEF Inv, Types
  <2> QED BY <2>1 DEF Inv, Consecutive
<1> QED BY InvHolds, <1>1, PTL

\* A disconnect is learnt of only after the last message.
THEOREM DisconnectComesLast == Spec => []DisconnectIsLast
<1>1. Inv => DisconnectIsLast
  <2> SUFFICES ASSUME Inv, noticed, mpc = "attached" PROVE received = read
    BY DEF DisconnectIsLast
  <2>1. rpc = "ended" /\ chan = <<>> BY DEF Inv, NoticedLate
  <2>2. Len(chan) = 0 BY <2>1
  <2> QED BY <2>1, <2>2 DEF Inv, Types, Underway
<1> QED BY InvHolds, <1>1, PTL

=============================================================================
