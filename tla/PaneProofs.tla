----------------------------- MODULE PaneProofs -----------------------------
(***************************************************************************)
(* Proofs about a pane: PanePty, for every size of the channel, of the     *)
(* drain and of the kernel's buffer; and PaneControl, for every set of     *)
(* bytes and numbers a program may write and every bound on a sequence;    *)
(* and its Terminal, for every size, every text and every parameter of a   *)
(* control function.                                                       *)
(***************************************************************************)
EXTENDS PanePty, PaneControl, Terminal, SeqOpsProofs

-----------------------------------------------------------------------------
(* The pane's threads: the inductive invariant.                            *)

\* The reader is told to stop only by Pane::drop, and before it is hung up on.
StopIsDrop == stop <=> mpc \in {"drop_kill", "hangup", "join", "gone"}

\* A reader that was not told to stop ends only at the end of the output.
EndedAtEof == rpc = "ended" /\ ~stop => ~slave /\ tty = 0

\* It discards a chunk only when told to stop.
LostByStop == lost => stop

\* The main loop knows of the end only after it has emptied the channel.
EofIsDrained == reader_eof /\ ~stop => rpc = "ended" /\ queued = 0

\* A pane the loop keeps is dead only after that.
DeadAfterEof == Kept /\ ~alive => reader_eof

Inv ==
    /\ TypeOK /\ StopIsDrop /\ EndedAtEof /\ LostByStop /\ EofIsDrained /\ DeadAfterEof

-----------------------------------------------------------------------------

\* The initial state satisfies the invariant.
LEMMA InitInv == Init => Inv
<1>1. Init => Flags BY Zenon DEF Init, Flags
<1>2. Init => Ranges BY PtyAssumption DEF Init, Ranges
<1>3. Init => StopIsDrop /\ EndedAtEof /\ LostByStop
  BY DEF Init, StopIsDrop, EndedAtEof, LostByStop
<1>4. Init => EofIsDrained /\ DeadAfterEof
  BY DEF Init, EofIsDrained, DeadAfterEof, Kept
<1> QED BY <1>1, <1>2, <1>3, <1>4 DEF Inv, TypeOK

\* The steps of the child and its jobs preserve the invariant.
LEMMA ChildInv ==
    ASSUME Inv,
           ChildWrites \/ ChildExits \/ SlaveCloses
    PROVE  Inv'
<1>1. CASE ChildWrites
  <2>1. Flags' BY <1>1, Zenon DEF Inv, TypeOK, Flags, ChildWrites, ends, call, pane
  <2>2. Ranges'
    BY <1>1, PtyAssumption DEF Inv, TypeOK, Ranges, ChildWrites, ends, call, pane
  <2>3. StopIsDrop' BY <1>1 DEF Inv, StopIsDrop, ChildWrites, ends, call, pane
  <2>4. EndedAtEof' /\ LostByStop'
    BY <1>1 DEF Inv, TypeOK, Flags, Ranges, StopIsDrop, EndedAtEof, LostByStop,
        ChildWrites, ends, call, pane
  <2>5. EofIsDrained' /\ DeadAfterEof'
    BY <1>1 DEF Inv, TypeOK, Flags, Ranges, StopIsDrop, EndedAtEof, EofIsDrained,
        DeadAfterEof, Kept, ChildWrites, ends, call, pane
  <2> QED BY <2>1, <2>2, <2>3, <2>4, <2>5 DEF Inv, TypeOK
<1>2. CASE ChildExits
  <2>1. Flags' BY <1>2, Zenon DEF Inv, TypeOK, Flags, ChildExits, ends, call, pane
  <2>2. Ranges'
    BY <1>2, PtyAssumption DEF Inv, TypeOK, Ranges, ChildExits, ends, call, pane
  <2>3. StopIsDrop' BY <1>2 DEF Inv, StopIsDrop, ChildExits, ends, call, pane
  <2>4. slave' => slave BY <1>2, Zenon DEF ChildExits, ends, call, pane
  <2>5. UNCHANGED <<rpc, stop, tty, lost>> BY <1>2 DEF ChildExits, ends, call, pane
  <2>6. EndedAtEof' /\ LostByStop'
    BY <2>4, <2>5 DEF Inv, EndedAtEof, LostByStop
  <2>7. EofIsDrained' /\ DeadAfterEof'
    BY <1>2 DEF Inv, TypeOK, Flags, Ranges, StopIsDrop, EndedAtEof, EofIsDrained,
        DeadAfterEof, Kept, ChildExits, ends, call, pane
  <2> QED BY <2>1, <2>2, <2>3, <2>6, <2>7 DEF Inv, TypeOK
<1>3. CASE SlaveCloses
  <2>1. Flags' BY <1>3, Zenon DEF Inv, TypeOK, Flags, SlaveCloses, ends, call, pane
  <2>2. Ranges'
    BY <1>3, PtyAssumption DEF Inv, TypeOK, Ranges, SlaveCloses, ends, call, pane
  <2>3. StopIsDrop' BY <1>3 DEF Inv, StopIsDrop, SlaveCloses, ends, call, pane
  <2>4. EndedAtEof' /\ LostByStop'
    BY <1>3 DEF Inv, TypeOK, Flags, Ranges, StopIsDrop, EndedAtEof, LostByStop,
        SlaveCloses, ends, call, pane
  <2>5. EofIsDrained' /\ DeadAfterEof'
    BY <1>3 DEF Inv, TypeOK, Flags, Ranges, StopIsDrop, EndedAtEof, EofIsDrained,
        DeadAfterEof, Kept, SlaveCloses, ends, call, pane
  <2> QED BY <2>1, <2>2, <2>3, <2>4, <2>5 DEF Inv, TypeOK
<1> QED BY <1>1, <1>2, <1>3

\* The steps of the reader thread preserve it.
LEMMA ReaderInv ==
    ASSUME Inv,
           ReaderChecksStop \/ ReaderPollTimeout \/ ReaderReads \/ ReaderEof
           \/ ReaderSends \/ ReaderGivesUp
    PROVE  Inv'
<1>1. CASE ReaderChecksStop
  <2>1. Flags' BY <1>1, Zenon DEF Inv, TypeOK, Flags, ReaderChecksStop, os, call, pane
  <2>2. Ranges'
    BY <1>1, PtyAssumption DEF Inv, TypeOK, Ranges, ReaderChecksStop, os, call, pane
  <2>3. StopIsDrop' BY <1>1 DEF Inv, StopIsDrop, ReaderChecksStop, os, call, pane
  <2>4. EndedAtEof' /\ LostByStop'
    BY <1>1 DEF Inv, TypeOK, Flags, Ranges, StopIsDrop, EndedAtEof, LostByStop,
        ReaderChecksStop, os, call, pane
  <2>5. EofIsDrained' /\ DeadAfterEof'
    BY <1>1 DEF Inv, TypeOK, Flags, Ranges, StopIsDrop, EndedAtEof, EofIsDrained,
        DeadAfterEof, Kept, ReaderChecksStop, os, call, pane
  <2> QED BY <2>1, <2>2, <2>3, <2>4, <2>5 DEF Inv, TypeOK
<1>2. CASE ReaderPollTimeout
  <2>1. Flags' BY <1>2, Zenon DEF Inv, TypeOK, Flags, ReaderPollTimeout, os, call, pane
  <2>2. Ranges'
    BY <1>2, PtyAssumption DEF Inv, TypeOK, Ranges, ReaderPollTimeout, os, call, pane
  <2>3. StopIsDrop' BY <1>2 DEF Inv, StopIsDrop, ReaderPollTimeout, os, call, pane
  <2>4. EndedAtEof' /\ LostByStop'
    BY <1>2 DEF Inv, TypeOK, Flags, Ranges, StopIsDrop, EndedAtEof, LostByStop,
        ReaderPollTimeout, os, call, pane
  <2>5. EofIsDrained' /\ DeadAfterEof'
    BY <1>2 DEF Inv, TypeOK, Flags, Ranges, StopIsDrop, EndedAtEof, EofIsDrained,
        DeadAfterEof, Kept, ReaderPollTimeout, os, call, pane
  <2> QED BY <2>1, <2>2, <2>3, <2>4, <2>5 DEF Inv, TypeOK
<1>3. CASE ReaderReads
  <2>1. Flags' BY <1>3, Zenon DEF Inv, TypeOK, Flags, ReaderReads, call, pane
  <2>2. Ranges'
    BY <1>3, PtyAssumption DEF Inv, TypeOK, Ranges, ReaderReads, call, pane
  <2>3. StopIsDrop' BY <1>3 DEF Inv, StopIsDrop, ReaderReads, call, pane
  <2>4. EndedAtEof' /\ LostByStop'
    BY <1>3 DEF Inv, TypeOK, Flags, Ranges, StopIsDrop, EndedAtEof, LostByStop,
        ReaderReads, call, pane
  <2>5. EofIsDrained' /\ DeadAfterEof'
    BY <1>3 DEF Inv, TypeOK, Flags, Ranges, StopIsDrop, EndedAtEof, EofIsDrained,
        DeadAfterEof, Kept, ReaderReads, call, pane
  <2> QED BY <2>1, <2>2, <2>3, <2>4, <2>5 DEF Inv, TypeOK
<1>4. CASE ReaderEof
  <2>1. Flags' BY <1>4, Zenon DEF Inv, TypeOK, Flags, ReaderEof, os, call, pane
  <2>2. Ranges'
    BY <1>4, PtyAssumption DEF Inv, TypeOK, Ranges, ReaderEof, os, call, pane
  <2>3. StopIsDrop' BY <1>4 DEF Inv, StopIsDrop, ReaderEof, os, call, pane
  <2>4. EndedAtEof' /\ LostByStop'
    BY <1>4 DEF Inv, TypeOK, Flags, Ranges, StopIsDrop, EndedAtEof, LostByStop,
        ReaderEof, os, call, pane
  <2>5. EofIsDrained' /\ DeadAfterEof'
    BY <1>4 DEF Inv, TypeOK, Flags, Ranges, StopIsDrop, EndedAtEof, EofIsDrained,
        DeadAfterEof, Kept, ReaderEof, os, call, pane
  <2> QED BY <2>1, <2>2, <2>3, <2>4, <2>5 DEF Inv, TypeOK
<1>5. CASE ReaderSends
  <2>1. Flags' BY <1>5, Zenon DEF Inv, TypeOK, Flags, ReaderSends, Hungup, os, call, pane
  <2>2. Ranges'
    BY <1>5, PtyAssumption DEF Inv, TypeOK, Ranges, ReaderSends, Hungup, os, call, pane
  <2>3. StopIsDrop' BY <1>5 DEF Inv, StopIsDrop, ReaderSends, Hungup, os, call, pane
  <2>4. EndedAtEof' /\ LostByStop'
    BY <1>5 DEF Inv, TypeOK, Flags, Ranges, StopIsDrop, EndedAtEof, LostByStop,
        ReaderSends, Hungup, os, call, pane
  <2>5. EofIsDrained' /\ DeadAfterEof'
    BY <1>5 DEF Inv, TypeOK, Flags, Ranges, StopIsDrop, EndedAtEof, EofIsDrained,
        DeadAfterEof, Kept, ReaderSends, Hungup, os, call, pane
  <2> QED BY <2>1, <2>2, <2>3, <2>4, <2>5 DEF Inv, TypeOK
<1>6. CASE ReaderGivesUp
  <2>1. Flags' BY <1>6, Zenon DEF Inv, TypeOK, Flags, ReaderGivesUp, Hungup, os, call, pane
  <2>2. Ranges'
    BY <1>6, PtyAssumption DEF Inv, TypeOK, Ranges, ReaderGivesUp, Hungup, os, call, pane
  <2>3. StopIsDrop' BY <1>6 DEF Inv, StopIsDrop, ReaderGivesUp, Hungup, os, call, pane
  <2>4. EndedAtEof' /\ LostByStop'
    BY <1>6 DEF Inv, TypeOK, Flags, Ranges, StopIsDrop, EndedAtEof, LostByStop,
        ReaderGivesUp, Hungup, os, call, pane
  <2>5. EofIsDrained' /\ DeadAfterEof'
    BY <1>6 DEF Inv, TypeOK, Flags, Ranges, StopIsDrop, EndedAtEof, EofIsDrained,
        DeadAfterEof, Kept, ReaderGivesUp, Hungup, os, call, pane
  <2> QED BY <2>1, <2>2, <2>3, <2>4, <2>5 DEF Inv, TypeOK
<1> QED BY <1>1, <1>2, <1>3, <1>4, <1>5, <1>6

\* A read_output and what the server does after it preserve it.
LEMMA MainLoopInv ==
    ASSUME Inv,
           ReadOutput \/ DrainChunk \/ DrainEnd \/ Reap \/ AfterRead
    PROVE  Inv'
<1>1. CASE ReadOutput
  <2>1. Flags' BY <1>1, Zenon DEF Inv, TypeOK, Flags, ReadOutput, os, ends, pane
  <2>2. Ranges'
    BY <1>1, PtyAssumption DEF Inv, TypeOK, Ranges, ReadOutput, os, ends, pane
  <2>3. StopIsDrop' BY <1>1 DEF Inv, StopIsDrop, ReadOutput, os, ends, pane
  <2>4. EndedAtEof' /\ LostByStop'
    BY <1>1 DEF Inv, TypeOK, Flags, Ranges, StopIsDrop, EndedAtEof, LostByStop,
        ReadOutput, os, ends, pane
  <2>5. EofIsDrained' /\ DeadAfterEof'
    BY <1>1 DEF Inv, TypeOK, Flags, Ranges, StopIsDrop, EndedAtEof, EofIsDrained,
        DeadAfterEof, Kept, ReadOutput, os, ends, pane
  <2> QED BY <2>1, <2>2, <2>3, <2>4, <2>5 DEF Inv, TypeOK
<1>2. CASE DrainChunk
  <2>1. Flags' BY <1>2, Zenon DEF Inv, TypeOK, Flags, DrainChunk, os, ends
  <2>2. Ranges'
    BY <1>2, PtyAssumption DEF Inv, TypeOK, Ranges, DrainChunk, os, ends
  <2>3. StopIsDrop' BY <1>2 DEF Inv, StopIsDrop, DrainChunk, os, ends
  <2>4. EndedAtEof' /\ LostByStop'
    BY <1>2 DEF Inv, TypeOK, Flags, Ranges, StopIsDrop, EndedAtEof, LostByStop,
        DrainChunk, os, ends
  <2>5. EofIsDrained' /\ DeadAfterEof'
    BY <1>2 DEF Inv, TypeOK, Flags, Ranges, StopIsDrop, EndedAtEof, EofIsDrained,
        DeadAfterEof, Kept, DrainChunk, os, ends
  <2> QED BY <2>1, <2>2, <2>3, <2>4, <2>5 DEF Inv, TypeOK
<1>3. CASE DrainEnd
  <2>1. Flags' BY <1>3, Zenon DEF Inv, TypeOK, Flags, DrainEnd, os, ends, call
  <2>2. Ranges'
    BY <1>3, PtyAssumption DEF Inv, TypeOK, Ranges, DrainEnd, os, ends, call
  <2>3. StopIsDrop' BY <1>3 DEF Inv, StopIsDrop, DrainEnd, os, ends, call
  <2>4. EndedAtEof' /\ LostByStop'
    BY <1>3 DEF Inv, TypeOK, Flags, Ranges, StopIsDrop, EndedAtEof, LostByStop,
        DrainEnd, os, ends, call
  <2>5. EofIsDrained' /\ DeadAfterEof'
    BY <1>3, PtyAssumption DEF Inv, TypeOK, Flags, Ranges, StopIsDrop, EndedAtEof, EofIsDrained,
        DeadAfterEof, Kept, DrainEnd, os, ends, call
  <2> QED BY <2>1, <2>2, <2>3, <2>4, <2>5 DEF Inv, TypeOK
<1>4. CASE Reap
  <2>1. Flags' BY <1>4, Zenon DEF Inv, TypeOK, Flags, Reap, os, ends, call
  <2>2. Ranges'
    BY <1>4, PtyAssumption DEF Inv, TypeOK, Ranges, Reap, os, ends, call
  <2>3. StopIsDrop' BY <1>4 DEF Inv, StopIsDrop, Reap, os, ends, call
  <2>4. EndedAtEof' /\ LostByStop'
    BY <1>4 DEF Inv, TypeOK, Flags, Ranges, StopIsDrop, EndedAtEof, LostByStop,
        Reap, os, ends, call
  <2>5. EofIsDrained' /\ DeadAfterEof'
    BY <1>4 DEF Inv, TypeOK, Flags, Ranges, StopIsDrop, EndedAtEof, EofIsDrained,
        DeadAfterEof, Kept, Reap, os, ends, call
  <2> QED BY <2>1, <2>2, <2>3, <2>4, <2>5 DEF Inv, TypeOK
<1>5. CASE AfterRead
  <2>1. Flags' BY <1>5, Zenon DEF Inv, TypeOK, Flags, AfterRead, os, ends, call
  <2>2. Ranges'
    BY <1>5, PtyAssumption DEF Inv, TypeOK, Ranges, AfterRead, os, ends, call
  <2>3. StopIsDrop' BY <1>5 DEF Inv, StopIsDrop, AfterRead, os, ends, call
  <2>4. EndedAtEof' /\ LostByStop'
    BY <1>5 DEF Inv, TypeOK, Flags, Ranges, StopIsDrop, EndedAtEof, LostByStop,
        AfterRead, os, ends, call
  <2>5. EofIsDrained' /\ DeadAfterEof'
    BY <1>5 DEF Inv, TypeOK, Flags, Ranges, StopIsDrop, EndedAtEof, EofIsDrained,
        DeadAfterEof, Kept, AfterRead, os, ends, call
  <2> QED BY <2>1, <2>2, <2>3, <2>4, <2>5 DEF Inv, TypeOK
<1> QED BY <1>1, <1>2, <1>3, <1>4, <1>5

\* The watchdog's clock, tab switches, and the kill and drop of the pane preserve it.
LEMMA EndInv ==
    ASSUME Inv,
           SyncAges \/ SwitchTab \/ KillPane \/ DropStops
           \/ DropKills \/ DropHangsUp \/ DropJoins
    PROVE  Inv'
<1>1. CASE SyncAges
  <2>1. Flags' BY <1>1, Zenon DEF Inv, TypeOK, Flags, SyncAges, os, ends, call
  <2>2. Ranges'
    BY <1>1, PtyAssumption DEF Inv, TypeOK, Ranges, SyncAges, os, ends, call
  <2>3. StopIsDrop' BY <1>1 DEF Inv, StopIsDrop, SyncAges, os, ends, call
  <2>4. EndedAtEof' /\ LostByStop'
    BY <1>1 DEF Inv, TypeOK, Flags, Ranges, StopIsDrop, EndedAtEof, LostByStop,
        SyncAges, os, ends, call
  <2>5. EofIsDrained' /\ DeadAfterEof'
    BY <1>1 DEF Inv, TypeOK, Flags, Ranges, StopIsDrop, EndedAtEof, EofIsDrained,
        DeadAfterEof, Kept, SyncAges, os, ends, call
  <2> QED BY <2>1, <2>2, <2>3, <2>4, <2>5 DEF Inv, TypeOK
<1>2. CASE SwitchTab
  <2>1. Flags' BY <1>2, Zenon DEF Inv, TypeOK, Flags, SwitchTab, os, ends, call, pane
  <2>2. Ranges'
    BY <1>2, PtyAssumption DEF Inv, TypeOK, Ranges, SwitchTab, os, ends, call, pane
  <2>3. StopIsDrop' BY <1>2 DEF Inv, StopIsDrop, SwitchTab, os, ends, call, pane
  <2>4. EndedAtEof' /\ LostByStop'
    BY <1>2 DEF Inv, TypeOK, Flags, Ranges, StopIsDrop, EndedAtEof, LostByStop,
        SwitchTab, os, ends, call, pane
  <2>5. EofIsDrained' /\ DeadAfterEof'
    BY <1>2 DEF Inv, TypeOK, Flags, Ranges, StopIsDrop, EndedAtEof, EofIsDrained,
        DeadAfterEof, Kept, SwitchTab, os, ends, call, pane
  <2> QED BY <2>1, <2>2, <2>3, <2>4, <2>5 DEF Inv, TypeOK
<1>3. CASE KillPane
  <2>1. Flags' BY <1>3, Zenon DEF Inv, TypeOK, Flags, KillPane, KillEffect, ends, call
  <2>2. Ranges'
    BY <1>3, PtyAssumption DEF Inv, TypeOK, Ranges, KillPane, KillEffect, ends, call
  <2>3. StopIsDrop' BY <1>3 DEF Inv, StopIsDrop, KillPane, KillEffect, ends, call
  <2>4. slave' => slave BY <1>3, Zenon DEF KillPane, KillEffect, ends, call
  <2>5. UNCHANGED <<rpc, stop, tty, lost>> BY <1>3 DEF KillPane, KillEffect, ends, call
  <2>6. EndedAtEof' /\ LostByStop'
    BY <2>4, <2>5 DEF Inv, EndedAtEof, LostByStop
  <2>7. EofIsDrained' /\ DeadAfterEof'
    BY <1>3 DEF Inv, TypeOK, Flags, Ranges, StopIsDrop, EndedAtEof, EofIsDrained,
        DeadAfterEof, Kept, KillPane, KillEffect, ends, call
  <2> QED BY <2>1, <2>2, <2>3, <2>6, <2>7 DEF Inv, TypeOK
<1>4. CASE DropStops
  <2>1. Flags' BY <1>4, Zenon DEF Inv, TypeOK, Flags, DropStops, os, call, pane
  <2>2. Ranges'
    BY <1>4, PtyAssumption DEF Inv, TypeOK, Ranges, DropStops, os, call, pane
  <2>3. StopIsDrop' BY <1>4 DEF Inv, StopIsDrop, DropStops, os, call, pane
  <2>4. EndedAtEof' /\ LostByStop'
    BY <1>4 DEF Inv, TypeOK, Flags, Ranges, StopIsDrop, EndedAtEof, LostByStop,
        DropStops, os, call, pane
  <2>5. EofIsDrained' /\ DeadAfterEof'
    BY <1>4 DEF Inv, TypeOK, Flags, Ranges, StopIsDrop, EndedAtEof, EofIsDrained,
        DeadAfterEof, Kept, DropStops, os, call, pane
  <2> QED BY <2>1, <2>2, <2>3, <2>4, <2>5 DEF Inv, TypeOK
<1>5. CASE DropKills
  <2>1. Flags' BY <1>5, Zenon DEF Inv, TypeOK, Flags, DropKills, KillEffect, ends, call
  <2>2. Ranges'
    BY <1>5, PtyAssumption DEF Inv, TypeOK, Ranges, DropKills, KillEffect, ends, call
  <2>3. StopIsDrop' BY <1>5 DEF Inv, StopIsDrop, DropKills, KillEffect, ends, call
  <2>4. EndedAtEof' /\ LostByStop'
    BY <1>5 DEF Inv, TypeOK, Flags, Ranges, StopIsDrop, EndedAtEof, LostByStop,
        DropKills, KillEffect, ends, call
  <2>5. EofIsDrained' /\ DeadAfterEof'
    BY <1>5 DEF Inv, TypeOK, Flags, Ranges, StopIsDrop, EndedAtEof, EofIsDrained,
        DeadAfterEof, Kept, DropKills, KillEffect, ends, call
  <2> QED BY <2>1, <2>2, <2>3, <2>4, <2>5 DEF Inv, TypeOK
<1>6. CASE DropHangsUp
  <2>1. Flags' BY <1>6, Zenon DEF Inv, TypeOK, Flags, DropHangsUp, os, ends, call, pane
  <2>2. Ranges'
    BY <1>6, PtyAssumption DEF Inv, TypeOK, Ranges, DropHangsUp, os, ends, call, pane
  <2>3. StopIsDrop' BY <1>6 DEF Inv, StopIsDrop, DropHangsUp, os, ends, call, pane
  <2>4. EndedAtEof' /\ LostByStop'
    BY <1>6 DEF Inv, TypeOK, Flags, Ranges, StopIsDrop, EndedAtEof, LostByStop,
        DropHangsUp, os, ends, call, pane
  <2>5. EofIsDrained' /\ DeadAfterEof'
    BY <1>6 DEF Inv, TypeOK, Flags, Ranges, StopIsDrop, EndedAtEof, EofIsDrained,
        DeadAfterEof, Kept, DropHangsUp, os, ends, call, pane
  <2> QED BY <2>1, <2>2, <2>3, <2>4, <2>5 DEF Inv, TypeOK
<1>7. CASE DropJoins
  <2>1. Flags' BY <1>7, Zenon DEF Inv, TypeOK, Flags, DropJoins, os, ends, call, pane
  <2>2. Ranges'
    BY <1>7, PtyAssumption DEF Inv, TypeOK, Ranges, DropJoins, os, ends, call, pane
  <2>3. StopIsDrop' BY <1>7 DEF Inv, StopIsDrop, DropJoins, os, ends, call, pane
  <2>4. EndedAtEof' /\ LostByStop'
    BY <1>7 DEF Inv, TypeOK, Flags, Ranges, StopIsDrop, EndedAtEof, LostByStop,
        DropJoins, os, ends, call, pane
  <2>5. EofIsDrained' /\ DeadAfterEof'
    BY <1>7 DEF Inv, TypeOK, Flags, Ranges, StopIsDrop, EndedAtEof, EofIsDrained,
        DeadAfterEof, Kept, DropJoins, os, ends, call, pane
  <2> QED BY <2>1, <2>2, <2>3, <2>4, <2>5 DEF Inv, TypeOK
<1> QED BY <1>1, <1>2, <1>3, <1>4, <1>5, <1>6, <1>7

\* Steps that change nothing preserve it.
LEMMA StutterInv == Inv /\ UNCHANGED vars => Inv'
<1> SUFFICES ASSUME Inv, UNCHANGED vars PROVE Inv' OBVIOUS
<1>1. Flags' BY Zenon DEF Inv, TypeOK, Flags, vars
<1>2. Ranges' BY DEF Inv, TypeOK, Ranges, vars
<1>3. StopIsDrop' /\ EndedAtEof' /\ LostByStop'
  BY DEF Inv, StopIsDrop, EndedAtEof, LostByStop, vars
<1>4. EofIsDrained' /\ DeadAfterEof' BY DEF Inv, EofIsDrained, DeadAfterEof, Kept, vars
<1> QED BY <1>1, <1>2, <1>3, <1>4 DEF Inv, TypeOK

\* Every step preserves it.
LEMMA NextInv == Inv /\ [Next]_vars => Inv'
BY ChildInv, ReaderInv, MainLoopInv, EndInv, StutterInv, Zenon
   DEF Next, Reader, MainLoop, Drop, Gone

-----------------------------------------------------------------------------
(* The theorems.                                                           *)

\* The invariant holds of the reader thread, the server loop and the drop of
\* a pane in every interleaving.
THEOREM InvHolds == Spec => []Inv
BY InitInv, NextInv, PTL DEF Spec

\* The channel and the drain keep their limits, and every flag its type.
THEOREM TypeCorrect == Spec => []TypeOK
<1>1. Inv => TypeOK BY DEF Inv
<1> QED BY InvHolds, <1>1, PTL

\* No pane is declared dead before everything its processes wrote has reached
\* its screen, whatever the reader, the child and its jobs do meanwhile.
THEOREM ExitComesAfterOutput == Spec => []ExitAfterOutput
<1>1. Inv => ExitAfterOutput
  <2> SUFFICES ASSUME Inv, Kept, ~alive
               PROVE  ~slave /\ tty = 0 /\ rpc = "ended" /\ queued = 0 /\ ~lost
    BY DEF ExitAfterOutput
  <2>1. reader_eof BY DEF Inv, DeadAfterEof
  <2>2. ~stop BY DEF Inv, StopIsDrop, Kept
  <2>3. rpc = "ended" /\ queued = 0 BY <2>1, <2>2 DEF Inv, EofIsDrained
  <2> QED BY <2>2, <2>3 DEF Inv, EndedAtEof, LostByStop
<1> QED BY InvHolds, <1>1, PTL


-----------------------------------------------------------------------------
(* The folds over the bytes of an output and over the numbers of a body.   *)

\* What vt100 is after each byte of an output.
VteTrace(f, v, out) ==
    f = [n \in 0 .. Len(out) |-> IF n = 0 THEN v ELSE VteByte(f[n - 1], out[n])]
VteUpto(f, v, out, k) == f[0] = v /\ \A n \in 1 .. k : f[n] = VteByte(f[n - 1], out[n])
HasVteTrace(v, out, k) == \E f : VteUpto(f, v, out, k)

\* Some sequence of parser states follows the bytes of every output.
LEMMA VteTraceExists ==
    ASSUME NEW out \in Seq(Nat), NEW v
    PROVE  \E f : VteTrace(f, v, out)
<1> DEFINE T == {k \in Nat : HasVteTrace(v, out, k)}
<1>1. Len(out) \in Nat
  OBVIOUS
<1>2. HasVteTrace(v, out, 0)
  <2> DEFINE z == [n \in 0 .. 0 |-> v]
  <2>1. VteUpto(z, v, out, 0)
    BY DEF VteUpto
  <2> HIDE DEF z
  <2>2. QED
    BY <2>1, Zenon DEF HasVteTrace
<1>3. ASSUME NEW k \in Nat, HasVteTrace(v, out, k)
      PROVE  HasVteTrace(v, out, k + 1)
  <2>1. PICK f : VteUpto(f, v, out, k)
    BY <1>3 DEF HasVteTrace
  <2> DEFINE x == VteByte(f[k], out[k + 1])
             g == [n \in 0 .. k + 1 |-> IF n <= k THEN f[n] ELSE x]
  <2> HIDE DEF x
  <2>2. g[0] = v
    BY <2>1 DEF VteUpto
  <2>3. ASSUME NEW n \in 1 .. k + 1
        PROVE  g[n] = VteByte(g[n - 1], out[n])
    <3>1. CASE n <= k
      <4>1. g[n] = f[n] /\ g[n - 1] = f[n - 1] /\ n \in 1 .. k
        BY <3>1
      <4> HIDE DEF g
      <4>2. QED
        BY <2>1, <4>1 DEF VteUpto
    <3>2. CASE n = k + 1
      <4>1. g[n] = x /\ g[n - 1] = f[k]
        BY <3>2
      <4> HIDE DEF g
      <4>2. QED
        BY <3>2, <4>1 DEF x
    <3>3. QED
      BY <3>1, <3>2
  <2> HIDE DEF g
  <2>4. VteUpto(g, v, out, k + 1)
    BY <2>2, <2>3 DEF VteUpto
  <2>5. QED
    BY <2>4, Zenon DEF HasVteTrace
<1>4. \A n \in Nat : n \in T
  <2>1. 0 \in T
    BY <1>2
  <2>2. ASSUME NEW k \in T
        PROVE  k + 1 \in T
    BY <1>3
  <2> HIDE DEF T
  <2>3. T \in SUBSET Nat
    BY DEF T
  <2>4. QED
    BY <2>1, <2>2, <2>3, Induction
<1>5. PICK f : VteUpto(f, v, out, Len(out))
  BY <1>1, <1>4 DEF HasVteTrace
<1> DEFINE h == [n \in 0 .. Len(out) |-> f[n]]
<1>6. ASSUME NEW n \in 0 .. Len(out)
      PROVE  h[n] = IF n = 0 THEN v ELSE VteByte(h[n - 1], out[n])
  <2>1. CASE n = 0
    BY <1>1, <1>5, <2>1 DEF VteUpto
  <2>2. CASE n # 0
    <3>1. n \in 1 .. Len(out) /\ h[n] = f[n] /\ h[n - 1] = f[n - 1]
      BY <1>1, <2>2
    <3> HIDE DEF h
    <3>2. QED
      BY <1>5, <2>2, <3>1 DEF VteUpto
  <2>3. QED
    BY <2>1, <2>2
<1>7. VteTrace(h, v, out)
  <2>1. h = [n \in 0 .. Len(out) |-> h[n]]
    OBVIOUS
  <2> HIDE DEF h
  <2>2. QED
    BY <1>6, <2>1 DEF VteTrace
<1>8. QED
  BY <1>7

Runs(f, v, out) ==
    f[0] = v /\ \A k \in 0 .. Len(out) - 1 : f[k + 1] = VteByte(f[k], out[k + 1])

\* VteBytes is the last state of its trace.
LEMMA VteBytesIs ==
    ASSUME NEW out \in Seq(Nat), NEW v
    PROVE  \E f : VteBytes(v, out) = f[Len(out)] /\ Runs(f, v, out)
<1> DEFINE F == CHOOSE f : VteTrace(f, v, out)
<1>1. VteTrace(F, v, out)
  BY VteTraceExists
<1>2. VteBytes(v, out) = F[Len(out)]
  BY DEF VteBytes, VteTrace
<1> HIDE DEF F
<1>3. Len(out) \in Nat
  OBVIOUS
<1>4. F[0] = v
  BY <1>1, <1>3 DEF VteTrace
<1>5. ASSUME NEW k \in 0 .. Len(out) - 1
      PROVE  F[k + 1] = VteByte(F[k], out[k + 1])
  <2>1. k + 1 \in 0 .. Len(out) /\ k + 1 # 0 /\ (k + 1) - 1 = k
    BY <1>3
  <2>2. QED
    BY <1>1, <2>1 DEF VteTrace
<1>6. QED
  BY <1>2, <1>4, <1>5 DEF Runs

\* Such a trace determines it.
LEMMA VteBytesEnd ==
    ASSUME NEW out \in Seq(Nat), NEW v, NEW f, Runs(f, v, out)
    PROVE  VteBytes(v, out) = f[Len(out)]
<1>1. PICK g : VteBytes(v, out) = g[Len(out)] /\ Runs(g, v, out)
  BY VteBytesIs, Zenon
<1>2. Len(out) \in Nat
  OBVIOUS
<1> DEFINE T == {k \in Nat : k <= Len(out) => f[k] = g[k]}
<1>3. 0 \in T
  BY <1>1 DEF Runs
<1>4. ASSUME NEW k \in T
      PROVE  k + 1 \in T
  <2>1. SUFFICES ASSUME k + 1 <= Len(out)
                 PROVE  f[k + 1] = g[k + 1]
    OBVIOUS
  <2>2. k \in 0 .. Len(out) - 1 /\ f[k] = g[k]
    BY <1>2, <2>1
  <2> HIDE DEF T
  <2>3. QED
    BY <1>1, <2>2 DEF Runs
<1>5. \A n \in Nat : n \in T
  <2> HIDE DEF T
  <2>1. T \in SUBSET Nat
    BY DEF T
  <2>2. QED
    BY <1>3, <1>4, <2>1, Induction
<1>6. QED
  BY <1>1, <1>2, <1>5

\* No bytes change nothing.
LEMMA VteBytesNone == \A v : VteBytes(v, <<>>) = v
<1>1. TAKE v
<1>2. <<>> \in Seq(Nat) /\ Len(<<>>) = 0
  OBVIOUS
<1>3. PICK f : VteBytes(v, <<>>) = f[Len(<<>>)] /\ Runs(f, v, <<>>)
  BY <1>2, VteBytesIs, Zenon
<1>4. QED
  BY <1>2, <1>3 DEF Runs

\* Bytes passed on in two parts have the effect of the two parts in turn.
LEMMA VteBytesConcat ==
    ASSUME NEW s \in Seq(Nat), NEW t \in Seq(Nat), NEW v
    PROVE  VteBytes(v, s \o t) = VteBytes(VteBytes(v, s), t)
<1> DEFINE w == s \o t
<1>1. /\ Len(s) \in Nat /\ Len(t) \in Nat /\ w \in Seq(Nat) /\ Len(w) = Len(s) + Len(t)
      /\ \A i \in 1 .. Len(s) : w[i] = s[i]
      /\ \A i \in 1 .. Len(t) : w[Len(s) + i] = t[i]
  OBVIOUS
<1> HIDE DEF w
<1>2. PICK f : VteBytes(v, w) = f[Len(w)] /\ Runs(f, v, w)
  BY <1>1, VteBytesIs, Zenon
<1>3. VteBytes(v, s) = f[Len(s)]
  <2>1. ASSUME NEW k \in 0 .. Len(s) - 1
        PROVE  f[k + 1] = VteByte(f[k], s[k + 1])
    <3>1. k \in 0 .. Len(w) - 1 /\ k + 1 \in 1 .. Len(s)
      BY <1>1
    <3>2. QED
      BY <1>1, <1>2, <3>1 DEF Runs
  <2>2. Runs(f, v, s)
    BY <1>2, <2>1 DEF Runs
  <2>3. QED
    BY <2>2, VteBytesEnd
<1> DEFINE g == [k \in 0 .. Len(t) |-> f[Len(s) + k]]
<1>4. g[0] = VteBytes(v, s) /\ g[Len(t)] = f[Len(w)]
  BY <1>1, <1>3
<1>5. ASSUME NEW k \in 0 .. Len(t) - 1
      PROVE  g[k + 1] = VteByte(g[k], t[k + 1])
  <2>1. Len(s) + k \in 0 .. Len(w) - 1 /\ k + 1 \in 1 .. Len(t) /\ k \in 0 .. Len(t)
        /\ k + 1 \in 0 .. Len(t) /\ (Len(s) + k) + 1 = Len(s) + (k + 1)
    BY <1>1
  <2>2. g[k + 1] = f[Len(s) + (k + 1)] /\ g[k] = f[Len(s) + k]
    BY <2>1
  <2> HIDE DEF g
  <2>3. w[(Len(s) + k) + 1] = t[k + 1]
    <3>1. w[Len(s) + (k + 1)] = t[k + 1]
      BY <1>1, <2>1
    <3>2. QED
      BY <2>1, <3>1
  <2>4. QED
    BY <1>2, <2>1, <2>2, <2>3 DEF Runs
<1> HIDE DEF g
<1>6. VteBytes(g[0], t) = g[Len(t)]
  <2>1. Runs(g, g[0], t)
    BY <1>5 DEF Runs
  <2>2. QED
    BY <2>1, VteBytesEnd
<1>7. QED
  BY <1>2, <1>4, <1>6 DEF w

\* One byte is one step of the parser.
LEMMA VteBytesOne == \A v, b : b \in Nat => VteBytes(v, <<b>>) = VteByte(v, b)
<1>1. SUFFICES ASSUME NEW v, NEW b \in Nat
               PROVE  VteBytes(v, <<b>>) = VteByte(v, b)
  OBVIOUS
<1>2. <<b>> \in Seq(Nat) /\ Len(<<b>>) = 1 /\ <<b>>[1] = b
  OBVIOUS
<1>3. PICK f : VteBytes(v, <<b>>) = f[Len(<<b>>)] /\ Runs(f, v, <<b>>)
  BY <1>2, VteBytesIs, Zenon
<1>4. f[0 + 1] = VteByte(f[0], <<b>>[0 + 1])
  BY <1>2, <1>3 DEF Runs
<1>5. QED
  BY <1>2, <1>3, <1>4 DEF Runs


\* The screen modes after each byte of a body.
ModeStep(v, body, n, on) == IF IsScreenMode(body, n) THEN SetMode(v, body[n] - 256, on) ELSE v
ModesTrace(f, v, body, on) ==
    f = [n \in 0 .. Len(body) |-> IF n = 0 THEN v ELSE ModeStep(f[n - 1], body, n, on)]
ModesUpto(f, v, body, on, k) == f[0] = v /\ \A n \in 1 .. k : f[n] = ModeStep(f[n - 1], body, n, on)
HasModesTrace(v, body, on, k) == \E f : ModesUpto(f, v, body, on, k)

\* Some sequence of parser states follows the numbers of every body.
LEMMA ModesTraceExists ==
    ASSUME NEW body \in Seq(Nat), NEW v, NEW on
    PROVE  \E f : ModesTrace(f, v, body, on)
<1> DEFINE T == {k \in Nat : HasModesTrace(v, body, on, k)}
<1>1. Len(body) \in Nat
  OBVIOUS
<1>2. HasModesTrace(v, body, on, 0)
  <2> DEFINE z == [n \in 0 .. 0 |-> v]
  <2>1. ModesUpto(z, v, body, on, 0)
    BY DEF ModesUpto
  <2> HIDE DEF z
  <2>2. QED
    BY <2>1, Zenon DEF HasModesTrace
<1>3. ASSUME NEW k \in Nat, HasModesTrace(v, body, on, k)
      PROVE  HasModesTrace(v, body, on, k + 1)
  <2>1. PICK f : ModesUpto(f, v, body, on, k)
    BY <1>3 DEF HasModesTrace
  <2> DEFINE x == ModeStep(f[k], body, k + 1, on)
             g == [n \in 0 .. k + 1 |-> IF n <= k THEN f[n] ELSE x]
  <2> HIDE DEF x
  <2>2. g[0] = v
    BY <2>1 DEF ModesUpto
  <2>3. ASSUME NEW n \in 1 .. k + 1
        PROVE  g[n] = ModeStep(g[n - 1], body, n, on)
    <3>1. CASE n <= k
      <4>1. g[n] = f[n] /\ g[n - 1] = f[n - 1] /\ n \in 1 .. k
        BY <3>1
      <4> HIDE DEF g
      <4>2. QED
        BY <2>1, <4>1 DEF ModesUpto
    <3>2. CASE n = k + 1
      <4>1. g[n] = x /\ g[n - 1] = f[k]
        BY <3>2
      <4> HIDE DEF g
      <4>2. QED
        BY <3>2, <4>1 DEF x
    <3>3. QED
      BY <3>1, <3>2
  <2> HIDE DEF g
  <2>4. ModesUpto(g, v, body, on, k + 1)
    BY <2>2, <2>3 DEF ModesUpto
  <2>5. QED
    BY <2>4, Zenon DEF HasModesTrace
<1>4. \A n \in Nat : n \in T
  <2>1. 0 \in T
    BY <1>2
  <2>2. ASSUME NEW k \in T
        PROVE  k + 1 \in T
    BY <1>3
  <2> HIDE DEF T
  <2>3. T \in SUBSET Nat
    BY DEF T
  <2>4. QED
    BY <2>1, <2>2, <2>3, Induction
<1>5. PICK f : ModesUpto(f, v, body, on, Len(body))
  BY <1>1, <1>4 DEF HasModesTrace
<1> DEFINE h == [n \in 0 .. Len(body) |-> f[n]]
<1>6. ASSUME NEW n \in 0 .. Len(body)
      PROVE  h[n] = IF n = 0 THEN v ELSE ModeStep(h[n - 1], body, n, on)
  <2>1. CASE n = 0
    BY <1>1, <1>5, <2>1 DEF ModesUpto
  <2>2. CASE n # 0
    <3>1. n \in 1 .. Len(body) /\ h[n] = f[n] /\ h[n - 1] = f[n - 1]
      BY <1>1, <2>2
    <3> HIDE DEF h
    <3>2. QED
      BY <1>5, <2>2, <3>1 DEF ModesUpto
  <2>3. QED
    BY <2>1, <2>2
<1>7. ModesTrace(h, v, body, on)
  <2>1. h = [n \in 0 .. Len(body) |-> h[n]]
    OBVIOUS
  <2> HIDE DEF h
  <2>2. QED
    BY <1>6, <2>1 DEF ModesTrace
<1>8. QED
  BY <1>7

ModesRun(f, v, body, on) ==
    f[0] = v /\ \A k \in 0 .. Len(body) - 1 : f[k + 1] = ModeStep(f[k], body, k + 1, on)

\* ScreenModes is the last state of its trace.
LEMMA ScreenModesIs ==
    ASSUME NEW body \in Seq(Nat), NEW v, NEW on
    PROVE  \E f : ScreenModes(v, body, on) = f[Len(body)] /\ ModesRun(f, v, body, on)
<1> DEFINE F == CHOOSE f : ModesTrace(f, v, body, on)
<1>1. ModesTrace(F, v, body, on)
  BY ModesTraceExists
<1>2. ScreenModes(v, body, on) = F[Len(body)]
  BY DEF ScreenModes, ModesTrace, ModeStep
<1> HIDE DEF F
<1>3. Len(body) \in Nat
  OBVIOUS
<1>4. F[0] = v
  BY <1>1, <1>3 DEF ModesTrace
<1>5. ASSUME NEW k \in 0 .. Len(body) - 1
      PROVE  F[k + 1] = ModeStep(F[k], body, k + 1, on)
  <2>1. k + 1 \in 0 .. Len(body) /\ k + 1 # 0 /\ (k + 1) - 1 = k
    BY <1>3
  <2>2. QED
    BY <1>1, <2>1 DEF ModesTrace
<1>6. QED
  BY <1>2, <1>4, <1>5 DEF ModesRun

\* The modes and the output after each number of a body.
DecTrace(f, acc, numbers, final) ==
    f = [n \in 0 .. Len(numbers) |-> IF n = 0 THEN acc ELSE DecMode(f[n - 1], numbers[n], final)]
DecUpto(f, acc, numbers, final, k) == f[0] = acc /\ \A n \in 1 .. k : f[n] = DecMode(f[n - 1], numbers[n], final)
HasDecTrace(acc, numbers, final, k) == \E f : DecUpto(f, acc, numbers, final, k)

\* Some sequence of modes and outputs follows the numbers of every body.
LEMMA DecTraceExists ==
    ASSUME NEW numbers \in Seq(Nat), NEW acc, NEW final
    PROVE  \E f : DecTrace(f, acc, numbers, final)
<1> DEFINE T == {k \in Nat : HasDecTrace(acc, numbers, final, k)}
<1>1. Len(numbers) \in Nat
  OBVIOUS
<1>2. HasDecTrace(acc, numbers, final, 0)
  <2> DEFINE z == [n \in 0 .. 0 |-> acc]
  <2>1. DecUpto(z, acc, numbers, final, 0)
    BY DEF DecUpto
  <2> HIDE DEF z
  <2>2. QED
    BY <2>1, Zenon DEF HasDecTrace
<1>3. ASSUME NEW k \in Nat, HasDecTrace(acc, numbers, final, k)
      PROVE  HasDecTrace(acc, numbers, final, k + 1)
  <2>1. PICK f : DecUpto(f, acc, numbers, final, k)
    BY <1>3 DEF HasDecTrace
  <2> DEFINE x == DecMode(f[k], numbers[k + 1], final)
             g == [n \in 0 .. k + 1 |-> IF n <= k THEN f[n] ELSE x]
  <2> HIDE DEF x
  <2>2. g[0] = acc
    BY <2>1 DEF DecUpto
  <2>3. ASSUME NEW n \in 1 .. k + 1
        PROVE  g[n] = DecMode(g[n - 1], numbers[n], final)
    <3>1. CASE n <= k
      <4>1. g[n] = f[n] /\ g[n - 1] = f[n - 1] /\ n \in 1 .. k
        BY <3>1
      <4> HIDE DEF g
      <4>2. QED
        BY <2>1, <4>1 DEF DecUpto
    <3>2. CASE n = k + 1
      <4>1. g[n] = x /\ g[n - 1] = f[k]
        BY <3>2
      <4> HIDE DEF g
      <4>2. QED
        BY <3>2, <4>1 DEF x
    <3>3. QED
      BY <3>1, <3>2
  <2> HIDE DEF g
  <2>4. DecUpto(g, acc, numbers, final, k + 1)
    BY <2>2, <2>3 DEF DecUpto
  <2>5. QED
    BY <2>4, Zenon DEF HasDecTrace
<1>4. \A n \in Nat : n \in T
  <2>1. 0 \in T
    BY <1>2
  <2>2. ASSUME NEW k \in T
        PROVE  k + 1 \in T
    BY <1>3
  <2> HIDE DEF T
  <2>3. T \in SUBSET Nat
    BY DEF T
  <2>4. QED
    BY <2>1, <2>2, <2>3, Induction
<1>5. PICK f : DecUpto(f, acc, numbers, final, Len(numbers))
  BY <1>1, <1>4 DEF HasDecTrace
<1> DEFINE h == [n \in 0 .. Len(numbers) |-> f[n]]
<1>6. ASSUME NEW n \in 0 .. Len(numbers)
      PROVE  h[n] = IF n = 0 THEN acc ELSE DecMode(h[n - 1], numbers[n], final)
  <2>1. CASE n = 0
    BY <1>1, <1>5, <2>1 DEF DecUpto
  <2>2. CASE n # 0
    <3>1. n \in 1 .. Len(numbers) /\ h[n] = f[n] /\ h[n - 1] = f[n - 1]
      BY <1>1, <2>2
    <3> HIDE DEF h
    <3>2. QED
      BY <1>5, <2>2, <3>1 DEF DecUpto
  <2>3. QED
    BY <2>1, <2>2
<1>7. DecTrace(h, acc, numbers, final)
  <2>1. h = [n \in 0 .. Len(numbers) |-> h[n]]
    OBVIOUS
  <2> HIDE DEF h
  <2>2. QED
    BY <1>6, <2>1 DEF DecTrace
<1>8. QED
  BY <1>7

DecRun(f, acc, numbers, final) ==
    f[0] = acc /\ \A k \in 0 .. Len(numbers) - 1 : f[k + 1] = DecMode(f[k], numbers[k + 1], final)

\* DecModes is the last state of its trace.
LEMMA DecModesIs ==
    ASSUME NEW numbers \in Seq(Nat), NEW acc, NEW final
    PROVE  \E f : DecModes(acc, numbers, final) = f[Len(numbers)] /\ DecRun(f, acc, numbers, final)
<1> DEFINE F == CHOOSE f : DecTrace(f, acc, numbers, final)
<1>1. DecTrace(F, acc, numbers, final)
  BY DecTraceExists
<1>2. DecModes(acc, numbers, final) = F[Len(numbers)]
  BY DEF DecModes, DecTrace
<1> HIDE DEF F
<1>3. Len(numbers) \in Nat
  OBVIOUS
<1>4. F[0] = acc
  BY <1>1, <1>3 DEF DecTrace
<1>5. ASSUME NEW k \in 0 .. Len(numbers) - 1
      PROVE  F[k + 1] = DecMode(F[k], numbers[k + 1], final)
  <2>1. k + 1 \in 0 .. Len(numbers) /\ k + 1 # 0 /\ (k + 1) - 1 = k
    BY <1>3
  <2>2. QED
    BY <1>1, <2>1 DEF DecTrace
<1>6. QED
  BY <1>2, <1>4, <1>5 DEF DecRun


-----------------------------------------------------------------------------
(* One byte.                                                               *)

\* The fields of vt100, as far as they are modelled.
IsScreen(v) == v = Parsing(v, v.mode, v.body)

\* The values of the named bytes.
LEMMA Codes ==
    /\ ESC = 27 /\ CAN = 24 /\ BEL = 7 /\ ST = 156 /\ Bracket = 91 /\ Query = 63
    /\ Set = 104 /\ Reset = 108 /\ Colon = 58 /\ Sigils = 60 .. 63 /\ Finals = 64 .. 126
    /\ Middle = 32 .. 47 /\ C0 = 0 .. 31 /\ StringIntro = {80, 88, 94, 95}
BY DEF ESC, CAN, BEL, ST, Bracket, Query, Set, Reset, Colon, Sigils, Finals, Middle, C0, StringIntro

\* The parameter bytes and the final bytes of an escape sequence, as ranges.
LEMMA Classes ==
    ASSUME NEW b \in Nat
    PROVE  /\ IsParam(b) <=> b \in 32 .. 63 \/ b >= 256
           /\ IsFinal(b) <=> b \in 48 .. 126 \/ b >= 256
BY DEF IsParam, IsFinal

\* ESC begins a sequence and CAN ends one, whatever the parser is in.
LEMMA VteReset ==
    ASSUME NEW v
    PROVE  /\ VteByte(v, ESC) = Parsing(v, "escape", <<>>)
           /\ VteByte(v, CAN) = Parsing(v, "ground", <<>>)
<1>1. /\ ESC # CAN /\ ESC # BEL /\ CAN # BEL /\ ESC \notin Finals /\ CAN \notin Finals
      /\ ~IsParam(ESC) /\ ~IsParam(CAN)
  BY Codes DEF IsParam
<1>2. VteByte(v, ESC) = Parsing(v, "escape", <<>>)
  BY <1>1 DEF VteByte
<1>3. VteByte(v, CAN) = Parsing(v, "ground", <<>>)
  BY <1>1 DEF VteByte
<1>4. QED
  BY <1>2, <1>3

\* Every other byte leaves the parser on the ground where it is.
LEMMA VteGround ==
    ASSUME NEW v, v.mode = "ground", NEW b \in Nat, b # ESC, b # CAN
    PROVE  VteByte(v, b) = v
BY DEF VteByte

\* What the byte after ESC begins or ends.
LEMMA VteEscape ==
    ASSUME NEW v, v.mode = "escape"
    PROVE  /\ VteByte(v, Bracket) = Parsing(v, "csi", <<>>)
           /\ VteByte(v, 93) = Parsing(v, "osc", <<>>)
           /\ VteByte(v, 99) = Blank
           /\ \A b \in Middle : VteByte(v, b) = Parsing(v, "intermediate", <<>>)
           /\ \A b \in Nat : IsFinal(b) /\ b \notin {Bracket, 93, 99} \cup StringIntro
                             => VteByte(v, b) = Parsing(v, "ground", <<>>)
<1> DEFINE To(mode) == Parsing(v, mode, <<>>)
<1>1. \A mode : To(mode) = Parsing(v, mode, <<>>)
  OBVIOUS
<1>2. ASSUME NEW b \in Nat, b # ESC, b # CAN
      PROVE  VteByte(v, b) = CASE b = Bracket -> To("csi")
                  [] b = \h5d -> To("osc")
                  [] b \in StringIntro -> To("string")
                  [] b \in Middle -> To("intermediate")
                  [] b = \h63 -> Blank
                  [] OTHER -> IF IsFinal(b) THEN To("ground") ELSE v
  BY <1>2 DEF VteByte
<1> HIDE DEF To
<1>3. VteByte(v, Bracket) = Parsing(v, "csi", <<>>)
  <2>1. /\ Bracket \in Nat /\ Bracket # ESC /\ Bracket # CAN /\ Bracket # 93 /\ Bracket # 99
        /\ Bracket \notin StringIntro /\ Bracket \notin Middle
    BY Codes
  <2>2. QED
    BY <1>1, <1>2, <2>1
<1>4. VteByte(v, 93) = Parsing(v, "osc", <<>>)
  <2>1. 93 \in Nat /\ 93 # ESC /\ 93 # CAN /\ 93 # Bracket /\ 93 \notin StringIntro /\ 93 \notin Middle
    BY Codes
  <2>2. QED
    BY <1>1, <1>2, <2>1
<1>5. VteByte(v, 99) = Blank
  BY <1>1, <1>2, Codes
<1>6. ASSUME NEW b \in Middle
      PROVE  VteByte(v, b) = Parsing(v, "intermediate", <<>>)
  <2>1. /\ b \in Nat /\ b # ESC /\ b # CAN /\ b # Bracket /\ b # 93 /\ b # 99
        /\ b \notin StringIntro
    BY Codes
  <2>2. QED
    BY <1>1, <1>2, <2>1
<1>7. ASSUME NEW b \in Nat, IsFinal(b), b \notin {Bracket, 93, 99} \cup StringIntro
      PROVE  VteByte(v, b) = Parsing(v, "ground", <<>>)
  <2>1. b # ESC /\ b # CAN /\ b # 91 /\ b # 93 /\ b # 99 /\ b \notin Middle /\ b \notin StringIntro
    BY <1>7, Codes, Classes
  <2>2. QED
    BY <1>1, <1>2, <1>7, <2>1, Codes
<1>8. QED
  BY <1>3, <1>4, <1>5, <1>6, <1>7

\* After intermediate bytes only a final byte matters.
LEMMA VteIntermediate ==
    ASSUME NEW v, v.mode = "intermediate", NEW b \in Nat, b # ESC, b # CAN
    PROVE  VteByte(v, b) = IF IsFinal(b) THEN Parsing(v, "ground", <<>>) ELSE v
BY DEF VteByte

\* Inside a control sequence a parameter is kept, and a final byte ends it.
LEMMA VteCsi ==
    ASSUME NEW v, NEW body, NEW b \in Nat
    PROVE  LET c == Parsing(v, "csi", body) IN
           /\ IsParam(b) => VteByte(c, b) = Parsing(v, "csi", Append(body, b))
           /\ b \in Finals =>
                VteByte(c, b) = IF b \notin {Set, Reset} \/ ~Moded(body) THEN Parsing(v, "ground", <<>>)
                                ELSE ScreenModes(Parsing(v, "ground", <<>>), body, b = Set)
<1> DEFINE c == Parsing(v, "csi", body)
<1>1. c.mode = "csi" /\ c.body = body
  BY DEF Parsing
<1>2. \A m, q : Parsing(c, m, q) = Parsing(v, m, q)
  BY DEF Parsing
<1> HIDE DEF c
<1>3. ASSUME IsParam(b)
      PROVE  VteByte(c, b) = Parsing(v, "csi", Append(body, b))
  <2>1. b # ESC /\ b # CAN /\ b \notin Finals
    BY <1>3, Codes, Classes
  <2>2. QED
    BY <1>1, <1>2, <1>3, <2>1 DEF VteByte
<1>4. ASSUME b \in Finals
      PROVE  VteByte(c, b) = IF b \notin {Set, Reset} \/ ~Moded(body) THEN Parsing(v, "ground", <<>>)
                             ELSE ScreenModes(Parsing(v, "ground", <<>>), body, b = Set)
  <2>1. b # ESC /\ b # CAN /\ ~IsParam(b)
    BY <1>4, Codes DEF IsParam
  <2>2. VteByte(c, b) = IF b \notin {Set, Reset} \/ ~Moded(c.body)
                        THEN Parsing(c, "ground", <<>>)
                        ELSE ScreenModes(Parsing(c, "ground", <<>>), c.body, b = Set)
    <3>1. CASE b \notin {Set, Reset} \/ ~Moded(c.body)
      BY <1>1, <1>4, <2>1, <3>1 DEF VteByte
    <3>2. CASE ~(b \notin {Set, Reset} \/ ~Moded(c.body))
      BY <1>1, <1>4, <2>1, <3>2 DEF VteByte
    <3>3. QED
      BY <3>1, <3>2
  <2>3. QED
    BY <1>1, <1>2, <2>2
<1>5. QED
  BY <1>3, <1>4 DEF c

\* The text of a command is skipped until BEL.
LEMMA VteOsc ==
    ASSUME NEW v
    PROVE  LET c == Parsing(v, "osc", <<>>) IN
           /\ VteByte(c, \h78) = c
           /\ VteByte(c, BEL) = Parsing(v, "ground", <<>>)
<1> DEFINE c == Parsing(v, "osc", <<>>)
<1>1. c.mode = "osc" /\ Parsing(c, "ground", <<>>) = Parsing(v, "ground", <<>>)
  BY DEF Parsing
<1> HIDE DEF c
<1>2. ESC = 27 /\ CAN = 24 /\ BEL = 7
  BY Codes
<1>3. QED
  BY <1>1, <1>2 DEF VteByte, c


-----------------------------------------------------------------------------
(* Whole sequences.                                                        *)

\* A second parser state replaces the first; the screen modes stay.
LEMMA ParsingTwice ==
    ASSUME NEW v, NEW a, NEW p, NEW b, NEW q
    PROVE  /\ Parsing(Parsing(v, a, p), b, q) = Parsing(v, b, q)
           /\ Parsing(v, a, p).mode = a /\ Parsing(v, a, p).body = p
BY DEF Parsing

\* A sequence of ESC and one byte.
LEMMA VteBytesEsc ==
    ASSUME NEW v, NEW b \in Nat
    PROVE  VteBytes(v, <<ESC, b>>) = VteByte(Parsing(v, "escape", <<>>), b)
<1>1. ESC \in Nat /\ <<ESC>> \in Seq(Nat) /\ <<b>> \in Seq(Nat) /\ <<ESC, b>> = <<ESC>> \o <<b>>
  BY Codes
<1>2. VteBytes(v, <<ESC>> \o <<b>>) = VteBytes(VteBytes(v, <<ESC>>), <<b>>)
  BY <1>1, VteBytesConcat
<1>3. VteBytes(v, <<ESC>>) = Parsing(v, "escape", <<>>)
  BY <1>1, VteBytesOne, VteReset
<1>4. VteBytes(Parsing(v, "escape", <<>>), <<b>>) = VteByte(Parsing(v, "escape", <<>>), b)
  BY VteBytesOne
<1>5. QED
  BY <1>1, <1>2, <1>3, <1>4

\* Parameters gather in the body of a control sequence.
LEMMA VteBytesBody ==
    ASSUME NEW v, NEW body \in Seq(Nat), \A i \in 1 .. Len(body) : IsParam(body[i])
    PROVE  VteBytes(Parsing(v, "csi", <<>>), body) = Parsing(v, "csi", body)
<1> DEFINE f == [k \in 0 .. Len(body) |-> Parsing(v, "csi", SubSeq(body, 1, k))]
<1>1. Len(body) \in Nat
  OBVIOUS
<1>2. SubSeq(body, 1, 0) = <<>> /\ SubSeq(body, 1, Len(body)) = body
  OBVIOUS
<1>3. f[0] = Parsing(v, "csi", <<>>) /\ f[Len(body)] = Parsing(v, "csi", body)
  <2>1. 0 \in 0 .. Len(body) /\ Len(body) \in 0 .. Len(body)
    BY <1>1
  <2>2. f[0] = Parsing(v, "csi", SubSeq(body, 1, 0))
    BY <2>1
  <2>3. f[Len(body)] = Parsing(v, "csi", SubSeq(body, 1, Len(body)))
    BY <2>1
  <2> HIDE DEF f
  <2>4. QED
    BY <1>2, <2>2, <2>3, Zenon
<1>4. ASSUME NEW k \in 0 .. Len(body) - 1
      PROVE  f[k + 1] = VteByte(f[k], body[k + 1])
  <2>1. k \in 0 .. Len(body) /\ k + 1 \in 0 .. Len(body) /\ k + 1 \in 1 .. Len(body)
    BY <1>1
  <2>2. Append(SubSeq(body, 1, k), body[k + 1]) = SubSeq(body, 1, k + 1)
    BY <2>1
  <2>3. body[k + 1] \in Nat /\ IsParam(body[k + 1])
    BY <2>1
  <2>4. VteByte(Parsing(v, "csi", SubSeq(body, 1, k)), body[k + 1])
          = Parsing(v, "csi", Append(SubSeq(body, 1, k), body[k + 1]))
    BY <2>3, VteCsi
  <2>5. QED
    BY <2>1, <2>2, <2>4
<1> HIDE DEF f
<1>5. Runs(f, Parsing(v, "csi", <<>>), body)
  BY <1>3, <1>4 DEF Runs
<1>6. QED
  BY <1>3, <1>5, VteBytesEnd

\* A control sequence passed on whole is executed, and leaves vt100 where it
\* was.
LEMMA VteBytesCsi ==
    ASSUME NEW v, NEW body \in Seq(Nat), \A i \in 1 .. Len(body) : IsParam(body[i]),
           NEW b \in Finals
    PROVE  VteBytes(v, <<ESC, Bracket>> \o body \o <<b>>)
             = IF b \notin {Set, Reset} \/ ~Moded(body) THEN Parsing(v, "ground", <<>>)
               ELSE ScreenModes(Parsing(v, "ground", <<>>), body, b = Set)
<1> DEFINE e == Parsing(v, "escape", <<>>)
           c == Parsing(v, "csi", <<>>)
           s == <<ESC, Bracket>>
<1>1. ESC \in Nat /\ Bracket \in Nat /\ b \in Nat /\ s \in Seq(Nat) /\ <<b>> \in Seq(Nat)
      /\ s \o body \in Seq(Nat)
  BY Codes
<1>2. VteBytes(v, s) = c
  <2>1. VteBytes(v, s) = VteByte(e, Bracket)
    BY <1>1, VteBytesEsc
  <2>2. e.mode = "escape" /\ Parsing(e, "csi", <<>>) = c
    BY ParsingTwice
  <2> HIDE DEF e, c, s
  <2>3. VteByte(e, Bracket) = Parsing(e, "csi", <<>>)
    BY <2>2, VteEscape
  <2>4. QED
    BY <2>1, <2>2, <2>3
<1>3. VteBytes(c, body) = Parsing(v, "csi", body)
  BY VteBytesBody
<1> HIDE DEF c, s
<1>4. VteBytes(v, s \o body) = Parsing(v, "csi", body)
  BY <1>1, <1>2, <1>3, VteBytesConcat
<1>5. VteBytes(v, (s \o body) \o <<b>>) = VteBytes(Parsing(v, "csi", body), <<b>>)
  <2> DEFINE t == s \o body
  <2>1. t \in Seq(Nat) /\ VteBytes(v, t) = Parsing(v, "csi", body) /\ <<b>> \in Seq(Nat)
    BY <1>1, <1>4
  <2> HIDE DEF t
  <2>2. VteBytes(v, t \o <<b>>) = VteBytes(VteBytes(v, t), <<b>>)
    BY <2>1, VteBytesConcat
  <2>3. QED
    BY <2>1, <2>2 DEF t
<1>6. VteBytes(Parsing(v, "csi", body), <<b>>) = VteByte(Parsing(v, "csi", body), b)
  BY <1>1, VteBytesOne
<1>7. VteByte(Parsing(v, "csi", body), b)
        = IF b \notin {Set, Reset} \/ ~Moded(body) THEN Parsing(v, "ground", <<>>)
          ELSE ScreenModes(Parsing(v, "ground", <<>>), body, b = Set)
  BY <1>1, VteCsi
<1>8. QED
  BY <1>5, <1>6, <1>7 DEF s

\* So is a title.
LEMMA VteBytesOsc ==
    ASSUME NEW v, NEW body \in Seq(Nat), \A i \in 1 .. Len(body) : body[i] = 120
    PROVE  VteBytes(v, <<ESC, 93>> \o body \o <<BEL>>) = Parsing(v, "ground", <<>>)
<1> DEFINE e == Parsing(v, "escape", <<>>)
           c == Parsing(v, "osc", <<>>)
           s == <<ESC, 93>>
           f == [k \in 0 .. Len(body) |-> c]
<1>1. ESC \in Nat /\ BEL \in Nat /\ s \in Seq(Nat) /\ <<BEL>> \in Seq(Nat)
      /\ s \o body \in Seq(Nat) /\ Len(body) \in Nat
  BY Codes
<1>2. VteBytes(v, s) = c
  <2>1. VteBytes(v, s) = VteByte(e, 93)
    BY <1>1, VteBytesEsc
  <2>2. e.mode = "escape" /\ Parsing(e, "osc", <<>>) = c
    BY ParsingTwice
  <2> HIDE DEF e, c, s
  <2>3. VteByte(e, 93) = Parsing(e, "osc", <<>>)
    BY <2>2, VteEscape
  <2>4. QED
    BY <2>1, <2>2, <2>3
<1>3. VteByte(c, 120) = c /\ VteByte(c, BEL) = Parsing(v, "ground", <<>>)
  BY VteOsc
<1> HIDE DEF c, s
<1>4. Runs(f, c, body) /\ f[Len(body)] = c
  <2>1. f[0] = c /\ f[Len(body)] = c
    BY <1>1
  <2>2. ASSUME NEW k \in 0 .. Len(body) - 1
        PROVE  f[k + 1] = VteByte(f[k], body[k + 1])
    <3>1. k + 1 \in 1 .. Len(body) /\ f[k] = c /\ f[k + 1] = c
      BY <1>1
    <3> HIDE DEF f
    <3>2. QED
      BY <1>3, <3>1
  <2> HIDE DEF f
  <2>3. QED
    BY <2>1, <2>2 DEF Runs
<1>5. VteBytes(c, body) = c
  BY <1>4, VteBytesEnd
<1>6. VteBytes(v, s \o body) = c
  BY <1>1, <1>2, <1>5, VteBytesConcat
<1>7. VteBytes(v, (s \o body) \o <<BEL>>) = VteBytes(c, <<BEL>>)
  BY <1>1, <1>6, VteBytesConcat
<1>8. VteBytes(c, <<BEL>>) = VteByte(c, BEL)
  BY <1>1, VteBytesOne
<1>9. QED
  BY <1>3, <1>7, <1>8 DEF s

-----------------------------------------------------------------------------
(* The modes the two keep.                                                 *)

IsModes(m) ==
    /\ m = [alt |-> m.alt, paste |-> m.paste, mouse |-> m.mouse, kitty |-> m.kitty,
            inactive |-> m.inactive]
    /\ m.alt \in BOOLEAN

Agree(m, v) == m.alt = v.alt /\ m.paste = v.paste /\ m.mouse = v.mouse

\* The stacks by screen: the shown one's and the other one's.
Stacked(m, st) == m.kitty = st[m.alt] /\ m.inactive = st[~m.alt]

\* What vt100 gets for a mode the program sets.
Known(n) == IF n = 1047 THEN 47 ELSE n

\* Changing the screen leaves the parser and the other modes alone.
LEMMA ScreenAlt ==
    ASSUME NEW v, IsScreen(v), NEW x, NEW w, w = [v EXCEPT !.alt = x]
    PROVE  /\ IsScreen(w) /\ w.mode = v.mode /\ w.body = v.body
           /\ w.alt = x /\ w.paste = v.paste /\ w.mouse = v.mouse
BY DEF IsScreen, Parsing

\* Changing the paste mode leaves the parser and the other modes alone.
LEMMA ScreenPaste ==
    ASSUME NEW v, IsScreen(v), NEW x, NEW w, w = [v EXCEPT !.paste = x]
    PROVE  /\ IsScreen(w) /\ w.mode = v.mode /\ w.body = v.body
           /\ w.alt = v.alt /\ w.paste = x /\ w.mouse = v.mouse
BY DEF IsScreen, Parsing

\* Changing the mouse mode leaves the parser and the other modes alone.
LEMMA ScreenMouse ==
    ASSUME NEW v, IsScreen(v), NEW x, NEW w, w = [v EXCEPT !.mouse = x]
    PROVE  /\ IsScreen(w) /\ w.mode = v.mode /\ w.body = v.body
           /\ w.alt = v.alt /\ w.paste = v.paste /\ w.mouse = x
BY DEF IsScreen, Parsing

\* Changing the pane's paste mode leaves its other modes alone.
LEMMA ModesPaste ==
    ASSUME NEW m, IsModes(m), NEW x, NEW w, w = [m EXCEPT !.paste = x]
    PROVE  /\ IsModes(w) /\ w.alt = m.alt /\ w.paste = x /\ w.mouse = m.mouse
           /\ w.kitty = m.kitty /\ w.inactive = m.inactive
BY DEF IsModes

\* Changing the pane's mouse mode leaves its other modes alone.
LEMMA ModesMouse ==
    ASSUME NEW m, IsModes(m), NEW x, NEW w, w = [m EXCEPT !.mouse = x]
    PROVE  /\ IsModes(w) /\ w.alt = m.alt /\ w.paste = m.paste /\ w.mouse = x
           /\ w.kitty = m.kitty /\ w.inactive = m.inactive
BY DEF IsModes

\* Changing the shown screen's Kitty stack leaves the other modes alone.
LEMMA ModesKitty ==
    ASSUME NEW m, IsModes(m), NEW x, NEW w, w = [m EXCEPT !.kitty = x]
    PROVE  /\ IsModes(w) /\ w.alt = m.alt /\ w.paste = m.paste /\ w.mouse = m.mouse
           /\ w.kitty = x /\ w.inactive = m.inactive
BY DEF IsModes

\* A private mode has the same effect on the pane's modes and on the screen's,
\* and the Kitty stacks change places with the screens.
LEMMA ModeAgrees ==
    ASSUME NEW m, IsModes(m), NEW v, IsScreen(v), Agree(m, v), NEW st, Stacked(m, st),
           NEW on \in BOOLEAN, NEW n \in Int
    PROVE  LET m2 == ApplyDecset(m, n, on)
               v2 == SetMode(v, Known(n), on)
           IN  /\ IsModes(m2) /\ IsScreen(v2) /\ v2.mode = v.mode /\ v2.body = v.body
               /\ Agree(m2, v2) /\ Stacked(m2, st)
<1> DEFINE m2 == ApplyDecset(m, n, on)
           v2 == SetMode(v, Known(n), on)
           Claim == /\ IsModes(m2) /\ IsScreen(v2) /\ v2.mode = v.mode /\ v2.body = v.body
                    /\ Agree(m2, v2) /\ Stacked(m2, st)
<1> SUFFICES Claim
  OBVIOUS
<1>1. CASE n \in {47, 1047, 1049}
  <2>1. m2 = SetAlternate(m, on)
    BY <1>1 DEF ApplyDecset, MouseProtocols
  <2>2. v2 = [v EXCEPT !.alt = on]
    BY <1>1 DEF SetMode, Known, MouseProtocols
  <2>3. /\ IsScreen(v2) /\ v2.mode = v.mode /\ v2.body = v.body
        /\ v2.alt = on /\ v2.paste = v.paste /\ v2.mouse = v.mouse
    <3> HIDE DEF v2
    <3> QED
      BY <2>2, ScreenAlt
  <2> HIDE DEF m2, v2
  <2>4. CASE m.alt = on
    <3>1. m2 = m
      BY <2>1, <2>4 DEF SetAlternate
    <3>2. QED
      BY <2>3, <2>4, <3>1 DEF Agree
  <2>5. CASE m.alt # on
    <3>1. m2 = [alt |-> on, paste |-> m.paste, mouse |-> m.mouse, kitty |-> m.inactive,
                inactive |-> m.kitty]
      BY <2>1, <2>5 DEF SetAlternate
    <3>2. /\ m2.alt = on /\ m2.paste = m.paste /\ m2.mouse = m.mouse /\ m2.kitty = m.inactive
          /\ m2.inactive = m.kitty
      BY <3>1
    <3>3. IsModes(m2)
      BY <3>1, <3>2 DEF IsModes
    <3>4. (~m.alt) = on /\ (~on) = m.alt
      <4>1. m.alt \in BOOLEAN
        BY DEF IsModes
      <4>2. QED
        BY <2>5, <4>1, Zenon
    <3>5. m2.kitty = st[m2.alt] /\ m2.inactive = st[~m2.alt]
      <4>1. m.kitty = st[m.alt] /\ m.inactive = st[~m.alt]
        BY DEF Stacked
      <4>2. QED
        BY <3>2, <3>4, <4>1, Zenon
    <3>6. QED
      BY <2>3, <3>2, <3>3, <3>5 DEF Agree, Stacked
  <2>6. QED
    BY <2>4, <2>5
<1>2. CASE n = 2004
  <2>1. m2 = [m EXCEPT !.paste = on]
    BY <1>2 DEF ApplyDecset, MouseProtocols
  <2>2. v2 = [v EXCEPT !.paste = on]
    BY <1>2 DEF SetMode, Known, MouseProtocols
  <2> HIDE DEF m2, v2
  <2>4. IsModes(m2) /\ m2.alt = m.alt /\ m2.paste = on /\ m2.mouse = m.mouse
        /\ m2.kitty = m.kitty /\ m2.inactive = m.inactive
    BY <2>1, ModesPaste
  <2>5. IsScreen(v2) /\ v2.mode = v.mode /\ v2.body = v.body
        /\ v2.alt = v.alt /\ v2.paste = on /\ v2.mouse = v.mouse
    BY <2>2, ScreenPaste
  <2>6. QED
    BY <2>4, <2>5 DEF Agree, Stacked
<1>3. CASE n \in MouseProtocols
  <2> DEFINE x == IF on THEN n ELSE IF m.mouse = n THEN 0 ELSE m.mouse
  <2>1. m2 = [m EXCEPT !.mouse = x]
    BY <1>3 DEF ApplyDecset, MouseProtocols
  <2>2. v2 = [v EXCEPT !.mouse = x]
    BY <1>3 DEF SetMode, Known, MouseProtocols, Agree
  <2> HIDE DEF m2, v2, x
  <2>4. IsModes(m2) /\ m2.alt = m.alt /\ m2.paste = m.paste /\ m2.mouse = x
        /\ m2.kitty = m.kitty /\ m2.inactive = m.inactive
    BY <2>1, ModesMouse
  <2>5. IsScreen(v2) /\ v2.mode = v.mode /\ v2.body = v.body
        /\ v2.alt = v.alt /\ v2.paste = v.paste /\ v2.mouse = x
    BY <2>2, ScreenMouse
  <2>6. QED
    BY <2>4, <2>5 DEF Agree, Stacked
<1>4. CASE n \notin {47, 1047, 1049, 2004} \cup MouseProtocols
  <2>1. m2 = m
    BY <1>4 DEF ApplyDecset
  <2>2. v2 = v
    BY <1>4 DEF SetMode, Known
  <2> HIDE DEF m2, v2
  <2>3. QED
    BY <2>1, <2>2
<1>5. QED
  BY <1>1, <1>2, <1>3, <1>4

\* Setting modes leaves the parser alone.
LEMMA SetModeKeeps ==
    ASSUME NEW v, IsScreen(v), NEW n, NEW on
    PROVE  LET w == SetMode(v, n, on) IN IsScreen(w) /\ w.mode = v.mode /\ w.body = v.body
<1> DEFINE w == SetMode(v, n, on)
           x == IF on THEN n ELSE IF v.mouse = n THEN 0 ELSE v.mouse
<1>1. w \in {[v EXCEPT !.alt = on], [v EXCEPT !.paste = on], [v EXCEPT !.mouse = x], v}
  <2>1. CASE n \in {47, 1049}
    BY <2>1 DEF SetMode, MouseProtocols
  <2>2. CASE n = 2004
    BY <2>2 DEF SetMode, MouseProtocols
  <2>3. CASE n \in MouseProtocols
    BY <2>3 DEF SetMode, MouseProtocols
  <2>4. CASE n \notin {47, 1049, 2004} \cup MouseProtocols
    BY <2>4 DEF SetMode
  <2>5. QED
    BY <2>1, <2>2, <2>3, <2>4
<1> HIDE DEF w, x
<1>2. CASE w = [v EXCEPT !.alt = on]
  BY <1>2, ScreenAlt DEF w
<1>3. CASE w = [v EXCEPT !.paste = on]
  BY <1>3, ScreenPaste DEF w
<1>4. CASE w = [v EXCEPT !.mouse = x]
  BY <1>4, ScreenMouse DEF w
<1>5. CASE w = v
  BY <1>5 DEF w
<1>6. QED
  BY <1>1, <1>2, <1>3, <1>4, <1>5

\* Setting the modes of a sequence does not disturb the parser.
LEMMA ScreenModesKeeps ==
    ASSUME NEW v, IsScreen(v), NEW body \in Seq(Nat), NEW on
    PROVE  LET w == ScreenModes(v, body, on) IN IsScreen(w) /\ w.mode = v.mode /\ w.body = v.body
<1>1. PICK f : ScreenModes(v, body, on) = f[Len(body)] /\ ModesRun(f, v, body, on)
  BY ScreenModesIs, Zenon
<1> DEFINE Good(k) == IsScreen(f[k]) /\ f[k].mode = v.mode /\ f[k].body = v.body
           T == {k \in Nat : k <= Len(body) => Good(k)}
<1>2. Len(body) \in Nat
  OBVIOUS
<1>3. Good(0)
  BY <1>1 DEF ModesRun
<1>4. ASSUME NEW k \in Nat, k + 1 <= Len(body), Good(k)
      PROVE  Good(k + 1)
  <2>1. f[k + 1] = ModeStep(f[k], body, k + 1, on)
    BY <1>1, <1>2, <1>4 DEF ModesRun
  <2>2. CASE IsScreenMode(body, k + 1)
    <3>1. f[k + 1] = SetMode(f[k], body[k + 1] - 256, on)
      BY <2>1, <2>2 DEF ModeStep
    <3>2. QED
      BY <1>4, <3>1, SetModeKeeps
  <2>3. CASE ~IsScreenMode(body, k + 1)
    <3>1. f[k + 1] = f[k]
      BY <2>1, <2>3 DEF ModeStep
    <3>2. QED
      BY <1>4, <3>1
  <2>4. QED
    BY <2>2, <2>3
<1>5. \A n \in Nat : n \in T
  <2> HIDE DEF Good
  <2>1. 0 \in T
    BY <1>3
  <2>2. ASSUME NEW k \in T
        PROVE  k + 1 \in T
    <3>1. k \in Nat /\ (k <= Len(body) => Good(k))
      OBVIOUS
    <3>2. QED
      BY <1>2, <1>4, <3>1
  <2> HIDE DEF T
  <2>3. T \in SUBSET Nat
    BY DEF T
  <2>4. QED
    BY <2>1, <2>2, <2>3, Induction
<1>6. Good(Len(body))
  <2> HIDE DEF Good
  <2> QED
    BY <1>2, <1>5
<1>7. QED
  BY <1>1, <1>6

\* A body without a mode vt100 reads sets nothing.
LEMMA ScreenModesNone ==
    ASSUME NEW v, NEW body \in Seq(Nat), NEW on, \A i \in DOMAIN body : ~IsScreenMode(body, i)
    PROVE  ScreenModes(v, body, on) = v
<1>1. PICK f : ScreenModes(v, body, on) = f[Len(body)] /\ ModesRun(f, v, body, on)
  BY ScreenModesIs, Zenon
<1> DEFINE T == {k \in Nat : k <= Len(body) => f[k] = v}
<1>2. Len(body) \in Nat /\ DOMAIN body = 1 .. Len(body)
  OBVIOUS
<1>3. 0 \in T
  BY <1>1 DEF ModesRun
<1>4. ASSUME NEW k \in T
      PROVE  k + 1 \in T
  <2>1. SUFFICES ASSUME k + 1 <= Len(body)
                 PROVE  f[k + 1] = v
    OBVIOUS
  <2>2. k \in 0 .. Len(body) - 1 /\ k + 1 \in DOMAIN body /\ f[k] = v
    BY <1>2, <2>1
  <2> HIDE DEF T
  <2>3. f[k + 1] = ModeStep(f[k], body, k + 1, on)
    BY <1>1, <2>2 DEF ModesRun
  <2>4. ~IsScreenMode(body, k + 1)
    BY <2>2
  <2>5. QED
    BY <2>2, <2>3, <2>4 DEF ModeStep
<1>5. \A n \in Nat : n \in T
  <2> HIDE DEF T
  <2>1. T \in SUBSET Nat
    BY DEF T
  <2>2. QED
    BY <1>3, <1>4, <2>1, Induction
<1>6. QED
  BY <1>1, <1>2, <1>5

\* A body of one number sets that mode.
LEMMA ScreenModesOne ==
    ASSUME NEW v, NEW p \in Nat, p >= 256, NEW on
    PROVE  ScreenModes(v, <<Query, p>>, on) = SetMode(v, p - 256, on)
<1> DEFINE body == <<Query, p>>
<1>1. Query = 63 /\ Colon = 58
  BY Codes
<1>2. body \in Seq(Nat) /\ Len(body) = 2 /\ body[1] = 63 /\ body[2] = p /\ DOMAIN body = 1 .. 2
  BY <1>1
<1> HIDE DEF body
<1>3. ~IsScreenMode(body, 1)
  BY <1>2 DEF IsScreenMode
<1>4. IsScreenMode(body, 2)
  BY <1>1, <1>2 DEF IsScreenMode
<1>5. PICK f : ScreenModes(v, body, on) = f[Len(body)] /\ ModesRun(f, v, body, on)
  BY <1>2, ScreenModesIs, Zenon
<1>6. f[0] = v /\ f[0 + 1] = ModeStep(f[0], body, 0 + 1, on) /\ f[1 + 1] = ModeStep(f[1], body, 1 + 1, on)
  BY <1>2, <1>5 DEF ModesRun
<1>7. f[1] = v
  BY <1>3, <1>6 DEF ModeStep
<1>8. f[2] = SetMode(v, p - 256, on)
  BY <1>2, <1>4, <1>6, <1>7 DEF ModeStep
<1>9. QED
  BY <1>2, <1>5, <1>8 DEF body

\* vt100 between two sequences.
Grounded(v) == IsScreen(v) /\ v.mode = "ground" /\ v.body = <<>>

\* Returning to the ground changes nothing on the ground.
LEMMA GroundedSame ==
    ASSUME NEW v, Grounded(v)
    PROVE  Parsing(v, "ground", <<>>) = v
BY DEF Grounded, IsScreen

\* Returning to the ground arrives there.
LEMMA ParsingGrounded ==
    ASSUME NEW v
    PROVE  Grounded(Parsing(v, "ground", <<>>))
BY DEF Grounded, IsScreen, Parsing

\* The sequence for one mode.
LEMMA VteBytesMode ==
    ASSUME NEW v, Grounded(v), NEW p \in Nat, p >= 256, NEW final \in {Set, Reset},
           NEW out, out = <<ESC, Bracket, Query, p, final>>
    PROVE  VteBytes(v, out) = SetMode(v, p - 256, final = Set)
<1> DEFINE body == <<Query, p>>
<1>1. /\ ESC = 27 /\ Bracket = 91 /\ Query = 63 /\ Sigils = 60 .. 63 /\ final \in Nat
      /\ final \in Finals
  BY Codes
<1>2. body \in Seq(Nat) /\ Len(body) = 2 /\ body[1] = Query /\ body[2] = p
  BY <1>1
<1>3. <<ESC, Bracket, Query, p, final>> = <<ESC, Bracket>> \o body \o <<final>>
  BY <1>1
<1> HIDE DEF body
<1>4. \A i \in 1 .. Len(body) : IsParam(body[i])
  BY <1>1, <1>2, Classes
<1>5. Moded(body)
  <2>1. body # <<>>
    BY DEF body
  <2>2. \A i \in 2 .. Len(body) : body[i] \notin Sigils
    BY <1>1, <1>2
  <2>3. QED
    BY <1>2, <2>1, <2>2 DEF Moded
<1>6. VteBytes(v, <<ESC, Bracket>> \o body \o <<final>>)
        = ScreenModes(Parsing(v, "ground", <<>>), body, final = Set)
  <2>1. VteBytes(v, <<ESC, Bracket>> \o body \o <<final>>)
          = IF final \notin {Set, Reset} \/ ~Moded(body) THEN Parsing(v, "ground", <<>>)
            ELSE ScreenModes(Parsing(v, "ground", <<>>), body, final = Set)
    BY <1>1, <1>2, <1>4, VteBytesCsi
  <2>2. QED
    BY <1>5, <2>1
<1>7. ScreenModes(v, body, final = Set) = SetMode(v, p - 256, final = Set)
  BY ScreenModesOne DEF body
<1>8. QED
  BY <1>3, <1>6, <1>7, GroundedSame

\* The erasure that goes before it.
LEMMA VteBytesErase ==
    ASSUME NEW v, Grounded(v)
    PROVE  VteBytes(v, <<ESC, Bracket, 258, 74>>) = v
<1> DEFINE body == <<258>>
           J == 74
<1>1. ESC = 27 /\ Bracket = 91 /\ J \in Finals /\ J \notin {Set, Reset}
  BY Codes
<1>2. body \in Seq(Nat) /\ Len(body) = 1 /\ body[1] = 258
  OBVIOUS
<1>3. <<ESC, Bracket, 258, J>> = <<ESC, Bracket>> \o body \o <<J>>
  BY <1>1
<1> HIDE DEF body, J
<1>4. \A i \in 1 .. Len(body) : IsParam(body[i])
  BY <1>2, Classes
<1>5. VteBytes(v, <<ESC, Bracket>> \o body \o <<J>>) = Parsing(v, "ground", <<>>)
  <2>1. VteBytes(v, <<ESC, Bracket>> \o body \o <<J>>)
          = IF J \notin {Set, Reset} \/ ~Moded(body) THEN Parsing(v, "ground", <<>>)
            ELSE ScreenModes(Parsing(v, "ground", <<>>), body, J = Set)
    BY <1>1, <1>2, <1>4, VteBytesCsi
  <2>2. QED
    BY <1>1, <2>1
<1>6. QED
  BY <1>3, <1>5, GroundedSame DEF J

-----------------------------------------------------------------------------
(* The sequences that set private modes.                                   *)

\* The two parsers between two sequences.
Joint(m, v, st) == IsModes(m) /\ Grounded(v) /\ Agree(m, v) /\ Stacked(m, st)

\* One private mode keeps the pane and the screen joined.
LEMMA DecModeJoint ==
    ASSUME NEW v, NEW st, NEW acc, acc.out \in Seq(Nat),
           Joint(acc.modes, VteBytes(v, acc.out), st),
           NEW p \in Nat, p >= 256, NEW final \in {Set, Reset}
    PROVE  LET next == DecMode(acc, p, final)
           IN  next.out \in Seq(Nat) /\ Joint(next.modes, VteBytes(v, next.out), st)
<1> DEFINE n == p - 256
           q == IF n = 1047 THEN Num(47) ELSE p
           erase == IF n = 1047 /\ final = Reset /\ acc.modes.alt
                    THEN <<ESC, Bracket, Num(2), \h4a>> ELSE <<>>
           sets == <<ESC, Bracket, Query, q, final>>
           next == DecMode(acc, p, final)
           on == final = Set
           w == VteBytes(v, acc.out)
           m2 == ApplyDecset(acc.modes, n, on)
           v2 == SetMode(w, Known(n), on)
<1> SUFFICES next.out \in Seq(Nat) /\ Joint(next.modes, VteBytes(v, next.out), st)
  OBVIOUS
<1>1. n \in Int /\ q \in Nat /\ q >= 256 /\ q - 256 = Known(n) /\ on \in BOOLEAN
  BY DEF Num, Known
<1>2. next.modes = m2 /\ next.out = acc.out \o erase \o sets
  BY DEF DecMode
<1>3. ESC \in Nat /\ Bracket \in Nat /\ Query \in Nat /\ final \in Nat /\ Num(2) = 258
  BY Codes DEF Num
<1>4. sets \in Seq(Nat)
  BY <1>1, <1>3
<1>5. erase \in Seq(Nat) /\ (erase = <<>> \/ erase = <<ESC, Bracket, 258, 74>>)
  BY <1>3
<1> HIDE DEF erase, sets, next, q, n, w
<1>6. acc.out \o erase \in Seq(Nat)
  BY <1>5
<1>7. next.out \in Seq(Nat)
  <2> DEFINE t == acc.out \o erase
  <2>1. t \in Seq(Nat)
    BY <1>6
  <2> HIDE DEF t
  <2>2. t \o sets \in Seq(Nat)
    BY <1>4, <2>1
  <2>3. QED
    BY <1>2, <2>2 DEF t
<1>8. IsModes(acc.modes) /\ Grounded(w) /\ Agree(acc.modes, w) /\ Stacked(acc.modes, st)
  BY DEF Joint, w
<1>9. VteBytes(w, erase) = w
  BY <1>5, <1>8, VteBytesNone, VteBytesErase
<1>10. VteBytes(v, next.out) = v2
  <2>1. VteBytes(v, acc.out \o erase) = w
    BY <1>5, <1>9, VteBytesConcat DEF w
  <2> DEFINE t == acc.out \o erase
  <2>2. t \in Seq(Nat) /\ VteBytes(v, t) = w
    BY <1>6, <2>1
  <2> HIDE DEF t
  <2>3. VteBytes(v, t \o sets) = VteBytes(w, sets)
    BY <1>4, <2>2, VteBytesConcat
  <2>4. VteBytes(w, sets) = SetMode(w, q - 256, final = Set)
    <3>1. Grounded(w) /\ q \in Nat /\ q >= 256 /\ final \in {Set, Reset}
      BY <1>1, <1>8
    <3>2. sets = <<ESC, Bracket, Query, q, final>>
      BY DEF sets
    <3>3. ASSUME NEW x \in Nat, x >= 256, NEW s, s = <<ESC, Bracket, Query, x, final>>
          PROVE  VteBytes(w, s) = SetMode(w, x - 256, final = Set)
      BY <3>1, <3>3, VteBytesMode
    <3>4. QED
      BY <3>1, <3>2, <3>3
  <2>5. QED
    BY <1>1, <1>2, <2>3, <2>4 DEF t
<1> HIDE DEF on, m2, v2
<1>11. /\ IsModes(m2) /\ IsScreen(v2) /\ v2.mode = w.mode /\ v2.body = w.body
       /\ Agree(m2, v2) /\ Stacked(m2, st)
  <2>1. IsScreen(w)
    BY <1>8 DEF Grounded
  <2>2. QED
    BY <1>1, <1>8, <2>1, ModeAgrees DEF m2, v2
<1>12. Grounded(v2)
  BY <1>8, <1>11 DEF Grounded
<1>13. QED
  BY <1>2, <1>7, <1>10, <1>11, <1>12 DEF Joint

\* So does a list of them, by induction over the list.
LEMMA DecModesJoint ==
    ASSUME NEW v, NEW st, NEW m, Joint(m, v, st), NEW numbers \in Seq(Nat),
           \A i \in 1 .. Len(numbers) : numbers[i] >= 256, NEW final \in {Set, Reset}
    PROVE  LET r == DecModes([modes |-> m, out |-> <<>>], numbers, final)
           IN  r.out \in Seq(Nat) /\ Joint(r.modes, VteBytes(v, r.out), st)
<1> DEFINE acc == [modes |-> m, out |-> <<>>]
<1>1. PICK f : DecModes(acc, numbers, final) = f[Len(numbers)] /\ DecRun(f, acc, numbers, final)
  BY DecModesIs, Zenon
<1>2. Len(numbers) \in Nat
  OBVIOUS
<1> DEFINE Good(k) == f[k].out \in Seq(Nat) /\ Joint(f[k].modes, VteBytes(v, f[k].out), st)
           T == {k \in Nat : k <= Len(numbers) => Good(k)}
<1>3. Good(0)
  <2>1. f[0] = acc /\ acc.modes = m /\ acc.out = <<>> /\ <<>> \in Seq(Nat)
    BY <1>1 DEF DecRun
  <2> HIDE DEF acc
  <2>2. QED
    BY <2>1, VteBytesNone
<1> HIDE DEF acc
<1>4. ASSUME NEW k \in Nat, k + 1 <= Len(numbers), Good(k)
      PROVE  Good(k + 1)
  <2>1. k \in 0 .. Len(numbers) - 1 /\ k + 1 \in 1 .. Len(numbers)
    BY <1>2, <1>4
  <2>2. f[k + 1] = DecMode(f[k], numbers[k + 1], final)
    BY <1>1, <2>1 DEF DecRun
  <2>3. numbers[k + 1] \in Nat /\ numbers[k + 1] >= 256
    BY <2>1
  <2>4. QED
    BY <1>4, <2>2, <2>3, DecModeJoint
<1>5. \A n \in Nat : n \in T
  <2> HIDE DEF Good
  <2>1. 0 \in T
    BY <1>3
  <2>2. ASSUME NEW k \in T
        PROVE  k + 1 \in T
    <3>1. k \in Nat /\ (k <= Len(numbers) => Good(k))
      OBVIOUS
    <3>2. QED
      BY <1>2, <1>4, <3>1
  <2> HIDE DEF T
  <2>3. T \in SUBSET Nat
    BY DEF T
  <2>4. QED
    BY <2>1, <2>2, <2>3, Induction
<1>6. Good(Len(numbers))
  <2> HIDE DEF Good
  <2> QED
    BY <1>2, <1>5
<1>7. QED
  BY <1>1, <1>6 DEF acc

\* intercept_dec_modes: what it passes on has the effect it records.
LEMMA InterceptedJoint ==
    ASSUME NEW v, NEW st, NEW m, Joint(m, v, st), NEW body \in Seq(Nat), NEW final \in Nat,
           IsDecMode(body, final)
    PROVE  LET r == InterceptDecModes(m, body, final)
           IN  Joint(r.modes, VteBytes(v, r.out), st)
<1>1. final \in {Set, Reset} /\ body # <<>> /\ AllNumbers(Tail(body))
  BY DEF IsDecMode
<1>2. Tail(body) \in Seq(Nat) /\ \A i \in 1 .. Len(Tail(body)) : Tail(body)[i] >= 256
  <2>1. Tail(body) \in Seq(Nat) /\ DOMAIN Tail(body) = 1 .. Len(Tail(body))
    BY <1>1
  <2>2. QED
    BY <1>1, <2>1 DEF AllNumbers
<1>3. CASE Len(body) = 1
  <2> DEFINE q == <<Query>>
             r == InterceptDecModes(m, body, final)
  <2> SUFFICES Joint(r.modes, VteBytes(v, r.out), st)
    OBVIOUS
  <2>1. r.modes = m /\ r.out = <<ESC, Bracket, Query, final>>
    BY <1>3 DEF InterceptDecModes
  <2> HIDE DEF r
  <2>2. /\ ESC \in Nat /\ Bracket \in Nat /\ final \in Finals /\ Query = 63
    BY <1>1, Codes
  <2>3. q \in Seq(Nat) /\ Len(q) = 1 /\ q[1] = 63 /\ DOMAIN q = 1 .. 1
    BY <2>2
  <2>4. <<ESC, Bracket, Query, final>> = <<ESC, Bracket>> \o q \o <<final>>
    BY <2>2
  <2> HIDE DEF q
  <2>5. (\A i \in 1 .. Len(q) : IsParam(q[i])) /\ \A i \in DOMAIN q : ~IsScreenMode(q, i)
    BY <2>3, Classes DEF IsScreenMode
  <2>6. VteBytes(v, <<ESC, Bracket>> \o q \o <<final>>) \in
          {Parsing(v, "ground", <<>>), ScreenModes(Parsing(v, "ground", <<>>), q, final = Set)}
    BY <2>2, <2>3, <2>5, VteBytesCsi
  <2>7. ScreenModes(Parsing(v, "ground", <<>>), q, final = Set) = Parsing(v, "ground", <<>>)
    BY <2>3, <2>5, ScreenModesNone
  <2>8. Parsing(v, "ground", <<>>) = v
    BY GroundedSame DEF Joint
  <2>9. VteBytes(v, r.out) = v
    BY <2>1, <2>4, <2>6, <2>7, <2>8
  <2>10. QED
    BY <2>1, <2>9
<1>4. CASE Len(body) # 1
  <2>1. InterceptDecModes(m, body, final)
          = DecModes([modes |-> m, out |-> <<>>], Tail(body), final)
    BY <1>4 DEF InterceptDecModes
  <2>2. QED
    BY <1>1, <1>2, <2>1, DecModesJoint
<1>5. QED
  BY <1>3, <1>4

-----------------------------------------------------------------------------
(* The inductive invariant of the two parsers.                             *)

ParserModes == {"ground", "escape", "intermediate", "csi", "osc", "string", "stringescape"}

\* The interceptor buffers parameters of a control sequence, and the text of
\* a command.
Held(mode, buffer) ==
    /\ buffer \in Seq(Nat)
    /\ mode = "csi" => \A i \in 1 .. Len(buffer) : IsParam(buffer[i])
    /\ mode = "osc" => \A i \in 1 .. Len(buffer) : buffer[i] = 120

IsParser(c) == c.mode \in ParserModes /\ Held(c.mode, c.buffer)

\* vt100 has got nothing of a sequence but its intermediate bytes.
InStep(c, v) ==
    /\ IsScreen(v) /\ v.body = <<>>
    /\ v.mode = IF c.mode = "intermediate" THEN "intermediate" ELSE "ground"

Bond(m, v, st) == Agree(m, v) /\ Stacked(m, st)

Linked(c, m, v, st) == IsParser(c) /\ IsModes(m) /\ InStep(c, v) /\ Bond(m, v, st)

ControlInv ==
    /\ IsParser(ctl) /\ IsModes(modes) /\ InStep(ctl, seen) /\ DOMAIN stacks = BOOLEAN
    /\ ~odd => Bond(modes, seen, stacks)

\* The parts of an interceptor step.
LEMMA GoesIs ==
    ASSUME NEW mode, NEW buffer, NEW overflow, NEW m, NEW out
    PROVE  LET r == Goes(mode, buffer, overflow, m, out)
           IN  /\ r.ctl.mode = mode /\ r.ctl.buffer = buffer /\ r.ctl.overflow = overflow
               /\ r.modes = m /\ r.out = out
BY DEF Goes

\* The modes stay bound when only vt100's parser moves.
LEMMA BondParsing ==
    ASSUME NEW m, NEW v, NEW st, NEW mode, NEW body, Bond(m, v, st)
    PROVE  Bond(m, Parsing(v, mode, body), st)
BY DEF Bond, Agree, Parsing

\* An empty buffer is good in every mode.
LEMMA HeldNone == \A mode : Held(mode, <<>>)
BY DEF Held

\* The modes that do not read the buffer take any of them.
LEMMA HeldAny ==
    ASSUME NEW buffer, NEW a, Held(a, buffer), NEW mode \in ParserModes \ {"csi", "osc"}
    PROVE  Held(mode, buffer)
BY DEF Held

\* A step that leaves the modes alone.
LEMMA QuietStep ==
    ASSUME NEW c, NEW m, NEW v, NEW st, Linked(c, m, v, st),
           NEW mode \in ParserModes, NEW buffer, Held(mode, buffer), NEW overflow, NEW out,
           \/ VteBytes(v, out) = v /\ (mode = "intermediate" <=> c.mode = "intermediate")
           \/ VteBytes(v, out) = Parsing(v, IF mode = "intermediate" THEN "intermediate"
                                            ELSE "ground", <<>>)
    PROVE  LET r == Goes(mode, buffer, overflow, m, out)
           IN  Linked(r.ctl, r.modes, VteBytes(v, r.out), st)
<1> DEFINE r == Goes(mode, buffer, overflow, m, out)
           w == VteBytes(v, out)
<1>1. r.ctl.mode = mode /\ r.ctl.buffer = buffer /\ r.modes = m /\ r.out = out
  BY GoesIs
<1> HIDE DEF r
<1>2. IsParser(r.ctl)
  BY <1>1 DEF IsParser
<1>3. InStep(r.ctl, w)
  <2>1. CASE w = v /\ (mode = "intermediate" <=> c.mode = "intermediate")
    BY <1>1, <2>1 DEF InStep, Linked
  <2>2. CASE w = Parsing(v, IF mode = "intermediate" THEN "intermediate" ELSE "ground", <<>>)
    <3> DEFINE to == IF mode = "intermediate" THEN "intermediate" ELSE "ground"
    <3>1. to = IF r.ctl.mode = "intermediate" THEN "intermediate" ELSE "ground"
      BY <1>1
    <3>2. w = Parsing(v, to, <<>>)
      BY <2>2
    <3> HIDE DEF to, w
    <3>3. w.mode = to /\ w.body = <<>> /\ IsScreen(w)
      BY <3>2 DEF IsScreen, Parsing
    <3>4. QED
      BY <3>1, <3>3 DEF InStep
  <2>3. QED
    BY <2>1, <2>2
<1>4. Bond(m, w, st)
  BY BondParsing DEF Linked
<1>5. QED
  BY <1>1, <1>2, <1>3, <1>4 DEF Linked, r

\* The bytes the interceptor passes on as they come.
LEMMA PlainByte ==
    ASSUME NEW v, Grounded(v), NEW b \in Nat, b # ESC
    PROVE  VteBytes(v, <<b>>) = v
<1>1. VteBytes(v, <<b>>) = VteByte(v, b)
  BY VteBytesOne
<1>2. CASE b = CAN
  BY <1>1, <1>2, VteReset, GroundedSame
<1>3. CASE b # CAN
  BY <1>1, <1>3, VteGround DEF Grounded
<1>4. QED
  BY <1>2, <1>3

\* Outside intermediate bytes vt100 is on the ground.
LEMMA LinkedGrounded ==
    ASSUME NEW c, NEW m, NEW v, NEW st, Linked(c, m, v, st), c.mode # "intermediate"
    PROVE  Grounded(v) /\ Joint(m, v, st)
BY DEF Linked, InStep, Grounded, Joint, Bond

\* A byte outside any sequence.
LEMMA GroundStep ==
    ASSUME NEW c, NEW m, NEW v, NEW st, Linked(c, m, v, st), c.mode = "ground", NEW b \in Nat
    PROVE  LET r == InGround(c, m, b) IN Linked(r.ctl, r.modes, VteBytes(v, r.out), st)
<1>1. Grounded(v) /\ Held(c.mode, c.buffer)
  BY LinkedGrounded DEF Linked, IsParser
<1>2. CASE b = ESC
  <2>1. InGround(c, m, b) = Goes("escape", c.buffer, c.overflow, m, <<>>)
    BY <1>2 DEF InGround
  <2>2. VteBytes(v, <<>>) = v /\ "escape" \in ParserModes /\ Held("escape", c.buffer)
    BY <1>1, HeldAny, VteBytesNone DEF ParserModes
  <2>3. QED
    BY <1>1, <2>1, <2>2, QuietStep
<1>3. CASE b # ESC
  <2>1. InGround(c, m, b) = Goes("ground", c.buffer, c.overflow, m, <<b>>)
    BY <1>3 DEF InGround
  <2>2. VteBytes(v, <<b>>) = v /\ "ground" \in ParserModes /\ Held("ground", c.buffer)
    BY <1>1, HeldAny, <1>3, PlainByte DEF ParserModes
  <2>3. QED
    BY <1>1, <2>1, <2>2, QuietStep
<1>4. QED
  BY <1>2, <1>3

\* CAN and SUB end whatever was begun.
LEMMA CancelStep ==
    ASSUME NEW c, NEW m, NEW v, NEW st, Linked(c, m, v, st)
    PROVE  LET r == Goes("ground", <<>>, FALSE, m, <<CAN>>)
           IN  Linked(r.ctl, r.modes, VteBytes(v, r.out), st)
<1>1. VteBytes(v, <<CAN>>) = Parsing(v, "ground", <<>>)
  BY VteBytesOne, VteReset, Codes
<1>2. "ground" \in ParserModes /\ Held("ground", <<>>)
  BY HeldNone DEF ParserModes
<1>3. QED
  BY <1>1, <1>2, QuietStep

\* A byte after intermediate bytes, which vt100 has already got.
LEMMA IntermediateStep ==
    ASSUME NEW c, NEW m, NEW v, NEW st, Linked(c, m, v, st), c.mode = "intermediate",
           NEW b \in Nat, b # CAN
    PROVE  LET r == InIntermediate(c, m, b) IN Linked(r.ctl, r.modes, VteBytes(v, r.out), st)
<1>1. IsScreen(v) /\ v.mode = "intermediate" /\ v.body = <<>> /\ Held(c.mode, c.buffer)
  BY DEF Linked, IsParser, InStep
<1>2. CASE b = ESC
  <2>1. InIntermediate(c, m, b) = Goes("escape", c.buffer, c.overflow, m, <<CAN>>)
    BY <1>2 DEF InIntermediate
  <2>2. VteBytes(v, <<CAN>>) = Parsing(v, "ground", <<>>) /\ "escape" \in ParserModes /\ Held("escape", c.buffer)
    BY <1>1, HeldAny, VteBytesOne, VteReset, Codes DEF ParserModes
  <2>3. QED
    BY <1>1, <2>1, <2>2, QuietStep
<1>3. CASE b # ESC /\ IsFinal(b)
  <2>1. InIntermediate(c, m, b) = Goes("ground", c.buffer, c.overflow, m, <<b>>)
    BY <1>3 DEF InIntermediate
  <2>2. VteBytes(v, <<b>>) = Parsing(v, "ground", <<>>) /\ "ground" \in ParserModes /\ Held("ground", c.buffer)
    BY <1>1, HeldAny, <1>3, VteBytesOne, VteIntermediate DEF ParserModes
  <2>3. QED
    BY <1>1, <2>1, <2>2, QuietStep
<1>4. CASE b # ESC /\ ~IsFinal(b)
  <2>1. InIntermediate(c, m, b) = Goes("intermediate", c.buffer, c.overflow, m, <<b>>)
    BY <1>4 DEF InIntermediate
  <2>2. VteBytes(v, <<b>>) = v /\ "intermediate" \in ParserModes /\ Held("intermediate", c.buffer)
    BY <1>1, HeldAny, <1>4, VteBytesOne, VteIntermediate DEF ParserModes
  <2>3. QED
    BY <1>1, <2>1, <2>2, QuietStep
<1>5. QED
  BY <1>2, <1>3, <1>4

\* A byte of a string nobody reads.
LEMMA StringStep ==
    ASSUME NEW c, NEW m, NEW v, NEW st, Linked(c, m, v, st), c.mode \in {"string", "stringescape"},
           NEW b \in Nat
    PROVE  LET r == InString(c, m, b) IN Linked(r.ctl, r.modes, VteBytes(v, r.out), st)
<1>1. PICK mode \in {"ground", "string", "stringescape"} :
        InString(c, m, b) = Goes(mode, c.buffer, c.overflow, m, <<>>)
  <2> DEFINE to == CASE c.mode = "string" /\ b = ESC -> "stringescape"
                     [] c.mode = "string" /\ b = ST -> "ground"
                     [] c.mode = "stringescape" /\ b = \h5c -> "ground"
                     [] OTHER -> "string"
  <2>1. to \in {"ground", "string", "stringescape"}
    OBVIOUS
  <2>2. InString(c, m, b) = Goes(to, c.buffer, c.overflow, m, <<>>)
    BY DEF InString
  <2> HIDE DEF to
  <2>3. QED
    BY <2>1, <2>2
<1>2. VteBytes(v, <<>>) = v /\ mode \in ParserModes /\ Held(mode, c.buffer)
  BY HeldAny, VteBytesNone DEF ParserModes, Linked, IsParser
<1>3. QED
  BY <1>1, <1>2, QuietStep

\* The bytes after ESC, each in one class.
LEMMA EscapeClasses ==
    ASSUME NEW b \in Nat
    PROVE  /\ b = Bracket <=> b = 91
           /\ b \in StringIntro <=> b = 80 \/ b = 88 \/ b = 94 \/ b = 95
           /\ b \in Middle <=> 32 <= b /\ b <= 47
           /\ b \in C0 \ {ESC} <=> b <= 31 /\ b # 27
           /\ IsFinal(b) <=> (48 <= b /\ b <= 126) \/ b >= 256
BY Codes, Classes

\* A byte after ESC, other than RIS.
LEMMA EscapeStep ==
    ASSUME NEW c, NEW m, NEW v, NEW st, Linked(c, m, v, st), c.mode = "escape",
           NEW b \in Nat, b # CAN, b # 99
    PROVE  LET r == InEscape(c, m, b) IN Linked(r.ctl, r.modes, VteBytes(v, r.out), st)
<1> DEFINE e == Parsing(v, "escape", <<>>)
           r == InEscape(c, m, b)
<1> SUFFICES Linked(r.ctl, r.modes, VteBytes(v, r.out), st)
  OBVIOUS
<1>1. Grounded(v) /\ (\A mode : Held(mode, <<>>)) /\ VteBytes(v, <<>>) = v
  BY LinkedGrounded, VteBytesNone, HeldNone
<1>2. VteBytes(v, <<ESC, b>>) = VteByte(e, b) /\ e.mode = "escape"
      /\ \A mode : Parsing(e, mode, <<>>) = Parsing(v, mode, <<>>)
  BY VteBytesEsc, ParsingTwice
<1> HIDE DEF e
<1>3. /\ "csi" \in ParserModes /\ "osc" \in ParserModes /\ "string" \in ParserModes
      /\ "intermediate" \in ParserModes /\ "escape" \in ParserModes /\ "ground" \in ParserModes
  BY DEF ParserModes
<1>4. CASE b = Bracket
  <2>1. r = Goes("csi", <<>>, FALSE, m, <<>>)
    <3>1. /\ b # 93 /\ b \notin StringIntro /\ b \notin Middle /\ b \notin C0 \ {ESC} /\ b # 99
        /\ ~(IsFinal(b) /\ b \notin {Bracket, 93, 99} \cup StringIntro)
      BY <1>4, EscapeClasses
    <3>2. QED
      BY <1>4, <3>1 DEF InEscape
  <2> HIDE DEF r
  <2>2. QED
    BY <1>1, <1>3, <2>1, QuietStep
<1>5. CASE b = 93
  <2>1. r = Goes("osc", <<>>, FALSE, m, <<>>)
    <3>1. /\ b # Bracket /\ b \notin StringIntro /\ b \notin Middle /\ b \notin C0 \ {ESC} /\ b # 99
        /\ ~(IsFinal(b) /\ b \notin {Bracket, 93, 99} \cup StringIntro)
      BY <1>5, EscapeClasses
    <3>2. QED
      BY <1>5, <3>1 DEF InEscape
  <2> HIDE DEF r
  <2>2. QED
    BY <1>1, <1>3, <2>1, QuietStep
<1>6. CASE b \in StringIntro
  <2>1. r = Goes("string", <<>>, FALSE, m, <<>>)
    <3>1. /\ b # Bracket /\ b # 93 /\ b \notin Middle /\ b \notin C0 \ {ESC} /\ b # 99
        /\ ~(IsFinal(b) /\ b \notin {Bracket, 93, 99} \cup StringIntro)
      BY <1>6, EscapeClasses
    <3>2. QED
      BY <1>6, <3>1 DEF InEscape
  <2> HIDE DEF r
  <2>2. QED
    BY <1>1, <1>3, <2>1, QuietStep
<1>7. CASE b \in Middle
  <2>1. r = Goes("intermediate", <<>>, FALSE, m, <<ESC, b>>)
    <3>1. /\ b # Bracket /\ b # 93 /\ b \notin StringIntro /\ b \notin C0 \ {ESC} /\ b # 99
        /\ ~(IsFinal(b) /\ b \notin {Bracket, 93, 99} \cup StringIntro)
      BY <1>7, EscapeClasses
    <3>2. QED
      BY <1>7, <3>1 DEF InEscape
  <2> HIDE DEF r
  <2>2. VteBytes(v, <<ESC, b>>) = Parsing(v, "intermediate", <<>>)
    BY <1>2, <1>7, VteEscape
  <2>3. QED
    BY <1>1, <1>3, <2>1, <2>2, QuietStep
<1>8. CASE b \in C0 \ {ESC}
  <2>1. r = Goes("escape", <<>>, FALSE, m, <<b>>)
    <3>1. /\ b # Bracket /\ b # 93 /\ b \notin StringIntro /\ b \notin Middle /\ b # 99
        /\ ~(IsFinal(b) /\ b \notin {Bracket, 93, 99} \cup StringIntro)
      BY <1>8, EscapeClasses
    <3>2. QED
      BY <1>8, <3>1 DEF InEscape
  <2> HIDE DEF r
  <2>2. VteBytes(v, <<b>>) = v
    BY <1>1, <1>8, PlainByte
  <2>3. QED
    BY <1>1, <1>3, <2>1, <2>2, QuietStep
<1>9. CASE IsFinal(b) /\ b \notin {Bracket, 93, 99} \cup StringIntro
  <2>1. r = Goes("ground", <<>>, FALSE, m, <<ESC, b>>)
    BY <1>9, EscapeClasses DEF InEscape
  <2> HIDE DEF r
  <2>2. VteBytes(v, <<ESC, b>>) = Parsing(v, "ground", <<>>)
    BY <1>2, <1>9, VteEscape
  <2>3. QED
    BY <1>1, <1>3, <2>1, <2>2, QuietStep
<1>10. CASE /\ b # Bracket /\ b # 93 /\ b \notin StringIntro /\ b \notin Middle
            /\ b \notin C0 \ {ESC} /\ ~IsFinal(b)
  <2>1. r = Goes("escape", <<>>, FALSE, m, <<>>)
    BY <1>10 DEF InEscape
  <2> HIDE DEF r
  <2>2. QED
    BY <1>1, <1>3, <2>1, QuietStep
<1>11. QED
  BY <1>4, <1>5, <1>6, <1>7, <1>8, <1>9, <1>10

\* RIS empties the modes of both.
LEMMA RisStep ==
    ASSUME NEW c, NEW m, NEW v, NEW st, Linked(c, m, v, st), c.mode = "escape"
    PROVE  LET r == InEscape(c, m, 99)
           IN  Linked(r.ctl, r.modes, VteBytes(v, r.out), [on \in BOOLEAN |-> <<>>])
<1> DEFINE e == Parsing(v, "escape", <<>>)
           r == InEscape(c, m, 99)
           none == [on \in BOOLEAN |-> <<>>]
<1>1. 99 \in Nat /\ e.mode = "escape"
  BY ParsingTwice
<1>2. VteBytes(v, <<ESC, 99>>) = VteByte(e, 99)
  BY <1>1, VteBytesEsc
<1> HIDE DEF e
<1>3. VteBytes(v, <<ESC, 99>>) = Blank
  BY <1>1, <1>2, VteEscape
<1>4. r = Goes("ground", <<>>, FALSE, NoModes, <<ESC, 99>>)
  <2>1. /\ 99 # Bracket /\ 99 \notin StringIntro /\ 99 \notin Middle /\ 99 \notin C0 \ {ESC}
    BY <1>1, EscapeClasses
  <2>2. QED
    BY <2>1 DEF InEscape
<1> HIDE DEF r
<1>5. r.ctl.mode = "ground" /\ r.ctl.buffer = <<>> /\ r.modes = NoModes /\ r.out = <<ESC, 99>>
  BY <1>4 DEF Goes
<1>6. IsParser(r.ctl)
  BY <1>5, HeldNone DEF IsParser, ParserModes
<1>7. IsModes(NoModes)
  BY DEF IsModes, NoModes
<1>8. InStep(r.ctl, Blank)
  BY <1>5 DEF InStep, IsScreen, Parsing, Blank
<1>9. Agree(NoModes, Blank)
  BY DEF Agree, NoModes, Blank
<1>10. Stacked(NoModes, none)
  <2>1. NoModes.kitty = <<>> /\ NoModes.inactive = <<>> /\ NoModes.alt = FALSE
    BY DEF NoModes
  <2>2. none[FALSE] = <<>> /\ none[TRUE] = <<>> /\ (~FALSE) = TRUE
    OBVIOUS
  <2> HIDE DEF none
  <2>3. QED
    BY <2>1, <2>2 DEF Stacked
<1>11. QED
  BY <1>3, <1>5, <1>6, <1>7, <1>8, <1>9, <1>10 DEF Linked, Bond, r

\* A byte of an operating system command: it is passed on whole or not at all.
LEMMA OscStep ==
    ASSUME NEW c, NEW m, NEW v, NEW st, Linked(c, m, v, st), c.mode = "osc",
           NEW b \in Nat, b # CAN, NEW titled
    PROVE  LET r == InOsc(c, m, b, titled) IN Linked(r.ctl, r.modes, VteBytes(v, r.out), st)
<1> DEFINE r == InOsc(c, m, b, titled)
           out == IF titled /\ ~c.overflow /\ Len(c.buffer) <= TITLE_MAX
                  THEN <<ESC, \h5d>> \o c.buffer \o <<BEL>> ELSE <<>>
<1> SUFFICES Linked(r.ctl, r.modes, VteBytes(v, r.out), st)
  OBVIOUS
<1>1. Grounded(v) /\ (\A mode : Held(mode, <<>>)) /\ VteBytes(v, <<>>) = v
  BY LinkedGrounded, VteBytesNone, HeldNone
<1>2. c.buffer \in Seq(Nat) /\ \A i \in 1 .. Len(c.buffer) : c.buffer[i] = 120
      /\ Held("osc", c.buffer)
  BY DEF Linked, IsParser, Held
<1>3. VteBytes(v, <<ESC, 93>> \o c.buffer \o <<BEL>>) = v
  <2>1. VteBytes(v, <<ESC, 93>> \o c.buffer \o <<BEL>>) = Parsing(v, "ground", <<>>)
    BY <1>2, VteBytesOsc
  <2>2. Parsing(v, "ground", <<>>) = v
    BY <1>1, GroundedSame
  <2>3. QED
    BY <2>1, <2>2, Zenon
<1>4. VteBytes(v, out) = v
  BY <1>1, <1>3
<1>5. "osc" \in ParserModes /\ "escape" \in ParserModes /\ "ground" \in ParserModes
  BY DEF ParserModes
<1>6. CASE b = BEL
  <2>1. r = Goes("ground", <<>>, FALSE, m, out)
    BY <1>6, Codes DEF InOsc
  <2> HIDE DEF r, out
  <2>2. QED
    BY <1>1, <1>4, <1>5, <2>1, QuietStep
<1>7. CASE b = ESC
  <2>1. r = Goes("escape", <<>>, FALSE, m, out)
    BY <1>7, Codes DEF InOsc
  <2> HIDE DEF r, out
  <2>2. QED
    BY <1>1, <1>4, <1>5, <2>1, QuietStep
<1>8. CASE b \in C0 \ {BEL, ESC}
  <2>1. r = Goes("osc", c.buffer, c.overflow, m, <<>>)
    BY <1>8 DEF InOsc
  <2> HIDE DEF r, out
  <2>2. QED
    BY <1>1, <1>2, <1>5, <2>1, QuietStep
<1>9. CASE b \notin C0 \cup {BEL, ESC}
  <2>1. CASE ~c.overflow /\ Len(c.buffer) < PAYLOAD_MAX
    <3> DEFINE q == Append(c.buffer, 120)
    <3>1. r = Goes("osc", q, FALSE, m, <<>>)
      BY <1>9, <2>1 DEF InOsc
    <3>2. Held("osc", q)
      BY <1>2 DEF Held
    <3> HIDE DEF r, out, q
    <3>3. QED
      BY <1>1, <1>5, <3>1, <3>2, QuietStep
  <2>2. CASE ~(~c.overflow /\ Len(c.buffer) < PAYLOAD_MAX)
    <3>1. r = Goes("osc", <<>>, TRUE, m, <<>>)
      BY <1>9, <2>2 DEF InOsc
    <3> HIDE DEF r, out
    <3>2. QED
      BY <1>1, <1>5, <3>1, QuietStep
  <2>3. QED
    BY <2>1, <2>2
<1>10. QED
  BY <1>6, <1>7, <1>8, <1>9

\* Inside a control sequence: what does not end it, or ends one too long.
LEMMA CsiQuiet ==
    ASSUME NEW c, NEW m, NEW v, NEW st, Linked(c, m, v, st), c.mode = "csi",
           NEW b \in Nat, b # CAN, b \notin Finals \/ c.overflow
    PROVE  LET r == InCsi(c, m, b) IN Linked(r.ctl, r.modes, VteBytes(v, r.out), st)
<1> DEFINE r == InCsi(c, m, b)
<1> SUFFICES Linked(r.ctl, r.modes, VteBytes(v, r.out), st)
  OBVIOUS
<1>1. Grounded(v) /\ (\A mode : Held(mode, <<>>)) /\ VteBytes(v, <<>>) = v /\ Held("csi", c.buffer)
  BY LinkedGrounded, VteBytesNone, HeldNone DEF Linked, IsParser
<1>2. "csi" \in ParserModes /\ "escape" \in ParserModes /\ "ground" \in ParserModes
  BY DEF ParserModes
<1>3. CASE b = ESC
  <2>1. b \notin Finals /\ b \notin C0 \ {ESC} /\ b # 127 /\ ~IsParam(b)
    BY <1>3, Codes, Classes
  <2>2. r = Goes("escape", <<>>, c.overflow, m, <<>>)
    BY <1>3, <2>1 DEF InCsi
  <2> HIDE DEF r
  <2>3. QED
    BY <1>1, <1>2, <2>2, QuietStep
<1>4. CASE b \in Finals
  <2>1. b # ESC /\ b \notin C0 \ {ESC} /\ b # 127 /\ ~IsParam(b)
    BY <1>4, Codes, Classes
  <2>2. r = Goes("ground", <<>>, FALSE, m, <<>>)
    BY <1>4, <2>1 DEF InCsi
  <2> HIDE DEF r
  <2>3. QED
    BY <1>1, <1>2, <2>2, QuietStep
<1>5. CASE b \in C0 \ {ESC}
  <2>1. b # ESC /\ b \notin Finals /\ b # 127 /\ ~IsParam(b)
    BY <1>5, Codes, Classes
  <2>2. r = Goes("csi", c.buffer, c.overflow, m, <<b>>)
    BY <1>5, <2>1 DEF InCsi
  <2>3. VteBytes(v, <<b>>) = v
    BY <1>1, <2>1, PlainByte
  <2> HIDE DEF r
  <2>4. QED
    BY <1>1, <1>2, <2>2, <2>3, QuietStep
<1>6. CASE b = 127
  <2>1. b # ESC /\ b \notin Finals /\ b \notin C0 \ {ESC} /\ ~IsParam(b)
    BY <1>6, Codes, Classes
  <2>2. r = Goes("csi", c.buffer, c.overflow, m, <<>>)
    BY <1>6, <2>1 DEF InCsi
  <2> HIDE DEF r
  <2>3. QED
    BY <1>1, <1>2, <2>2, QuietStep
<1>7. CASE b # ESC /\ b \notin Finals /\ b \notin C0 \ {ESC} /\ b # 127
  <2>1. CASE IsParam(b) /\ ~c.overflow /\ Len(c.buffer) < BODY_MAX
    <3> DEFINE q == Append(c.buffer, b)
    <3>1. r = Goes("csi", q, FALSE, m, <<>>)
      BY <1>7, <2>1 DEF InCsi
    <3>2. Held("csi", q)
      <4>1. c.buffer \in Seq(Nat) /\ \A i \in 1 .. Len(c.buffer) : IsParam(c.buffer[i])
        BY <1>1 DEF Held
      <4>2. /\ q \in Seq(Nat) /\ Len(q) = Len(c.buffer) + 1 /\ q[Len(c.buffer) + 1] = b
            /\ Len(c.buffer) \in Nat /\ \A i \in 1 .. Len(c.buffer) : q[i] = c.buffer[i]
        BY <4>1
      <4> HIDE DEF q
      <4>3. \A i \in 1 .. Len(q) : IsParam(q[i])
        BY <2>1, <4>1, <4>2
      <4>4. QED
        BY <4>2, <4>3 DEF Held
    <3> HIDE DEF r, q
    <3>3. QED
      BY <1>1, <1>2, <3>1, <3>2, QuietStep
  <2>2. CASE ~(IsParam(b) /\ ~c.overflow /\ Len(c.buffer) < BODY_MAX)
    <3>1. r = Goes("csi", c.buffer, TRUE, m, <<>>)
      BY <1>7, <2>2 DEF InCsi
    <3> HIDE DEF r
    <3>2. QED
      BY <1>1, <1>2, <3>1, QuietStep
  <2>3. QED
    BY <2>1, <2>2
<1>8. QED
  BY <1>3, <1>4, <1>5, <1>6, <1>7

\* What ends one that is complete.
LEMMA CsiEnds ==
    ASSUME NEW c, NEW m, IsModes(m), NEW b \in Finals, ~c.overflow
    PROVE  /\ b # 117 /\ IsDecMode(c.buffer, b) =>
                InCsi(c, m, b) = Goes("ground", <<>>, FALSE,
                                      InterceptDecModes(m, c.buffer, b).modes,
                                      InterceptDecModes(m, c.buffer, b).out)
           /\ b # 117 /\ ~IsDecMode(c.buffer, b) =>
                InCsi(c, m, b) = Goes("ground", <<>>, FALSE, m,
                                      <<ESC, Bracket>> \o c.buffer \o <<b>>)
           /\ b = 117 =>
                InCsi(c, m, b) = Goes("ground", <<>>, FALSE,
                                      [m EXCEPT !.kitty = CsiU(m.kitty, c.buffer)],
                                      <<ESC, Bracket>> \o c.buffer \o <<b>>)
<1> DEFINE k == [m EXCEPT !.kitty = IF b = \h75 THEN CsiU(@, c.buffer) ELSE @]
           d == IF IsDecMode(c.buffer, b) THEN InterceptDecModes(k, c.buffer, b)
                ELSE [modes |-> k, out |-> <<ESC, Bracket>> \o c.buffer \o <<b>>]
<1>1. b \in Nat /\ b # ESC /\ b \notin C0 \ {ESC} /\ b # 127 /\ ~IsParam(b) /\ (b = 117 => b \notin {Set, Reset})
  <2>1. b \in Nat
    BY Codes
  <2>2. QED
    BY <2>1, Codes, Classes
<1>2. InCsi(c, m, b) = Goes("ground", <<>>, FALSE, d.modes, d.out)
  BY <1>1 DEF InCsi
<1>3. ASSUME b # 117
      PROVE  k = m
  BY <1>3 DEF IsModes
<1>4. b = 117 => k = [m EXCEPT !.kitty = CsiU(m.kitty, c.buffer)]
  OBVIOUS
<1>5. b = 117 => ~IsDecMode(c.buffer, b)
  BY <1>1 DEF IsDecMode
<1> HIDE DEF k
<1>6. IsDecMode(c.buffer, b) => d = InterceptDecModes(k, c.buffer, b)
  OBVIOUS
<1>7. ~IsDecMode(c.buffer, b) => d.modes = k /\ d.out = <<ESC, Bracket>> \o c.buffer \o <<b>>
  OBVIOUS
<1> HIDE DEF d
<1>8. QED
  BY <1>2, <1>3, <1>4, <1>5, <1>6, <1>7

\* Both are on the ground and agree: the invariant.
LEMMA JointLinked ==
    ASSUME NEW m, NEW v, NEW st, Joint(m, v, st), NEW out,
           NEW r, r = Goes("ground", <<>>, FALSE, m, out)
    PROVE  Linked(r.ctl, r.modes, v, st)
<1>1. r.ctl.mode = "ground" /\ r.ctl.buffer = <<>> /\ r.modes = m
  BY DEF Goes
<1>2. IsParser(r.ctl)
  BY <1>1, HeldNone DEF IsParser, ParserModes
<1>3. InStep(r.ctl, v)
  BY <1>1 DEF InStep, Joint, Grounded
<1>4. QED
  BY <1>1, <1>2, <1>3 DEF Linked, Joint, Bond

\* A sequence of private modes.
LEMMA CsiDec ==
    ASSUME NEW c, NEW m, NEW v, NEW st, Linked(c, m, v, st), c.mode = "csi", ~c.overflow,
           NEW b \in Finals, b # 117, IsDecMode(c.buffer, b)
    PROVE  LET r == InCsi(c, m, b) IN Linked(r.ctl, r.modes, VteBytes(v, r.out), st)
<1> DEFINE d == InterceptDecModes(m, c.buffer, b)
           r == InCsi(c, m, b)
<1>1. Joint(m, v, st) /\ IsModes(m) /\ c.buffer \in Seq(Nat) /\ b \in Nat
  BY LinkedGrounded, Codes DEF Linked, IsParser, Held
<1>2. Joint(d.modes, VteBytes(v, d.out), st)
  BY <1>1, InterceptedJoint
<1>3. r = Goes("ground", <<>>, FALSE, d.modes, d.out)
  BY <1>1, CsiEnds
<1> HIDE DEF d, r
<1>4. r.out = d.out
  BY <1>3 DEF Goes
<1>5. Linked(r.ctl, r.modes, VteBytes(v, d.out), st)
  BY <1>2, <1>3, JointLinked
<1>6. QED
  BY <1>4, <1>5 DEF r

\* The Kitty sequences change the stack of the screen that is shown.
LEMMA CsiKitty ==
    ASSUME NEW c, NEW m, NEW v, NEW st, Linked(c, m, v, st), c.mode = "csi", ~c.overflow,
           DOMAIN st = BOOLEAN
    PROVE  LET r == InCsi(c, m, 117)
               st2 == [st EXCEPT ![v.alt] = CsiU(@, c.buffer)]
           IN  Linked(r.ctl, r.modes, VteBytes(v, r.out), st2)
<1> DEFINE x == CsiU(m.kitty, c.buffer)
           m2 == [m EXCEPT !.kitty = x]
           out == <<ESC, Bracket>> \o c.buffer \o <<117>>
           st2 == [st EXCEPT ![v.alt] = CsiU(@, c.buffer)]
           r == InCsi(c, m, 117)
<1>1. /\ Joint(m, v, st) /\ IsModes(m) /\ Grounded(v) /\ c.buffer \in Seq(Nat)
      /\ \A i \in 1 .. Len(c.buffer) : IsParam(c.buffer[i])
  BY LinkedGrounded DEF Linked, IsParser, Held
<1>2. 117 \in Finals /\ 117 \notin {Set, Reset}
  BY Codes
<1>3. r = Goes("ground", <<>>, FALSE, m2, out)
  BY <1>1, <1>2, CsiEnds
<1>4. VteBytes(v, out) = v
  BY <1>1, <1>2, VteBytesCsi, GroundedSame
<1>5. /\ IsModes(m2) /\ m2.alt = m.alt /\ m2.paste = m.paste /\ m2.mouse = m.mouse
      /\ m2.kitty = x /\ m2.inactive = m.inactive
  <2> HIDE DEF x
  <2>1. QED
    BY <1>1, ModesKitty
<1>6. m.alt = v.alt /\ m.kitty = st[v.alt] /\ m.inactive = st[~v.alt] /\ v.alt \in BOOLEAN
  BY <1>1 DEF Joint, Agree, Stacked, IsModes
<1>7. st2[v.alt] = x /\ st2[~v.alt] = st[~v.alt]
  <2>1. (~v.alt) \in BOOLEAN /\ (~v.alt) # v.alt
    BY <1>6, Zenon
  <2>2. st2[v.alt] = CsiU(st[v.alt], c.buffer)
    BY <1>6
  <2>3. QED
    BY <1>6, <2>1, <2>2
<1> HIDE DEF x, m2, st2, out, r
<1>8. Stacked(m2, st2)
  BY <1>5, <1>6, <1>7 DEF Stacked
<1>9. Joint(m2, v, st2)
  BY <1>1, <1>5, <1>8 DEF Joint, Agree
<1>10. r.out = out
  BY <1>3 DEF Goes
<1>11. Linked(r.ctl, r.modes, v, st2)
  BY <1>3, <1>9, JointLinked
<1>12. QED
  BY <1>4, <1>10, <1>11 DEF r, st2

\* Anything else is passed on as it is; vt100 may set modes by it.
LEMMA CsiPassed ==
    ASSUME NEW c, NEW m, NEW v, NEW st, Linked(c, m, v, st), c.mode = "csi", ~c.overflow,
           NEW b \in Finals, b # 117, ~IsDecMode(c.buffer, b)
    PROVE  LET r == InCsi(c, m, b)
               w == VteBytes(v, r.out)
           IN  /\ IsParser(r.ctl) /\ IsModes(r.modes) /\ InStep(r.ctl, w)
               /\ ~(b \in {Set, Reset} /\ Moded(c.buffer)
                    /\ \E i \in DOMAIN c.buffer : IsScreenMode(c.buffer, i))
                    => Linked(r.ctl, r.modes, w, st)
<1> DEFINE out == <<ESC, Bracket>> \o c.buffer \o <<b>>
           r == InCsi(c, m, b)
           w == VteBytes(v, out)
<1>1. /\ Joint(m, v, st) /\ IsModes(m) /\ Grounded(v) /\ c.buffer \in Seq(Nat)
      /\ \A i \in 1 .. Len(c.buffer) : IsParam(c.buffer[i])
  BY LinkedGrounded DEF Linked, IsParser, Held
<1>2. r = Goes("ground", <<>>, FALSE, m, out)
  BY <1>1, CsiEnds
<1>3. w = IF b \notin {Set, Reset} \/ ~Moded(c.buffer) THEN v ELSE ScreenModes(v, c.buffer, b = Set)
  <2>1. w = IF b \notin {Set, Reset} \/ ~Moded(c.buffer) THEN Parsing(v, "ground", <<>>)
            ELSE ScreenModes(Parsing(v, "ground", <<>>), c.buffer, b = Set)
    BY <1>1, VteBytesCsi
  <2>2. Parsing(v, "ground", <<>>) = v
    BY <1>1, GroundedSame
  <2> HIDE DEF w
  <2>3. QED
    BY <2>1, <2>2
<1>4. IsScreen(v) /\ v.mode = "ground" /\ v.body = <<>>
  BY <1>1 DEF Grounded
<1>5. IsScreen(w) /\ w.mode = "ground" /\ w.body = <<>>
  <2>1. CASE b \notin {Set, Reset} \/ ~Moded(c.buffer)
    BY <1>3, <1>4, <2>1
  <2>2. CASE ~(b \notin {Set, Reset} \/ ~Moded(c.buffer))
    <3>1. w = ScreenModes(v, c.buffer, b = Set)
      BY <1>3, <2>2
    <3>2. QED
      BY <1>1, <1>4, <3>1, ScreenModesKeeps
  <2>3. QED
    BY <2>1, <2>2
<1>6. ASSUME ~(b \in {Set, Reset} /\ Moded(c.buffer)
               /\ \E i \in DOMAIN c.buffer : IsScreenMode(c.buffer, i))
      PROVE  w = v
  <2>1. CASE b \notin {Set, Reset} \/ ~Moded(c.buffer)
    BY <1>3, <2>1
  <2>2. CASE ~(b \notin {Set, Reset} \/ ~Moded(c.buffer))
    <3>1. w = ScreenModes(v, c.buffer, b = Set)
      BY <1>3, <2>2
    <3>2. \A i \in DOMAIN c.buffer : ~IsScreenMode(c.buffer, i)
      BY <1>6, <2>2
    <3>3. QED
      BY <1>1, <3>1, <3>2, ScreenModesNone
  <2>3. QED
    BY <2>1, <2>2
<1> HIDE DEF out, r, w
<1>7. r.out = out /\ r.ctl.mode = "ground" /\ r.ctl.buffer = <<>> /\ r.modes = m
  BY <1>2 DEF Goes
<1>8. IsParser(r.ctl) /\ IsModes(r.modes) /\ InStep(r.ctl, w)
  BY <1>1, <1>5, <1>7, HeldNone DEF IsParser, ParserModes, InStep
<1>9. w = v => Linked(r.ctl, r.modes, w, st)
  BY <1>1, <1>2, JointLinked
<1>10. VteBytes(v, r.out) = w
  BY <1>7 DEF w
<1>11. QED
  BY <1>6, <1>8, <1>9, <1>10 DEF r

\* Which reader a byte goes to.
LEMMA InterceptByteIs ==
    ASSUME NEW c, NEW m, NEW b, NEW titled
    PROVE  LET r == InterceptByte(c, m, b, titled) IN
           /\ b = CAN /\ c.mode # "ground" => r = Goes("ground", <<>>, FALSE, m, <<CAN>>)
           /\ c.mode = "ground" => r = InGround(c, m, b)
           /\ b # CAN =>
                /\ c.mode = "escape" => r = InEscape(c, m, b)
                /\ c.mode = "intermediate" => r = InIntermediate(c, m, b)
                /\ c.mode = "csi" => r = InCsi(c, m, b)
                /\ c.mode = "osc" => r = InOsc(c, m, b, titled)
                /\ c.mode \in {"string", "stringescape"} => r = InString(c, m, b)
<1> DEFINE r == InterceptByte(c, m, b, titled)
<1>1. b = CAN /\ c.mode # "ground" => r = Goes("ground", <<>>, FALSE, m, <<CAN>>)
  BY DEF InterceptByte
<1>2. c.mode = "ground" => r = InGround(c, m, b)
  BY DEF InterceptByte
<1>3. ASSUME b # CAN
      PROVE  /\ c.mode = "escape" => r = InEscape(c, m, b)
             /\ c.mode = "intermediate" => r = InIntermediate(c, m, b)
             /\ c.mode = "csi" => r = InCsi(c, m, b)
             /\ c.mode = "osc" => r = InOsc(c, m, b, titled)
             /\ c.mode \in {"string", "stringescape"} => r = InString(c, m, b)
  BY <1>3 DEF InterceptByte
<1> HIDE DEF r
<1>4. QED
  BY <1>1, <1>2, <1>3 DEF r

\* A byte read by the pane, whatever it is and wherever it comes.
LEMMA ReadByteInv ==
    ASSUME ControlInv, NEW b \in Nat, NEW titled, ReadByte(b, titled)
    PROVE  ControlInv'
<1> DEFINE r == InterceptByte(ctl, modes, b, titled)
           w == VteBytes(seen, r.out)
           none == [on \in BOOLEAN |-> <<>>]
           Stays == Linked(r.ctl, r.modes, w, stacks')
<1>1. Linked(ctl, modes, seen, stacks) /\ DOMAIN stacks = BOOLEAN
  BY DEF ControlInv, ReadByte, Linked
<1>2. /\ ctl' = r.ctl /\ modes' = r.modes /\ seen' = w /\ odd' = Oddly(b)
      /\ stacks' = IF ctl.mode = "escape" /\ b = 99 THEN none
                   ELSE IF ctl.mode = "csi" /\ b = 117 /\ ~ctl.overflow
                   THEN [stacks EXCEPT ![seen.alt] = CsiU(@, ctl.buffer)]
                   ELSE stacks
  BY DEF ReadByte
<1>3. DOMAIN stacks' = BOOLEAN
  BY <1>1, <1>2
<1>4. ctl.mode \in ParserModes
  BY <1>1 DEF Linked, IsParser
<1>5. CASE b = CAN /\ ctl.mode # "ground"
  <2>1. r = Goes("ground", <<>>, FALSE, modes, <<CAN>>) /\ stacks' = stacks
    <3>1. b # 99 /\ b # 117
      BY <1>5 DEF CAN
    <3>2. stacks' = stacks
      BY <1>2, <3>1
    <3>3. QED
      BY <1>5, <3>2, InterceptByteIs
  <2> HIDE DEF r
  <2>2. Stays
    BY <1>1, <2>1, CancelStep
  <2>3. QED
    BY <1>2, <1>3, <2>2 DEF ControlInv, Linked
<1>6. CASE ctl.mode = "ground"
  <2>1. r = InGround(ctl, modes, b) /\ stacks' = stacks
    BY <1>2, <1>6, InterceptByteIs
  <2> HIDE DEF r
  <2>2. Stays
    BY <1>1, <1>6, <2>1, GroundStep
  <2>3. QED
    BY <1>2, <1>3, <2>2 DEF ControlInv, Linked
<1>7. CASE ctl.mode = "escape" /\ b # CAN /\ b # 99
  <2>1. r = InEscape(ctl, modes, b) /\ stacks' = stacks
    BY <1>2, <1>7, InterceptByteIs
  <2> HIDE DEF r
  <2>2. Stays
    BY <1>1, <1>7, <2>1, EscapeStep
  <2>3. QED
    BY <1>2, <1>3, <2>2 DEF ControlInv, Linked
<1>8. CASE ctl.mode = "escape" /\ b = 99
  <2>1. r = InEscape(ctl, modes, 99) /\ stacks' = none
    <3>1. b # CAN /\ ctl.mode = "escape"
      BY <1>8 DEF CAN
    <3>2. r = InEscape(ctl, modes, b)
      BY <3>1, InterceptByteIs
    <3>3. QED
      BY <1>2, <1>8, <3>2
  <2> HIDE DEF r
  <2>2. Stays
    BY <1>1, <1>8, <2>1, RisStep
  <2>3. QED
    BY <1>2, <1>3, <2>2 DEF ControlInv, Linked
<1>9. CASE ctl.mode = "intermediate" /\ b # CAN
  <2>1. r = InIntermediate(ctl, modes, b) /\ stacks' = stacks
    BY <1>2, <1>9, InterceptByteIs
  <2> HIDE DEF r
  <2>2. Stays
    BY <1>1, <1>9, <2>1, IntermediateStep
  <2>3. QED
    BY <1>2, <1>3, <2>2 DEF ControlInv, Linked
<1>10. CASE ctl.mode = "csi" /\ b # CAN
  <2>1. r = InCsi(ctl, modes, b)
    BY <1>10, InterceptByteIs
  <2>2. CASE b \notin Finals \/ ctl.overflow
    <3>1. stacks' = stacks
      BY <1>2, <1>10, <2>2, Codes
    <3> HIDE DEF r
    <3>2. Stays
      BY <1>1, <1>10, <2>1, <2>2, <3>1, CsiQuiet
    <3>3. QED
      BY <1>2, <1>3, <3>2 DEF ControlInv, Linked
  <2>3. CASE b = 117 /\ ~ctl.overflow
    <3>1. stacks' = [stacks EXCEPT ![seen.alt] = CsiU(@, ctl.buffer)] /\ r = InCsi(ctl, modes, 117)
      BY <1>2, <1>10, <2>1, <2>3
    <3> HIDE DEF r
    <3>2. Stays
      BY <1>1, <1>10, <2>3, <3>1, CsiKitty
    <3>3. QED
      BY <1>2, <1>3, <3>2 DEF ControlInv, Linked
  <2>4. CASE b \in Finals /\ b # 117 /\ ~ctl.overflow /\ IsDecMode(ctl.buffer, b)
    <3>1. stacks' = stacks
      BY <1>2, <1>10, <2>4
    <3> HIDE DEF r
    <3>2. Stays
      BY <1>1, <1>10, <2>1, <2>4, <3>1, CsiDec
    <3>3. QED
      BY <1>2, <1>3, <3>2 DEF ControlInv, Linked
  <2>5. CASE b \in Finals /\ b # 117 /\ ~ctl.overflow /\ ~IsDecMode(ctl.buffer, b)
    <3>1. stacks' = stacks
      BY <1>2, <1>10, <2>5
    <3> HIDE DEF r
    <3>2. /\ IsParser(r.ctl) /\ IsModes(r.modes) /\ InStep(r.ctl, w)
          /\ ~(b \in {Set, Reset} /\ Moded(ctl.buffer)
               /\ \E i \in DOMAIN ctl.buffer : IsScreenMode(ctl.buffer, i))
               => Linked(r.ctl, r.modes, w, stacks)
      BY <1>1, <1>10, <2>1, <2>5, CsiPassed
    <3>3. ~Oddly(b) => Stays
      BY <1>10, <2>5, <3>1, <3>2 DEF Oddly
    <3>4. QED
      BY <1>2, <1>3, <3>2, <3>3 DEF ControlInv, Linked
  <2>6. QED
    BY <2>2, <2>3, <2>4, <2>5
<1>11. CASE ctl.mode = "osc" /\ b # CAN
  <2>1. r = InOsc(ctl, modes, b, titled) /\ stacks' = stacks
    BY <1>2, <1>11, InterceptByteIs
  <2> HIDE DEF r
  <2>2. Stays
    BY <1>1, <1>11, <2>1, OscStep
  <2>3. QED
    BY <1>2, <1>3, <2>2 DEF ControlInv, Linked
<1>12. CASE ctl.mode \in {"string", "stringescape"} /\ b # CAN
  <2>1. r = InString(ctl, modes, b) /\ stacks' = stacks
    BY <1>2, <1>12, InterceptByteIs
  <2> HIDE DEF r
  <2>2. Stays
    BY <1>1, <1>12, <2>1, StringStep
  <2>3. QED
    BY <1>2, <1>3, <2>2 DEF ControlInv, Linked
<1>13. QED
  BY <1>4, <1>5, <1>6, <1>7, <1>8, <1>9, <1>10, <1>11, <1>12 DEF ParserModes

\* The initial state satisfies the invariant.
LEMMA ControlInitInv == ControlInit => ControlInv
<1> SUFFICES ASSUME ControlInit
             PROVE  ControlInv
  OBVIOUS
<1> DEFINE none == [on \in BOOLEAN |-> <<>>]
<1>1. ctl.mode = "ground" /\ ctl.buffer = <<>> /\ modes = NoModes /\ seen = Blank /\ stacks = none
  BY DEF ControlInit
<1>2. IsParser(ctl)
  BY <1>1, HeldNone DEF IsParser, ParserModes
<1>3. IsModes(NoModes) /\ Agree(NoModes, Blank)
  BY DEF IsModes, NoModes, Agree, Blank
<1>4. InStep(ctl, Blank)
  BY <1>1 DEF InStep, IsScreen, Parsing, Blank
<1>5. Stacked(NoModes, none)
  <2>1. NoModes.kitty = <<>> /\ NoModes.inactive = <<>> /\ NoModes.alt = FALSE
    BY DEF NoModes
  <2>2. none[FALSE] = <<>> /\ none[TRUE] = <<>> /\ (~FALSE) = TRUE
    OBVIOUS
  <2> HIDE DEF none
  <2>3. QED
    BY <2>1, <2>2 DEF Stacked
<1>6. DOMAIN none = BOOLEAN
  OBVIOUS
<1> HIDE DEF none
<1>7. QED
  BY <1>1, <1>2, <1>3, <1>4, <1>5, <1>6 DEF ControlInv, Bond

\* Every step keeps it.
LEMMA ControlStepInv == ControlInv /\ [ControlNext]_controlVars => ControlInv'
<1> SUFFICES ASSUME ControlInv, [ControlNext]_controlVars
             PROVE  ControlInv'
  OBVIOUS
<1>1. ASSUME NEW b \in Bytes \cup {Num(n) : n \in Numbers}, NEW titled, ReadByte(b, titled)
      PROVE  ControlInv'
  <2>1. b \in Nat
    <3>1. CASE b \in Bytes
      BY <3>1, ControlAssumption
    <3>2. ASSUME NEW n \in Numbers, b = Num(n)
          PROVE  b \in Nat
      <4>1. n \in Nat
        BY ControlAssumption
      <4>2. QED
        BY <3>2, <4>1 DEF Num
    <3>3. QED
      BY <3>1, <3>2
  <2>2. QED
    BY <1>1, <2>1, ReadByteInv
<1>2. CASE UNCHANGED controlVars
  BY <1>2 DEF controlVars, ControlInv
<1>3. QED
  BY <1>1, <1>2 DEF ControlNext

\* Whatever bytes a pane's program writes and wherever it breaks off, the
\* interceptor of pane.rs and the vt100 parser behind it stay in step.
THEOREM ParsersStayInStep == ControlSpec => []ParsersAgree
<1>1. ControlInv => ParsersAgree
  <2> SUFFICES ASSUME ControlInv
               PROVE  ParsersAgree
    OBVIOUS
  <2>1. seen.mode = IF ctl.mode = "intermediate" THEN "intermediate" ELSE "ground"
    BY DEF ControlInv, InStep
  <2>2. ~odd => modes.alt = seen.alt /\ modes.paste = seen.paste /\ modes.mouse = seen.mouse
                /\ modes.kitty = stacks[seen.alt]
    BY DEF ControlInv, Bond, Agree, Stacked
  <2>3. QED
    BY <2>1, <2>2 DEF ParsersAgree
<1>2. QED
  BY <1>1, ControlInitInv, ControlStepInv, PTL DEF ControlSpec

-----------------------------------------------------------------------------
(* The emulator: rows of cells.                                            *)

\* One element more in the middle of a sequence.
LEMMA InsertAtIs ==
    ASSUME NEW s, IsSeq(s), NEW k \in 1 .. Len(s) + 1, NEW e
    PROVE  LET u == InsertAt(s, k, e) IN
           /\ IsSeq(u) /\ Len(u) = Len(s) + 1 /\ DOMAIN u = 1 .. Len(u)
           /\ \A j \in 1 .. Len(u) : u[j] = IF j < k THEN s[j] ELSE IF j = k THEN e ELSE s[j - 1]
<1> DEFINE a == SubSeq(s, 1, k - 1)
           b == SubSeq(s, k, Len(s))
           n == Len(s)
<1>1. n \in Nat /\ k \in 1 .. n + 1
  BY IsSeqDomain
<1>2. /\ IsSeq(a) /\ Len(a) = k - 1 /\ \A j \in 1 .. k - 1 : a[j] = s[j]
  <2>1. 1 \in Nat \ {0} /\ k - 1 \in Nat /\ k - 1 <= Len(s)
    BY <1>1
  <2>2. /\ IsSeq(a) /\ Len(a) = (IF 1 <= k - 1 THEN (k - 1) - 1 + 1 ELSE 0)
        /\ \A j \in 1 .. Len(a) : a[j] = s[1 + j - 1]
    BY <2>1, IsSeqSub
  <2> HIDE DEF a
  <2>3. QED
    BY <1>1, <2>2
<1>3. /\ IsSeq(b) /\ Len(b) = n - k + 1 /\ \A j \in 1 .. n - k + 1 : b[j] = s[k + j - 1]
  <2>1. k \in Nat \ {0} /\ Len(s) \in Nat /\ Len(s) <= Len(s)
    BY <1>1
  <2>2. /\ IsSeq(b) /\ Len(b) = (IF k <= n THEN n - k + 1 ELSE 0)
        /\ \A j \in 1 .. Len(b) : b[j] = s[k + j - 1]
    BY <2>1, IsSeqSub
  <2> HIDE DEF b, n
  <2>3. QED
    BY <1>1, <2>2
<1>4. IsSeq(<<e>>) /\ Len(<<e>>) = 1 /\ <<e>>[1] = e
  <2>1. <<e>> = [i \in 1 .. 1 |-> <<e>>[i]]
    OBVIOUS
  <2>2. QED
    BY <2>1, IsSeqFun
<1>5. InsertAt(s, k, e) = (a \o <<e>>) \o b
  BY DEF InsertAt
<1> HIDE DEF a, b
<1> DEFINE c == a \o <<e>>
<1>6. /\ IsSeq(c) /\ Len(c) = k /\ \A j \in 1 .. k : c[j] = IF j < k THEN s[j] ELSE e
  <2>1. /\ IsSeq(c) /\ Len(c) = Len(a) + 1
        /\ \A j \in 1 .. Len(a) + 1 : c[j] = IF j <= Len(a) THEN a[j] ELSE <<e>>[j - Len(a)]
    BY <1>2, <1>4, IsSeqConcat
  <2> HIDE DEF c
  <2>2. QED
    BY <1>1, <1>2, <1>4, <2>1
<1> HIDE DEF c
<1>7. /\ IsSeq(c \o b) /\ Len(c \o b) = Len(c) + Len(b) /\ DOMAIN (c \o b) = 1 .. Len(c) + Len(b)
      /\ \A j \in 1 .. Len(c) + Len(b) : (c \o b)[j] = IF j <= Len(c) THEN c[j] ELSE b[j - Len(c)]
  BY <1>3, <1>6, IsSeqConcat
<1> DEFINE u == c \o b
<1>8. ASSUME NEW j \in 1 .. n + 1
      PROVE  u[j] = IF j < k THEN s[j] ELSE IF j = k THEN e ELSE s[j - 1]
  <2>1. Len(c) = k /\ Len(b) = n - k + 1 /\ j \in 1 .. Len(c) + Len(b)
    BY <1>1, <1>3, <1>6
  <2>2. u[j] = IF j <= k THEN c[j] ELSE b[j - k]
    BY <1>7, <2>1
  <2> HIDE DEF u
  <2>3. CASE j <= k
    BY <1>1, <1>6, <2>2, <2>3
  <2>4. CASE j > k
    <3>1. j - k \in 1 .. n - k + 1 /\ k + (j - k) - 1 = j - 1
      BY <1>1, <2>4
    <3>2. QED
      BY <1>1, <1>3, <2>2, <2>4, <3>1
  <2>5. QED
    BY <1>1, <2>3, <2>4
<1>9. InsertAt(s, k, e) = u
  BY <1>5 DEF c
<1>10. Len(u) = n + 1
  BY <1>1, <1>3, <1>6, <1>7
<1>11. DOMAIN u = 1 .. Len(u) /\ IsSeq(u)
  BY <1>7
<1> HIDE DEF u
<1>12. QED
  BY <1>8, <1>9, <1>10, <1>11 DEF n

\* One element less in the middle of a sequence.
LEMMA RemoveAtIs ==
    ASSUME NEW s, IsSeq(s), NEW k \in 1 .. Len(s)
    PROVE  LET u == RemoveAt(s, k) IN
           /\ IsSeq(u) /\ Len(u) = Len(s) - 1 /\ DOMAIN u = 1 .. Len(u)
           /\ \A j \in 1 .. Len(u) : u[j] = IF j < k THEN s[j] ELSE s[j + 1]
<1> DEFINE a == SubSeq(s, 1, k - 1)
           b == SubSeq(s, k + 1, Len(s))
           n == Len(s)
<1>1. n \in Nat /\ k \in 1 .. n
  BY IsSeqDomain
<1>2. /\ IsSeq(a) /\ Len(a) = k - 1 /\ \A j \in 1 .. k - 1 : a[j] = s[j]
  <2>1. 1 \in Nat \ {0} /\ k - 1 \in Nat /\ k - 1 <= Len(s)
    BY <1>1
  <2>2. /\ IsSeq(a) /\ Len(a) = (IF 1 <= k - 1 THEN (k - 1) - 1 + 1 ELSE 0)
        /\ \A j \in 1 .. Len(a) : a[j] = s[1 + j - 1]
    BY <2>1, IsSeqSub
  <2> HIDE DEF a
  <2>3. QED
    BY <1>1, <2>2
<1>3. /\ IsSeq(b) /\ Len(b) = n - k /\ \A j \in 1 .. n - k : b[j] = s[k + j]
  <2>1. k + 1 \in Nat \ {0} /\ Len(s) \in Nat /\ Len(s) <= Len(s)
    BY <1>1
  <2>2. /\ IsSeq(b) /\ Len(b) = (IF k + 1 <= n THEN n - (k + 1) + 1 ELSE 0)
        /\ \A j \in 1 .. Len(b) : b[j] = s[(k + 1) + j - 1]
    BY <2>1, IsSeqSub
  <2> HIDE DEF b, n
  <2>3. QED
    BY <1>1, <2>2
<1>4. RemoveAt(s, k) = a \o b
  BY DEF RemoveAt
<1> HIDE DEF a, b
<1> DEFINE u == a \o b
<1>5. /\ IsSeq(u) /\ Len(u) = Len(a) + Len(b) /\ DOMAIN u = 1 .. Len(a) + Len(b)
      /\ \A j \in 1 .. Len(a) + Len(b) : u[j] = IF j <= Len(a) THEN a[j] ELSE b[j - Len(a)]
  BY <1>2, <1>3, IsSeqConcat
<1>6. Len(u) = n - 1
  BY <1>1, <1>2, <1>3, <1>5
<1>7. ASSUME NEW j \in 1 .. n - 1
      PROVE  u[j] = IF j < k THEN s[j] ELSE s[j + 1]
  <2>1. u[j] = IF j <= k - 1 THEN a[j] ELSE b[j - (k - 1)]
    BY <1>1, <1>2, <1>3, <1>5
  <2> HIDE DEF u
  <2>2. CASE j < k
    BY <1>1, <1>2, <2>1, <2>2
  <2>3. CASE j >= k
    <3>1. j - (k - 1) \in 1 .. n - k /\ k + (j - (k - 1)) = j + 1 /\ ~(j <= k - 1)
      BY <1>1, <2>3
    <3>2. QED
      BY <1>1, <1>3, <2>1, <2>3, <3>1
  <2>4. QED
    BY <1>1, <2>2, <2>3
<1>8. RemoveAt(s, k) = u /\ IsSeq(u) /\ DOMAIN u = 1 .. Len(u)
  BY <1>4, <1>5
<1> HIDE DEF u
<1>9. QED
  BY <1>6, <1>7, <1>8 DEF n

-----------------------------------------------------------------------------
(* Rows of cells.                                                          *)

CellFields == {"text", "wide", "cont", "attrs"}

\* A cell is at most one half of a wide character.
IsCell(c) == DOMAIN c = CellFields /\ c.wide \in BOOLEAN /\ c.cont \in BOOLEAN /\ ~(c.wide /\ c.cont)
Plain(c) == IsCell(c) /\ ~c.wide /\ ~c.cont
AreCells(c) == IsSeq(c) /\ \A i \in 1 .. Len(c) : IsCell(c[i])

\* The halves of wide characters are together, but for what is at place p.
PairedBut(c, p) ==
    \A i \in 1 .. Len(c) : i # p =>
        /\ c[i].wide => i < Len(c) /\ i + 1 # p /\ c[i + 1].cont
        /\ c[i].cont => i > 1 /\ i - 1 # p /\ c[i - 1].wide

IsRow(r) == DOMAIN r = {"cells", "wrapped"} /\ AreCells(r.cells) /\ Paired(r.cells)
RowOf(r, n) == IsRow(r) /\ Len(r.cells) = n

\* With nothing left out.
LEMMA PairedIs ==
    ASSUME NEW c, AreCells(c)
    PROVE  Paired(c) <=> \A i \in 1 .. Len(c) :
             /\ c[i].wide => i < Len(c) /\ c[i + 1].cont
             /\ c[i].cont => i > 1 /\ c[i - 1].wide
BY IsSeqDomain DEF AreCells, Paired

\* Cells without a wide character.
LEMMA ClearIs ==
    ASSUME NEW a
    PROVE  Plain(CellClear(a))
BY DEF Plain, IsCell, CellClear, CellFields

\* A cell that was never written is half of nothing.
LEMMA NewIs == Plain(CellNew)
BY ClearIs DEF CellNew

\* Cells of which none is half of a wide character are paired.
LEMMA PlainPaired ==
    ASSUME NEW c, IsSeq(c), \A i \in 1 .. Len(c) : Plain(c[i])
    PROVE  AreCells(c) /\ Paired(c)
<1>1. AreCells(c)
  BY DEF AreCells, Plain
<1>2. Paired(c)
  BY <1>1, PairedIs DEF Plain
<1>3. QED
  BY <1>1, <1>2

\* One cell set anew.
LEMMA SetCell ==
    ASSUME NEW c, AreCells(c), NEW p \in 1 .. Len(c), NEW x, IsCell(x)
    PROVE  LET u == [c EXCEPT ![p] = x] IN
           /\ AreCells(u) /\ Len(u) = Len(c) /\ u[p] = x
           /\ \A i \in 1 .. Len(c) : i # p => u[i] = c[i]
<1> DEFINE u == [c EXCEPT ![p] = x]
<1>1. /\ IsSeq(u) /\ Len(u) = Len(c) /\ u[p] = x
      /\ \A i \in 1 .. Len(c) : i # p => u[i] = c[i]
  BY IsSeqSet DEF AreCells
<1> HIDE DEF u
<1>2. AreCells(u)
  BY <1>1 DEF AreCells
<1>3. QED
  BY <1>1, <1>2 DEF u

\* A plain cell where the pairing was open closes it.
LEMMA SetFree ==
    ASSUME NEW c, AreCells(c), NEW p \in 1 .. Len(c), PairedBut(c, p), NEW x, Plain(x)
    PROVE  LET u == [c EXCEPT ![p] = x] IN AreCells(u) /\ Paired(u) /\ Len(u) = Len(c) /\ u[p] = x
<1> DEFINE u == [c EXCEPT ![p] = x]
           n == Len(c)
<1>1. n \in Nat
  BY IsSeqDomain DEF AreCells
<1>2. AreCells(u) /\ Len(u) = n /\ u[p] = x /\ \A i \in 1 .. n : i # p => u[i] = c[i]
  BY SetCell DEF Plain
<1> HIDE DEF u, n
<1>3. ASSUME NEW i \in 1 .. n
      PROVE  /\ u[i].wide => i < n /\ u[i + 1].cont
             /\ u[i].cont => i > 1 /\ u[i - 1].wide
  <2>1. CASE i = p
    BY <1>2, <2>1 DEF Plain
  <2>2. CASE i # p
    <3>1. /\ c[i].wide => i < n /\ i + 1 # p /\ c[i + 1].cont
          /\ c[i].cont => i > 1 /\ i - 1 # p /\ c[i - 1].wide
      BY <2>2 DEF PairedBut, n
    <3>2. u[i] = c[i]
      BY <1>2, <2>2
    <3>3. i < n /\ i + 1 # p => u[i + 1] = c[i + 1]
      BY <1>1, <1>2
    <3>4. i > 1 /\ i - 1 # p => u[i - 1] = c[i - 1]
      BY <1>1, <1>2
    <3>5. QED
      BY <3>1, <3>2, <3>3, <3>4
  <2>3. QED
    BY <2>1, <2>2
<1>4. Paired(u)
  BY <1>2, <1>3, PairedIs
<1>5. QED
  BY <1>2, <1>4 DEF u, n

\* So does taking that place away.
LEMMA RemoveFree ==
    ASSUME NEW c, AreCells(c), NEW p \in 1 .. Len(c), PairedBut(c, p)
    PROVE  LET u == RemoveAt(c, p) IN AreCells(u) /\ Paired(u) /\ Len(u) = Len(c) - 1
<1> DEFINE u == RemoveAt(c, p)
           n == Len(c)
<1>1. n \in Nat /\ p \in 1 .. n
  BY IsSeqDomain DEF AreCells
<1>2. /\ IsSeq(u) /\ Len(u) = n - 1
      /\ \A j \in 1 .. n - 1 : u[j] = IF j < p THEN c[j] ELSE c[j + 1]
  BY RemoveAtIs DEF AreCells
<1>3. \A i \in 1 .. n : IsCell(c[i])
  BY DEF AreCells
<1>4. \A i \in 1 .. n : i # p =>
        /\ c[i].wide => i < n /\ i + 1 # p /\ c[i + 1].cont
        /\ c[i].cont => i > 1 /\ i - 1 # p /\ c[i - 1].wide
  BY DEF PairedBut
<1> HIDE DEF u, n
<1>5. ASSUME NEW j \in 1 .. n - 1
      PROVE  IsCell(u[j]) /\ (u[j].wide => j < n - 1 /\ u[j + 1].cont) /\ (u[j].cont => j > 1 /\ u[j - 1].wide)
  <2>1. CASE j < p
    <3>1. u[j] = c[j] /\ j \in 1 .. n /\ j # p
      BY <1>1, <1>2, <2>1
    <3>2. j + 1 # p => (j + 1 < p /\ (j < n - 1 => u[j + 1] = c[j + 1]))
      BY <1>1, <1>2, <2>1
    <3>3. j > 1 => u[j - 1] = c[j - 1]
      BY <1>1, <1>2, <2>1
    <3>4. j + 1 # p => j < n - 1
      BY <1>1, <2>1
    <3>5. QED
      BY <1>3, <1>4, <3>1, <3>2, <3>3, <3>4
  <2>2. CASE j >= p
    <3>1. u[j] = c[j + 1] /\ j + 1 \in 1 .. n /\ j + 1 # p
      BY <1>1, <1>2, <2>2
    <3>2. j + 1 < n => j < n - 1 /\ u[j + 1] = c[(j + 1) + 1]
      BY <1>1, <1>2, <2>2
    <3>3. (j + 1) - 1 # p => j > 1 /\ u[j - 1] = c[(j + 1) - 1]
      BY <1>1, <1>2, <2>2
    <3>4. QED
      BY <1>3, <1>4, <3>1, <3>2, <3>3
  <2>3. QED
    BY <1>1, <2>1, <2>2
<1>6. AreCells(u)
  BY <1>2, <1>5 DEF AreCells
<1>7. Paired(u)
  BY <1>2, <1>5, <1>6, PairedIs
<1>8. QED
  BY <1>2, <1>6, <1>7 DEF u, n

\* clear_wide frees one place of its partner and leaves the other pairs alone.
LEMMA ClearWideIs ==
    ASSUME NEW r, IsRow(r), NEW i \in 0 .. Len(r.cells) - 1
    PROVE  LET u == ClearWide(r, i) IN
           /\ AreCells(u.cells) /\ Len(u.cells) = Len(r.cells) /\ PairedBut(u.cells, i + 1)
<1> DEFINE c == r.cells
           n == Len(c)
           p == i + 1
           u == ClearWide(r, i)
<1>1. /\ n \in Nat /\ p \in 1 .. n /\ AreCells(c) /\ DOMAIN r = {"cells", "wrapped"}
      /\ \A k \in 1 .. n : IsCell(c[k])
  BY IsSeqDomain DEF IsRow, AreCells
<1>2. \A k \in 1 .. n : /\ c[k].wide => k < n /\ c[k + 1].cont
                        /\ c[k].cont => k > 1 /\ c[k - 1].wide
  BY PairedIs DEF IsRow
<1> DEFINE o == IF c[p].wide THEN p + 1 ELSE p - 1
           x == CellClear(c[o].attrs)
<1>3. CASE ~c[p].wide /\ ~c[p].cont
  <2>1. u = r
    BY <1>3 DEF ClearWide
  <2> HIDE DEF u
  <2>2. PairedBut(c, p)
    <3> HIDE DEF c, n, p
    <3>1. ASSUME NEW k \in 1 .. n, k # p
          PROVE  /\ c[k].wide => k < n /\ k + 1 # p /\ c[k + 1].cont
                 /\ c[k].cont => k > 1 /\ k - 1 # p /\ c[k - 1].wide
      BY <1>1, <1>2, <1>3, <3>1
    <3>2. QED
      BY <3>1 DEF PairedBut, n
  <2>3. QED
    BY <1>1, <2>1, <2>2 DEF u
<1>4. CASE c[p].wide \/ c[p].cont
  <2>1. o \in 1 .. n
    <3> HIDE DEF c, n, p
    <3> QED
      BY <1>1, <1>2, <1>4
  <2>2. u = [r EXCEPT !.cells = [c EXCEPT ![o] = x]]
    <3>1. o - 1 = (IF c[p].wide THEN i + 1 ELSE IF c[p].cont THEN i - 1 ELSE -1) /\ (o - 1) + 1 = o
      BY <1>4
    <3>2. ~(i >= n) /\ o - 1 \in 0 .. n - 1
      BY <1>1, <2>1
    <3>3. QED
      BY <3>1, <3>2 DEF ClearWide
  <2> DEFINE v == [c EXCEPT ![o] = x]
  <2>3. u.cells = v
    BY <1>1, <2>2
  <2>4. Plain(x)
    BY ClearIs
  <2> HIDE DEF x, u
  <2>5. AreCells(v) /\ Len(v) = n /\ v[o] = x /\ \A k \in 1 .. n : k # o => v[k] = c[k]
    BY <1>1, <2>1, <2>4, SetCell DEF Plain
  <2> HIDE DEF v
  <2>6. ASSUME NEW k \in 1 .. n, k # p
        PROVE  /\ v[k].wide => k < n /\ k + 1 # p /\ v[k + 1].cont
               /\ v[k].cont => k > 1 /\ k - 1 # p /\ v[k - 1].wide
    <3>1. CASE k = o
      BY <2>4, <2>5, <3>1 DEF Plain
    <3>2. CASE k # o
      <4>1. v[k] = c[k]
        BY <2>5, <3>2
      <4> HIDE DEF c, n, p
      <4>2. ASSUME c[k].wide
            PROVE  k < n /\ k + 1 # p /\ k + 1 # o /\ c[k + 1].cont
        <5>1. k < n /\ c[k + 1].cont /\ k + 1 \in 1 .. n
          BY <1>1, <1>2, <4>2
        <5>2. ~c[k + 1].wide
          BY <1>1, <5>1 DEF IsCell
        <5>3. k + 1 # p
          BY <1>1, <3>2, <5>1, <5>2
        <5>4. k + 1 # o
          <6>1. CASE c[p].wide
            BY <1>1, <2>6, <6>1
          <6>2. CASE ~c[p].wide
            <7>1. c[p].cont /\ c[p - 1].wide
              BY <1>1, <1>2, <1>4, <6>2
            <7>2. QED
              BY <5>2, <6>2, <7>1
          <6>3. QED
            BY <6>1, <6>2
        <5>5. QED
          BY <5>1, <5>3, <5>4
      <4>3. ASSUME c[k].cont
            PROVE  k > 1 /\ k - 1 # p /\ k - 1 # o /\ c[k - 1].wide
        <5>1. k > 1 /\ c[k - 1].wide /\ k - 1 \in 1 .. n
          BY <1>1, <1>2, <4>3
        <5>2. ~c[k - 1].cont
          BY <1>1, <5>1 DEF IsCell
        <5>3. k - 1 # p
          BY <1>1, <3>2, <5>1, <5>2
        <5>4. k - 1 # o
          <6>1. CASE c[p].wide
            <7>1. c[p + 1].cont
              BY <1>1, <1>2, <6>1
            <7>2. QED
              BY <5>2, <6>1, <7>1
          <6>2. CASE ~c[p].wide
            BY <1>1, <2>6, <6>2
          <6>3. QED
            BY <6>1, <6>2
        <5>5. QED
          BY <5>1, <5>3, <5>4
      <4> HIDE DEF o
      <4>4. k < n /\ k + 1 # o => v[k + 1] = c[k + 1]
        BY <1>1, <2>5
      <4>5. k > 1 /\ k - 1 # o => v[k - 1] = c[k - 1]
        BY <1>1, <2>5
      <4>6. QED
        BY <4>1, <4>2, <4>3, <4>4, <4>5
    <3>3. QED
      BY <3>1, <3>2
  <2>7. PairedBut(v, p)
    BY <2>5, <2>6 DEF PairedBut
  <2>8. QED
    BY <2>3, <2>5, <2>7 DEF u
<1>5. QED
  BY <1>3, <1>4 DEF u

\* What erasing cells one after the other goes through.
ErasedBy(f, n, r, from, a) ==
    f = [k \in 0 .. n |-> IF k = 0 THEN r ELSE RowErase(f[k - 1], from + k - 1, a)]

\* Erasing ends.
LEMMA EraseRuns ==
    ASSUME NEW n \in Nat, NEW r, NEW from \in Nat, NEW a
    PROVE  \E f : ErasedBy(f, n, r, from, a)
<1> DEFINE S == {m \in Nat : \E f : ErasedBy(f, m, r, from, a)}
<1>1. 0 \in S
  <2> DEFINE g == [k \in 0 .. 0 |-> r]
  <2>1. \A k \in 0 .. 0 : k = 0
    OBVIOUS
  <2>2. g = [k \in 0 .. 0 |-> IF k = 0 THEN r ELSE RowErase(g[k - 1], from + k - 1, a)]
    BY <2>1
  <2>3. ErasedBy(g, 0, r, from, a)
    BY <2>2 DEF ErasedBy
  <2> HIDE DEF g
  <2>4. QED
    BY <2>3
<1>2. ASSUME NEW m \in S
      PROVE  m + 1 \in S
  <2>1. PICK f : ErasedBy(f, m, r, from, a)
    OBVIOUS
  <2> DEFINE Next1(k) == IF k <= m THEN f[k] ELSE RowErase(f[m], from + m + 1 - 1, a)
             g == [k \in 0 .. m + 1 |-> Next1(k)]
  <2>2. ASSUME NEW k \in 0 .. m + 1
        PROVE  Next1(k) = IF k = 0 THEN r ELSE RowErase(g[k - 1], from + k - 1, a)
    <3>1. m \in Nat
      OBVIOUS
    <3>2. CASE k = 0
      BY <2>1, <3>1, <3>2 DEF ErasedBy
    <3>3. CASE k # 0 /\ k <= m
      <4>1. k \in 0 .. m /\ k - 1 \in 0 .. m + 1 /\ k - 1 <= m
        BY <3>1, <3>3
      <4>2. f[k] = RowErase(f[k - 1], from + k - 1, a)
        BY <2>1, <3>3, <4>1 DEF ErasedBy
      <4>3. g[k - 1] = f[k - 1]
        BY <4>1
      <4>4. QED
        BY <3>3, <4>2, <4>3
    <3>4. CASE k = m + 1
      <4>1. k - 1 = m /\ m \in 0 .. m + 1 /\ ~(k <= m) /\ k # 0
        BY <3>1, <3>4
      <4>2. g[m] = f[m]
        BY <3>1, <4>1
      <4>3. QED
        BY <3>4, <4>1, <4>2
    <3>5. QED
      BY <3>1, <3>2, <3>3, <3>4
  <2>3. g = [k \in 0 .. m + 1 |-> IF k = 0 THEN r ELSE RowErase(g[k - 1], from + k - 1, a)]
    BY <2>2
  <2> HIDE DEF g
  <2>4. ErasedBy(g, m + 1, r, from, a)
    BY <2>3 DEF ErasedBy
  <2>5. QED
    BY <2>4
<1> HIDE DEF S
<1>3. S \in SUBSET Nat
  BY DEF S
<1>4. n \in S
  BY <1>1, <1>2, <1>3, Induction
<1>5. QED
  BY <1>4 DEF S

\* A record of cells and a flag.
LEMMA RowFields ==
    ASSUME NEW c, NEW w
    PROVE  LET r == [cells |-> c, wrapped |-> w] IN
           /\ DOMAIN r = {"cells", "wrapped"} /\ r.cells = c /\ r.wrapped = w
           /\ IsRow(r) <=> AreCells(c) /\ Paired(c)
BY DEF IsRow

\* New and cleared rows are blank.
LEMMA RowNewIs ==
    ASSUME NEW n \in Nat
    PROVE  RowOf(RowNew(n), n)
<1> DEFINE c == [i \in 1 .. n |-> CellNew]
<1>1. IsSeq(c) /\ Len(c) = n /\ \A i \in 1 .. n : Plain(c[i])
  BY IsSeqFun, NewIs
<1>2. RowNew(n) = [cells |-> c, wrapped |-> FALSE]
  BY DEF RowNew
<1> HIDE DEF c
<1>3. AreCells(c) /\ Paired(c)
  BY <1>1, PlainPaired
<1>4. QED
  BY <1>1, <1>2, <1>3, RowFields DEF RowOf

\* A cleared row keeps its width and has no wide character left.
LEMMA RowClearIs ==
    ASSUME NEW r, IsRow(r), NEW a
    PROVE  RowOf(RowClear(r, a), Len(r.cells))
<1> DEFINE n == Len(r.cells)
           c == [i \in DOMAIN r.cells |-> CellClear(a)]
<1>1. n \in Nat /\ DOMAIN r.cells = 1 .. n
  BY IsSeqDomain DEF IsRow, AreCells
<1>2. IsSeq(c) /\ Len(c) = n /\ \A i \in 1 .. n : Plain(c[i])
  <2> HIDE DEF n
  <2>1. c = [i \in 1 .. n |-> c[i]] /\ \A i \in 1 .. n : c[i] = CellClear(a)
    BY <1>1
  <2> HIDE DEF c
  <2>2. QED
    BY <1>1, <2>1, IsSeqFun, ClearIs
<1>3. RowClear(r, a) = [cells |-> c, wrapped |-> FALSE]
  BY DEF RowClear
<1> HIDE DEF c, n
<1>4. AreCells(c) /\ Paired(c)
  BY <1>2, PlainPaired
<1>5. QED
  BY <1>2, <1>3, <1>4, RowFields DEF RowOf, n

\* Only the flag of a row set.
LEMMA WrapIs ==
    ASSUME NEW r, IsRow(r), NEW w
    PROVE  IsRow(Wrap(r, w)) /\ Wrap(r, w).cells = r.cells
BY DEF Wrap, IsRow

\* Row::erase keeps the pairing: it blanks the other half too.
LEMMA RowEraseIs ==
    ASSUME NEW r, IsRow(r), NEW i \in 0 .. Len(r.cells) - 1, NEW a
    PROVE  RowOf(RowErase(r, i, a), Len(r.cells))
<1> DEFINE c == ClearWide(r, i).cells
           u == [c EXCEPT ![i + 1] = CellClear(a)]
           n == Len(r.cells)
<1>1. n \in Nat
  BY IsSeqDomain DEF IsRow, AreCells
<1>2. AreCells(c) /\ Len(c) = n /\ PairedBut(c, i + 1)
  BY ClearWideIs
<1>3. PICK w : RowErase(r, i, a) = [cells |-> u, wrapped |-> w]
  BY DEF RowErase
<1>4. i + 1 \in 1 .. n
  BY <1>1
<1> HIDE DEF c, n
<1>5. AreCells(u) /\ Paired(u) /\ Len(u) = n
  BY <1>2, <1>4, ClearIs, SetFree
<1> HIDE DEF u
<1>6. QED
  BY <1>3, <1>5, RowFields DEF RowOf, n

\* Erasing several of its cells.
LEMMA RowEraseColsIs ==
    ASSUME NEW r, IsRow(r), NEW from \in Nat, NEW to \in Nat, to <= Len(r.cells), NEW a
    PROVE  RowOf(RowEraseCols(r, from, to, a), Len(r.cells))
<1> DEFINE n == Sat(to - from)
           l == Len(r.cells)
           F == CHOOSE f : ErasedBy(f, n, r, from, a)
           T == {m \in Nat : m <= n => RowOf(F[m], l)}
<1>1. n \in Nat /\ \A m \in Nat : m < n => from + m < to
  BY DEF Sat
<1>2. l \in Nat /\ to <= l
  BY IsSeqDomain DEF IsRow, AreCells
<1>3. RowEraseCols(r, from, to, a) = F[n]
  BY DEF RowEraseCols, ErasedBy
<1> HIDE DEF n
<1>4. ErasedBy(F, n, r, from, a)
  BY <1>1, EraseRuns
<1> HIDE DEF F
<1>5. F[0] = r
  BY <1>1, <1>4 DEF ErasedBy
<1>6. 0 \in T
  BY <1>5 DEF RowOf
<1>7. ASSUME NEW m \in T
      PROVE  m + 1 \in T
  <2>1. SUFFICES ASSUME m + 1 <= n
                 PROVE  RowOf(F[m + 1], l)
    OBVIOUS
  <2>2. m \in Nat /\ RowOf(F[m], l) /\ m + 1 \in 0 .. n /\ m + 1 # 0 /\ (m + 1) - 1 = m
    BY <1>1, <2>1
  <2>3. F[m + 1] = RowErase(F[m], from + (m + 1) - 1, a)
    BY <1>4, <2>2 DEF ErasedBy
  <2> HIDE DEF l, T
  <2>4. from + (m + 1) - 1 \in 0 .. l - 1
    <3>1. from + m < to
      BY <1>1, <2>1, <2>2
    <3>2. QED
      BY <1>2, <2>2, <3>1
  <2>5. QED
    BY <2>2, <2>3, <2>4, RowEraseIs DEF RowOf
<1> HIDE DEF T
<1>8. T \in SUBSET Nat
  BY DEF T
<1>9. n \in T
  BY <1>1, <1>6, <1>7, <1>8, Induction
<1>10. QED
  BY <1>3, <1>9 DEF T, l

\* Row::truncate cuts off a half and clears the one that stays.
LEMMA RowTruncateIs ==
    ASSUME NEW r, IsRow(r), NEW n \in Nat, n <= Len(r.cells)
    PROVE  RowOf(RowTruncate(r, n), n)
<1> DEFINE c == r.cells
           k == SubSeq(c, 1, n)
           u == IF n > 0 /\ k[n].wide THEN [k EXCEPT ![n] = CellClear(@.attrs)] ELSE k
<1>1. /\ AreCells(c) /\ Len(c) \in Nat
      /\ \A i \in 1 .. Len(c) : IsCell(c[i]) /\ (c[i].wide => i < Len(c) /\ c[i + 1].cont)
                                /\ (c[i].cont => i > 1 /\ c[i - 1].wide)
  BY PairedIs, IsSeqDomain DEF IsRow, AreCells
<1>2. IsSeq(k) /\ Len(k) = n /\ \A i \in 1 .. n : k[i] = c[i]
  <2>1. 1 \in Nat \ {0} /\ IsSeq(c) /\ n <= Len(c)
    BY <1>1 DEF AreCells
  <2> HIDE DEF c
  <2>2. /\ IsSeq(k) /\ Len(k) = (IF 1 <= n THEN n - 1 + 1 ELSE 0)
        /\ \A i \in 1 .. Len(k) : k[i] = c[1 + i - 1]
    BY <2>1, IsSeqSub
  <2> HIDE DEF k
  <2>3. QED
    BY <2>2
<1>3. RowTruncate(r, n) = [cells |-> u, wrapped |-> FALSE]
  BY DEF RowTruncate
<1> HIDE DEF k, c
<1>4. n <= Len(c)
  BY DEF c
<1>5. AreCells(k)
  BY <1>1, <1>2, <1>4 DEF AreCells
<1>6. CASE n > 0 /\ k[n].wide
  <2> DEFINE x == CellClear(k[n].attrs)
             v == [k EXCEPT ![n] = x]
  <2>1. u = v
    BY <1>6
  <2>2. Plain(x)
    BY ClearIs
  <2> HIDE DEF x
  <2>3. ASSUME NEW i \in 1 .. n, i # n
        PROVE  /\ k[i].wide => i < n /\ i + 1 # n /\ k[i + 1].cont
               /\ k[i].cont => i > 1 /\ i - 1 # n /\ k[i - 1].wide
    <3>1. i \in 1 .. Len(c) /\ i + 1 \in 1 .. n /\ n \in 1 .. Len(c)
      BY <1>1, <1>4, <2>3
    <3>2. k[i].wide => k[i + 1].cont
      BY <1>1, <1>2, <3>1
    <3>3. k[i].cont => i > 1 /\ k[i - 1].wide
      BY <1>1, <1>2, <3>1
    <3>4. ~k[n].cont
      BY <1>1, <1>2, <1>6, <3>1 DEF IsCell
    <3>5. QED
      BY <2>3, <3>1, <3>2, <3>3, <3>4
  <2>4. PairedBut(k, n)
    BY <1>2, <2>3 DEF PairedBut
  <2>5. n \in 1 .. Len(k)
    BY <1>2, <1>6
  <2>6. AreCells(v) /\ Paired(v) /\ Len(v) = n
    BY <1>2, <1>5, <2>2, <2>4, <2>5, SetFree
  <2> HIDE DEF v, u
  <2>7. QED
    BY <1>3, <2>1, <2>6, RowFields DEF RowOf
<1>7. CASE ~(n > 0 /\ k[n].wide)
  <2>1. u = k
    BY <1>7
  <2>2. ASSUME NEW i \in 1 .. n
        PROVE  /\ k[i].wide => i < n /\ k[i + 1].cont
               /\ k[i].cont => i > 1 /\ k[i - 1].wide
    <3>1. i \in 1 .. Len(c)
      BY <1>1, <1>4
    <3>2. k[i].wide => i # n
      BY <1>7
    <3>3. i # n => i + 1 \in 1 .. n
      OBVIOUS
    <3>4. i > 1 => i - 1 \in 1 .. n
      OBVIOUS
    <3>5. QED
      BY <1>1, <1>2, <3>1, <3>2, <3>3, <3>4
  <2>3. Paired(k)
    BY <1>2, <1>5, <2>2, PairedIs
  <2> HIDE DEF u
  <2>4. QED
    BY <1>2, <1>3, <1>5, <2>1, <2>3, RowFields DEF RowOf
<1>8. QED
  BY <1>6, <1>7

\* Row::resize, to either side.
LEMMA RowResizeIs ==
    ASSUME NEW r, IsRow(r), NEW n \in Nat
    PROVE  RowOf(RowResize(r, n), n)
<1> DEFINE c == r.cells
           l == Len(c)
           b == [i \in 1 .. n - l |-> CellNew]
           u == c \o b
<1>1. /\ AreCells(c) /\ IsSeq(c) /\ l \in Nat
      /\ \A i \in 1 .. l : IsCell(c[i]) /\ (c[i].wide => i < l /\ c[i + 1].cont)
                           /\ (c[i].cont => i > 1 /\ c[i - 1].wide)
  BY PairedIs, IsSeqDomain DEF IsRow, AreCells
<1>2. CASE n < l
  BY <1>2, RowTruncateIs DEF RowResize
<1>3. CASE ~(n < l)
  <2> HIDE DEF l
  <2>1. n - l \in Nat
    BY <1>1, <1>3
  <2>2. IsSeq(b) /\ Len(b) = n - l /\ \A i \in 1 .. n - l : Plain(b[i])
    BY <2>1, NewIs, IsSeqFun
  <2>3. RowResize(r, n) = [cells |-> u, wrapped |-> FALSE]
    BY <1>3 DEF RowResize, l
  <2> HIDE DEF b
  <2>4. /\ IsSeq(u) /\ Len(u) = l + Len(b)
        /\ \A i \in 1 .. l + Len(b) : u[i] = IF i <= l THEN c[i] ELSE b[i - l]
    BY <1>1, <2>2, IsSeqConcat DEF l
  <2> HIDE DEF u, c
  <2>5. Len(u) = n
    BY <1>1, <2>1, <2>2, <2>4
  <2>6. ASSUME NEW i \in 1 .. n
        PROVE  IsCell(u[i]) /\ (u[i].wide => i < n /\ u[i + 1].cont) /\ (u[i].cont => i > 1 /\ u[i - 1].wide)
    <3>1. CASE i <= l
      <4>1. u[i] = c[i] /\ i \in 1 .. l
        BY <1>1, <2>1, <2>2, <2>4, <3>1
      <4>2. i < l => i < n /\ u[i + 1] = c[i + 1]
        BY <1>1, <2>1, <2>2, <2>4, <3>1
      <4>3. i > 1 => u[i - 1] = c[i - 1]
        BY <1>1, <2>1, <2>2, <2>4, <3>1
      <4>4. QED
        BY <1>1, <4>1, <4>2, <4>3
    <3>2. CASE ~(i <= l)
      <4>1. i - l \in 1 .. n - l /\ u[i] = b[i - l]
        BY <1>1, <2>1, <2>2, <2>4, <3>2
      <4>2. QED
        BY <2>2, <4>1 DEF Plain
    <3>3. QED
      BY <3>1, <3>2
  <2>7. AreCells(u)
    BY <2>4, <2>5, <2>6 DEF AreCells
  <2>8. Paired(u)
    BY <2>5, <2>6, <2>7, PairedIs
  <2>9. QED
    BY <2>3, <2>5, <2>7, <2>8, RowFields DEF RowOf
<1>4. QED
  BY <1>2, <1>3

\* One blank inserted at column c: on a second half (half), as the new second half.
InsertOnce(r, half, c) ==
    IF half THEN RowInsert([r EXCEPT !.cells[c + 1].cont = FALSE], c, [CellNew EXCEPT !.cont = TRUE])
    ELSE RowInsert(r, c, CellNew)

\* It keeps the pairing, and whether the cell at c is a second half.
LEMMA InsertOnceIs ==
    ASSUME NEW r, IsRow(r), NEW c \in 0 .. Len(r.cells), NEW half \in BOOLEAN,
           half => c < Len(r.cells), c < Len(r.cells) => (half <=> r.cells[c + 1].cont)
    PROVE  LET u == InsertOnce(r, half, c) IN
           RowOf(u, Len(r.cells) + 1) /\ (half <=> u.cells[c + 1].cont)
<1> DEFINE d == r.cells
           n == Len(d)
           p == c + 1
<1>1. /\ AreCells(d) /\ IsSeq(d) /\ n \in Nat
      /\ \A i \in 1 .. n : IsCell(d[i]) /\ (d[i].wide => i < n /\ d[i + 1].cont)
                           /\ (d[i].cont => i > 1 /\ d[i - 1].wide)
  BY PairedIs, IsSeqDomain DEF IsRow, AreCells
<1>2. CASE half
  <2> DEFINE x == [d[p] EXCEPT !.cont = FALSE]
             y == [CellNew EXCEPT !.cont = TRUE]
             e == [d EXCEPT ![p] = x]
             u == InsertAt(e, p, y)
  <2>1. p \in 1 .. n /\ d[p].cont /\ ~d[p].wide /\ p > 1
    <3>1. p \in 1 .. n /\ d[p].cont
      BY <1>1, <1>2
    <3> HIDE DEF d, n, p
    <3>2. QED
      BY <1>1, <3>1 DEF IsCell
  <2>2. Plain(x)
    <3>1. DOMAIN d[p] = CellFields /\ d[p].wide = FALSE
      BY <1>1, <2>1 DEF IsCell
    <3> HIDE DEF d, n, p
    <3>2. QED
      BY <3>1 DEF Plain, IsCell, CellFields
  <2>3. IsCell(y) /\ y.cont /\ ~y.wide
    BY DEF CellNew, CellClear, IsCell, CellFields
  <2>4. InsertOnce(r, half, c) = [cells |-> u, wrapped |-> FALSE]
    <3>1. DOMAIN r = {"cells", "wrapped"}
      BY DEF IsRow
    <3>2. [r EXCEPT !.cells[c + 1].cont = FALSE].cells = e
      BY <3>1
    <3> HIDE DEF e, y
    <3>3. QED
      BY <1>2, <3>2 DEF InsertOnce, RowInsert, y
  <2> HIDE DEF x, y, d, n
  <2>5. AreCells(e) /\ Len(e) = n /\ e[p] = x /\ \A i \in 1 .. n : i # p => e[i] = d[i]
    BY <1>1, <2>1, <2>2, SetCell DEF n, Plain
  <2> HIDE DEF e
  <2>6. /\ IsSeq(u) /\ Len(u) = n + 1
        /\ \A j \in 1 .. n + 1 : u[j] = IF j < p THEN e[j] ELSE IF j = p THEN y ELSE e[j - 1]
    <3>1. p \in 1 .. Len(e) + 1 /\ IsSeq(e)
      BY <1>1, <2>1, <2>5 DEF AreCells
    <3>2. LET w == InsertAt(e, p, y) IN
          /\ IsSeq(w) /\ Len(w) = Len(e) + 1
          /\ \A j \in 1 .. Len(e) + 1 : w[j] = IF j < p THEN e[j] ELSE IF j = p THEN y ELSE e[j - 1]
      <4> HIDE DEF p
      <4>1. LET w == InsertAt(e, p, y) IN
            /\ IsSeq(w) /\ Len(w) = Len(e) + 1 /\ DOMAIN w = 1 .. Len(w)
            /\ \A j \in 1 .. Len(w) : w[j] = IF j < p THEN e[j] ELSE IF j = p THEN y ELSE e[j - 1]
        BY <3>1, InsertAtIs
      <4>2. QED
        BY <4>1
    <3>3. QED
      BY <2>5, <3>2
  <2> HIDE DEF u
  <2>7. u[p] = y /\ u[p + 1] = x /\ p \in 1 .. n + 1 /\ p + 1 \in 1 .. n + 1
    <3>1. u[p] = y /\ p \in 1 .. n + 1 /\ p + 1 \in 1 .. n + 1
      BY <1>1, <2>1, <2>6
    <3>2. u[p + 1] = e[(p + 1) - 1] /\ (p + 1) - 1 = p
      BY <1>1, <2>1, <2>6
    <3>3. QED
      BY <2>5, <3>1, <3>2
  <2>8. ASSUME NEW j \in 1 .. n + 1
        PROVE  IsCell(u[j]) /\ (u[j].wide => j < n + 1 /\ u[j + 1].cont)
               /\ (u[j].cont => j > 1 /\ u[j - 1].wide)
    <3> HIDE DEF p
    <3>1. CASE j < p
      <4>1. j \in 1 .. n /\ u[j] = d[j]
        BY <1>1, <2>1, <2>5, <2>6, <3>1
      <4>2. j + 1 < p => u[j + 1] = d[j + 1]
        BY <1>1, <2>1, <2>5, <2>6, <3>1
      <4>3. j > 1 => u[j - 1] = d[j - 1]
        BY <1>1, <2>1, <2>5, <2>6, <3>1
      <4>4. j < n + 1 /\ (j + 1 < p \/ j + 1 = p)
        BY <1>1, <2>1, <3>1
      <4>5. QED
        BY <1>1, <2>3, <2>7, <4>1, <4>2, <4>3, <4>4
    <3>2. CASE j = p
      <4>1. d[p - 1].wide /\ u[p - 1] = d[p - 1] /\ p > 1
        <5>1. p - 1 \in 1 .. n + 1 /\ p - 1 < p /\ p - 1 \in 1 .. n /\ p - 1 # p
          BY <1>1, <2>1
        <5>2. QED
          BY <1>1, <2>1, <2>5, <2>6, <5>1
      <4>2. QED
        BY <2>3, <2>7, <3>2, <4>1
    <3>3. CASE j = p + 1
      BY <2>2, <2>7, <3>3 DEF Plain
    <3>4. CASE j > p + 1
      <4>1. j - 1 \in 1 .. n /\ u[j] = d[j - 1] /\ j - 1 # p
        <5>1. j - 1 \in 1 .. n /\ j - 1 # p /\ ~(j < p) /\ j # p
          BY <1>1, <2>1, <3>4
        <5>2. u[j] = e[j - 1]
          BY <2>6, <5>1
        <5>3. QED
          BY <2>5, <5>1, <5>2
      <4>2. j - 1 < n => j < n + 1 /\ u[j + 1] = d[(j - 1) + 1]
        BY <1>1, <2>1, <2>5, <2>6, <3>4
      <4>3. (j - 1) - 1 # p => j > 1 /\ u[j - 1] = d[(j - 1) - 1]
        BY <1>1, <2>1, <2>5, <2>6, <3>4
      <4>4. ~d[p].wide
        BY <2>1
      <4>5. QED
        BY <1>1, <4>1, <4>2, <4>3, <4>4
    <3>5. QED
      BY <2>1, <3>1, <3>2, <3>3, <3>4
  <2>9. AreCells(u)
    BY <2>6, <2>8 DEF AreCells
  <2>10. Paired(u)
    BY <2>6, <2>8, <2>9, PairedIs
  <2>11. RowOf([cells |-> u, wrapped |-> FALSE], n + 1)
    BY <2>6, <2>9, <2>10, RowFields DEF RowOf
  <2>12. InsertOnce(r, half, c).cells = u
    BY <2>4
  <2>13. u[c + 1].cont /\ n = Len(r.cells)
    BY <2>3, <2>7 DEF n, d
  <2>14. QED
    BY <1>2, <2>4, <2>11, <2>12, <2>13
<1>3. CASE ~half
  <2> DEFINE u == InsertAt(d, p, CellNew)
  <2>1. p \in 1 .. n + 1 /\ (p <= n => ~d[p].cont)
    BY <1>1, <1>3
  <2>2. InsertOnce(r, half, c) = [cells |-> u, wrapped |-> FALSE]
    BY <1>3 DEF InsertOnce, RowInsert
  <2> HIDE DEF d
  <2>3. /\ IsSeq(u) /\ Len(u) = n + 1
        /\ \A j \in 1 .. n + 1 : u[j] = IF j < p THEN d[j] ELSE IF j = p THEN CellNew ELSE d[j - 1]
    BY <1>1, <2>1, InsertAtIs
  <2>4. Plain(CellNew)
    BY NewIs
  <2> HIDE DEF u, n, p
  <2>5. ASSUME NEW j \in 1 .. n + 1
        PROVE  IsCell(u[j]) /\ (u[j].wide => j < n + 1 /\ u[j + 1].cont)
               /\ (u[j].cont => j > 1 /\ u[j - 1].wide)
    <3>1. CASE j < p
      <4>1. j \in 1 .. n /\ u[j] = d[j] /\ j < n + 1
        BY <1>1, <2>1, <2>3, <3>1
      <4>2. j + 1 < p => u[j + 1] = d[j + 1]
        BY <1>1, <2>1, <2>3, <3>1
      <4>3. j > 1 => u[j - 1] = d[j - 1]
        BY <1>1, <2>1, <2>3, <3>1
      <4>4. d[j].wide => j + 1 < p
        <5>1. d[j].wide => j + 1 <= n /\ d[j + 1].cont
          BY <1>1, <4>1
        <5>2. j + 1 <= p /\ ((j + 1 = p /\ p <= n) => ~d[j + 1].cont)
          BY <1>1, <2>1, <3>1
        <5>3. QED
          BY <1>1, <2>1, <5>1, <5>2
      <4>5. QED
        BY <1>1, <4>1, <4>2, <4>3, <4>4
    <3>2. CASE j = p
      BY <2>3, <2>4, <3>2, <1>1, <2>1 DEF Plain
    <3>3. CASE j > p
      <4>1. j - 1 \in 1 .. n /\ u[j] = d[j - 1]
        <5>1. j - 1 \in 1 .. n /\ ~(j < p) /\ j # p
          BY <1>1, <2>1, <3>3
        <5>2. QED
          BY <2>3, <5>1
      <4>2. j - 1 < n => j < n + 1 /\ u[j + 1] = d[(j - 1) + 1]
        BY <1>1, <2>1, <2>3, <3>3
      <4>3. j - 1 > p => j > 1 /\ u[j - 1] = d[(j - 1) - 1]
        BY <1>1, <2>1, <2>3, <3>3
      <4>4. d[j - 1].cont => j - 1 > p
        BY <1>1, <2>1, <3>3, <4>1
      <4>5. QED
        BY <1>1, <4>1, <4>2, <4>3, <4>4
    <3>4. QED
      BY <1>1, <2>1, <3>1, <3>2, <3>3
  <2>6. AreCells(u)
    BY <2>3, <2>5 DEF AreCells
  <2>7. Paired(u)
    BY <2>3, <2>5, <2>6, PairedIs
  <2>8. RowOf([cells |-> u, wrapped |-> FALSE], n + 1)
    BY <2>3, <2>6, <2>7, RowFields DEF RowOf
  <2>9. ~u[p].cont
    BY <1>1, <2>1, <2>3, <2>4 DEF Plain
  <2>10. QED
    BY <1>3, <2>2, <2>8, <2>9, RowFields DEF n, d, p
<1>4. QED
  BY <1>2, <1>3

\* What inserting cells one after the other goes through.
InsertedBy(f, n, r, half, c) ==
    f = [k \in 0 .. n |-> IF k = 0 THEN r ELSE InsertOnce(f[k - 1], half, c)]

\* Inserting ends.
LEMMA InsertsRun ==
    ASSUME NEW n \in Nat, NEW r, NEW half, NEW c
    PROVE  \E f : InsertedBy(f, n, r, half, c)
<1> DEFINE S == {m \in Nat : \E f : InsertedBy(f, m, r, half, c)}
<1>1. 0 \in S
  <2> DEFINE g == [k \in 0 .. 0 |-> r]
  <2>1. \A k \in 0 .. 0 : k = 0
    OBVIOUS
  <2>2. g = [k \in 0 .. 0 |-> IF k = 0 THEN r ELSE InsertOnce(g[k - 1], half, c)]
    BY <2>1
  <2>3. InsertedBy(g, 0, r, half, c)
    BY <2>2 DEF InsertedBy
  <2> HIDE DEF g
  <2>4. QED
    BY <2>3
<1>2. ASSUME NEW m \in S
      PROVE  m + 1 \in S
  <2>1. PICK f : InsertedBy(f, m, r, half, c)
    OBVIOUS
  <2> DEFINE Next1(k) == IF k <= m THEN f[k] ELSE InsertOnce(f[m], half, c)
             g == [k \in 0 .. m + 1 |-> Next1(k)]
  <2>2. ASSUME NEW k \in 0 .. m + 1
        PROVE  Next1(k) = IF k = 0 THEN r ELSE InsertOnce(g[k - 1], half, c)
    <3>1. m \in Nat
      OBVIOUS
    <3>2. CASE k = 0
      BY <2>1, <3>1, <3>2 DEF InsertedBy
    <3>3. CASE k # 0 /\ k <= m
      <4>1. k \in 0 .. m /\ k - 1 \in 0 .. m + 1 /\ k - 1 <= m
        BY <3>1, <3>3
      <4>2. f[k] = InsertOnce(f[k - 1], half, c)
        BY <2>1, <3>3, <4>1 DEF InsertedBy
      <4>3. g[k - 1] = f[k - 1]
        BY <4>1
      <4>4. QED
        BY <3>3, <4>2, <4>3
    <3>4. CASE k = m + 1
      <4>1. k - 1 = m /\ m \in 0 .. m + 1 /\ ~(k <= m) /\ k # 0
        BY <3>1, <3>4
      <4>2. g[m] = f[m]
        BY <3>1, <4>1
      <4>3. QED
        BY <3>4, <4>1, <4>2
    <3>5. QED
      BY <3>1, <3>2, <3>3, <3>4
  <2>3. g = [k \in 0 .. m + 1 |-> IF k = 0 THEN r ELSE InsertOnce(g[k - 1], half, c)]
    BY <2>2
  <2> HIDE DEF g
  <2>4. InsertedBy(g, m + 1, r, half, c)
    BY <2>3 DEF InsertedBy
  <2>5. QED
    BY <2>4
<1> HIDE DEF S
<1>3. S \in SUBSET Nat
  BY DEF S
<1>4. n \in S
  BY <1>1, <1>2, <1>3, Induction
<1>5. QED
  BY <1>4 DEF S

\* Inserting any number of cells makes the row that much longer.
LEMMA InsertedIs ==
    ASSUME NEW r, IsRow(r), NEW c \in 0 .. Len(r.cells), NEW half \in BOOLEAN, NEW n \in Nat,
           NEW f, InsertedBy(f, n, r, half, c),
           half => c < Len(r.cells), c < Len(r.cells) => (half <=> r.cells[c + 1].cont)
    PROVE  RowOf(f[n], Len(r.cells) + n)
<1> DEFINE l == Len(r.cells)
           Good(m) == /\ RowOf(f[m], l + m)
                      /\ half => c < l
                      /\ c < l + m => (half <=> f[m].cells[c + 1].cont)
           T == {m \in Nat : m <= n => Good(m)}
<1>1. l \in Nat
  BY IsSeqDomain DEF IsRow, AreCells
<1>2. f[0] = r
  BY DEF InsertedBy
<1>3. Good(0)
  BY <1>1, <1>2 DEF RowOf
<1>4. ASSUME NEW m \in Nat, m + 1 <= n, Good(m)
      PROVE  Good(m + 1)
  <2>1. m + 1 \in 0 .. n /\ m + 1 # 0 /\ (m + 1) - 1 = m
    BY <1>4
  <2>2. f[m + 1] = InsertOnce(f[m], half, c)
    BY <2>1 DEF InsertedBy
  <2>3. IsRow(f[m]) /\ Len(f[m].cells) = l + m
    BY <1>4 DEF RowOf
  <2>4. c \in 0 .. Len(f[m].cells) /\ (half => c < Len(f[m].cells))
    <3>1. c \in 0 .. l /\ (half => c < l)
      BY <1>4
    <3> HIDE DEF l
    <3>2. QED
      BY <1>1, <2>3, <3>1
  <2>5. c < Len(f[m].cells) => (half <=> f[m].cells[c + 1].cont)
    BY <1>4, <2>3
  <2> HIDE DEF l
  <2>6. RowOf(f[m + 1], (l + m) + 1) /\ (half <=> f[m + 1].cells[c + 1].cont)
    BY <2>2, <2>3, <2>4, <2>5, InsertOnceIs
  <2>7. (l + m) + 1 = l + (m + 1)
    BY <1>1
  <2>8. QED
    BY <1>4, <2>6, <2>7
<1> HIDE DEF Good
<1>5. 0 \in T /\ \A m \in T : m + 1 \in T
  BY <1>3, <1>4
<1> HIDE DEF T
<1>6. T \in SUBSET Nat
  BY DEF T
<1>7. n \in T
  BY <1>5, <1>6, Induction
<1>8. QED
  BY <1>7 DEF T, Good

\* Taking a cell out of a row keeps the pairing: its other half is blanked.
LEMMA RemoveCellIs ==
    ASSUME NEW r, IsRow(r), NEW i \in 0 .. Len(r.cells) - 1
    PROVE  RowOf(RowRemoveCell(r, i), Len(r.cells) - 1)
<1> DEFINE c == ClearWide(r, i).cells
           u == RemoveAt(c, i + 1)
           n == Len(r.cells)
<1>1. n \in Nat
  BY IsSeqDomain DEF IsRow, AreCells
<1>2. AreCells(c) /\ Len(c) = n /\ PairedBut(c, i + 1)
  BY ClearWideIs
<1>3. RowRemoveCell(r, i) = [cells |-> u, wrapped |-> FALSE]
  BY DEF RowRemoveCell
<1>4. i + 1 \in 1 .. n
  BY <1>1
<1> HIDE DEF c, n
<1>5. AreCells(u) /\ Paired(u) /\ Len(u) = n - 1
  BY <1>2, <1>4, RemoveFree
<1> HIDE DEF u
<1>6. QED
  BY <1>3, <1>5, RowFields DEF RowOf, n

\* What removing cells one after the other goes through.
RemovedBy(f, n, r, c) ==
    f = [k \in 0 .. n |-> IF k = 0 THEN r ELSE RowRemoveCell(f[k - 1], c)]

\* Removing ends.
LEMMA RemovesRun ==
    ASSUME NEW n \in Nat, NEW r, NEW c
    PROVE  \E f : RemovedBy(f, n, r, c)
<1> DEFINE S == {m \in Nat : \E f : RemovedBy(f, m, r, c)}
<1>1. 0 \in S
  <2> DEFINE g == [k \in 0 .. 0 |-> r]
  <2>1. \A k \in 0 .. 0 : k = 0
    OBVIOUS
  <2>2. g = [k \in 0 .. 0 |-> IF k = 0 THEN r ELSE RowRemoveCell(g[k - 1], c)]
    BY <2>1
  <2>3. RemovedBy(g, 0, r, c)
    BY <2>2 DEF RemovedBy
  <2> HIDE DEF g
  <2>4. QED
    BY <2>3
<1>2. ASSUME NEW m \in S
      PROVE  m + 1 \in S
  <2>1. PICK f : RemovedBy(f, m, r, c)
    OBVIOUS
  <2> DEFINE Next1(k) == IF k <= m THEN f[k] ELSE RowRemoveCell(f[m], c)
             g == [k \in 0 .. m + 1 |-> Next1(k)]
  <2>2. ASSUME NEW k \in 0 .. m + 1
        PROVE  Next1(k) = IF k = 0 THEN r ELSE RowRemoveCell(g[k - 1], c)
    <3>1. m \in Nat
      OBVIOUS
    <3>2. CASE k = 0
      BY <2>1, <3>1, <3>2 DEF RemovedBy
    <3>3. CASE k # 0 /\ k <= m
      <4>1. k \in 0 .. m /\ k - 1 \in 0 .. m + 1 /\ k - 1 <= m
        BY <3>1, <3>3
      <4>2. f[k] = RowRemoveCell(f[k - 1], c)
        BY <2>1, <3>3, <4>1 DEF RemovedBy
      <4>3. g[k - 1] = f[k - 1]
        BY <4>1
      <4>4. QED
        BY <3>3, <4>2, <4>3
    <3>4. CASE k = m + 1
      <4>1. k - 1 = m /\ m \in 0 .. m + 1 /\ ~(k <= m) /\ k # 0
        BY <3>1, <3>4
      <4>2. g[m] = f[m]
        BY <3>1, <4>1
      <4>3. QED
        BY <3>4, <4>1, <4>2
    <3>5. QED
      BY <3>1, <3>2, <3>3, <3>4
  <2>3. g = [k \in 0 .. m + 1 |-> IF k = 0 THEN r ELSE RowRemoveCell(g[k - 1], c)]
    BY <2>2
  <2> HIDE DEF g
  <2>4. RemovedBy(g, m + 1, r, c)
    BY <2>3 DEF RemovedBy
  <2>5. QED
    BY <2>4
<1> HIDE DEF S
<1>3. S \in SUBSET Nat
  BY DEF S
<1>4. n \in S
  BY <1>1, <1>2, <1>3, Induction
<1>5. QED
  BY <1>4 DEF S

\* Removing any number of cells makes the row that much shorter.
LEMMA RemovedIs ==
    ASSUME NEW r, IsRow(r), NEW c \in Nat, NEW n \in Nat, c + n <= Len(r.cells),
           NEW f, RemovedBy(f, n, r, c)
    PROVE  RowOf(f[n], Len(r.cells) - n)
<1> DEFINE l == Len(r.cells)
           T == {m \in Nat : m <= n => RowOf(f[m], l - m)}
<1>1. l \in Nat /\ c + n <= l
  BY IsSeqDomain DEF IsRow, AreCells
<1>2. f[0] = r
  BY DEF RemovedBy
<1>3. 0 \in T
  BY <1>1, <1>2 DEF RowOf
<1>4. ASSUME NEW m \in T
      PROVE  m + 1 \in T
  <2>1. SUFFICES ASSUME m + 1 <= n
                 PROVE  RowOf(f[m + 1], l - (m + 1))
    OBVIOUS
  <2>2. m \in Nat /\ RowOf(f[m], l - m) /\ m + 1 \in 0 .. n /\ m + 1 # 0 /\ (m + 1) - 1 = m
    BY <2>1
  <2>3. f[m + 1] = RowRemoveCell(f[m], c)
    BY <2>2 DEF RemovedBy
  <2> HIDE DEF l, T
  <2>4. c \in 0 .. (l - m) - 1 /\ (l - m) - 1 = l - (m + 1)
    BY <1>1, <2>1, <2>2
  <2>5. QED
    BY <2>2, <2>3, <2>4, RemoveCellIs DEF RowOf
<1> HIDE DEF T
<1>5. T \in SUBSET Nat
  BY DEF T
<1>6. n \in T
  BY <1>3, <1>4, <1>5, Induction
<1>7. QED
  BY <1>6 DEF T, l

\* A cell with one character more stays what it is.
LEMMA AppendIs ==
    ASSUME NEW cell, IsCell(cell), NEW c
    PROVE  LET u == CellAppend(cell, c) IN IsCell(u) /\ u.wide = cell.wide /\ u.cont = cell.cont
BY DEF CellAppend, IsCell, CellFields

\* One cell replaced by one of the same kind.
LEMMA SameKind ==
    ASSUME NEW c, AreCells(c), Paired(c), NEW p \in 1 .. Len(c),
           NEW x, IsCell(x), x.wide = c[p].wide, x.cont = c[p].cont
    PROVE  LET u == [c EXCEPT ![p] = x] IN AreCells(u) /\ Paired(u) /\ Len(u) = Len(c)
<1> DEFINE u == [c EXCEPT ![p] = x]
<1>1. AreCells(u) /\ Len(u) = Len(c) /\ u[p] = x /\ \A i \in 1 .. Len(c) : i # p => u[i] = c[i]
  BY SetCell
<1> HIDE DEF u
<1>2. Len(c) \in Nat
  BY IsSeqDomain DEF AreCells
<1>3. \A i \in 1 .. Len(c) : u[i].wide = c[i].wide /\ u[i].cont = c[i].cont
  BY <1>1
<1>4. \A i \in 1 .. Len(c) : (c[i].wide => i < Len(c) /\ c[i + 1].cont)
                             /\ (c[i].cont => i > 1 /\ c[i - 1].wide)
  BY PairedIs
<1>5. \A i \in 1 .. Len(c) : (u[i].wide => i < Len(c) /\ u[i + 1].cont)
                             /\ (u[i].cont => i > 1 /\ u[i - 1].wide)
  BY <1>2, <1>3, <1>4
<1>6. Paired(u)
  BY <1>1, <1>5, PairedIs
<1>7. QED
  BY <1>1, <1>6 DEF u

\* One cell set anew, in a row of known length.
LEMMA SetAt ==
    ASSUME NEW c, NEW n, AreCells(c), Len(c) = n, NEW p \in 1 .. n, NEW x, IsCell(x),
           NEW u, u = [c EXCEPT ![p] = x]
    PROVE  AreCells(u) /\ Len(u) = n /\ u[p] = x /\ \A i \in 1 .. n : i # p => u[i] = c[i]
<1>1. p \in 1 .. Len(c)
  OBVIOUS
<1>2. AreCells(u) /\ Len(u) = Len(c)
  BY <1>1, SetCell
<1>3. u[p] = x
  BY <1>1, SetCell
<1>4. \A i \in 1 .. Len(c) : i # p => u[i] = c[i]
  BY <1>1, SetCell
<1>5. QED
  BY <1>2, <1>3, <1>4

\* A cell set to a narrow character is plain.
LEMMA NarrowIs ==
    ASSUME NEW c, c \notin Wide \cup Marks, NEW a
    PROVE  Plain(CellSet(c, a))
<1>1. (Width(c) > 1) = FALSE
  BY DEF Width
<1>2. CellSet(c, a) = [text |-> <<c>>, wide |-> FALSE, cont |-> FALSE, attrs |-> a]
  BY <1>1 DEF CellSet
<1>3. QED
  BY <1>2 DEF Plain, IsCell, CellFields

\* So is the blank that stays of a wide character.
LEMMA BlankIs ==
    ASSUME NEW a
    PROVE  Plain(CellSet(" ", a))
BY CellAssumption, NarrowIs, Zenon DEF CellAssumption

\* The cells of a row with a character put at place p; b is the blank left of a wide one.
PutInto(row, p, c, w, a, b) ==
    LET left == IF row.cells[p].cont THEN [row.cells EXCEPT ![p - 1] = CellClear(a)] ELSE row.cells
        right == IF left[p].wide THEN [left EXCEPT ![p + 1] = b] ELSE left
        put == [right EXCEPT ![p] = CellSet(c, a)]
        cut == w > 1 /\ put[p + 1].wide
        freed == IF cut THEN [put EXCEPT ![p + 2] = CellClear(a)] ELSE put
    IN  IF w > 1 THEN [freed EXCEPT ![p + 1] = [CellNew EXCEPT !.cont = TRUE]] ELSE freed

\* They are paired if the character fits.
LEMMA PutCells ==
    ASSUME NEW r, IsRow(r), NEW p \in 1 .. Len(r.cells), NEW c, NEW a, NEW b, Plain(b),
           NEW w, w = Width(c), w # 0, p + w - 1 <= Len(r.cells)
    PROVE  LET u == PutInto(r, p, c, w, a, b) IN AreCells(u) /\ Paired(u) /\ Len(u) = Len(r.cells)
<1> DEFINE d == r.cells
           n == Len(d)
           left == IF d[p].cont THEN [d EXCEPT ![p - 1] = CellClear(a)] ELSE d
           right == IF left[p].wide THEN [left EXCEPT ![p + 1] = b] ELSE left
           x == CellSet(c, a)
           put == [right EXCEPT ![p] = x]
           cut == w > 1 /\ put[p + 1].wide
           freed == IF cut THEN [put EXCEPT ![p + 2] = CellClear(a)] ELSE put
           y == [CellNew EXCEPT !.cont = TRUE]
           cells == IF w > 1 THEN [freed EXCEPT ![p + 1] = y] ELSE freed
<1>0. SUFFICES AreCells(cells) /\ Paired(cells) /\ Len(cells) = n
  BY DEF PutInto
<1>1. /\ AreCells(d) /\ n \in Nat /\ p \in 1 .. n /\ w \in {1, 2} /\ p + w - 1 <= n
      /\ \A i \in 1 .. n : IsCell(d[i]) /\ (d[i].wide => i < n /\ d[i + 1].cont)
                           /\ (d[i].cont => i > 1 /\ d[i - 1].wide)
  BY PairedIs, IsSeqDomain DEF IsRow, AreCells, Width
<1>2. Plain(CellClear(a)) /\ IsCell(y) /\ y.cont /\ ~y.wide
  BY ClearIs DEF CellNew, CellClear, IsCell, CellFields
<1>4. IsCell(x) /\ ~x.cont /\ (x.wide <=> w = 2)
  <2>1. (Width(c) > 1) = (w = 2)
    BY <1>1
  <2>2. x = [text |-> <<c>>, wide |-> (w = 2), cont |-> FALSE, attrs |-> a]
    BY <2>1 DEF CellSet
  <2> HIDE DEF x
  <2>3. DOMAIN x = CellFields
    BY <2>2 DEF CellFields
  <2>4. x.wide = (w = 2) /\ x.cont = FALSE
    BY <2>2
  <2>5. QED
    BY <2>3, <2>4 DEF IsCell
<1>12. Len(d) = n /\ IsCell(CellClear(a)) /\ IsCell(b)
  BY <1>2 DEF Plain
<1> HIDE DEF d, n, x, y
<1>5. /\ AreCells(left) /\ Len(left) = n /\ left[p] = d[p]
      /\ \A i \in 1 .. n : left[i] = IF i = p - 1 /\ d[p].cont THEN CellClear(a) ELSE d[i]
  <2>1. CASE d[p].cont
    <3>1. p - 1 \in 1 .. n /\ p - 1 # p
      BY <1>1, <2>1
    <3>2. left = [d EXCEPT ![p - 1] = CellClear(a)]
      BY <2>1
    <3> HIDE DEF left
    <3>3. AreCells(left) /\ Len(left) = n /\ left[p - 1] = CellClear(a) /\ \A i \in 1 .. n : i # p - 1 => left[i] = d[i]
      <4>1. AreCells(d) /\ Len(d) = n /\ p - 1 \in 1 .. n /\ IsCell(CellClear(a))
        BY <1>1, <1>12, <3>1
      <4>2. AreCells(left)
        BY <3>2, <4>1, SetAt
      <4>6. Len(left) = n
        BY <3>2, <4>1, SetAt
      <4>5. left[p - 1] = CellClear(a)
        BY <3>2, <4>1, SetAt
      <4>3. \A i \in 1 .. n : i # p - 1 => left[i] = d[i]
        BY <3>2, <4>1, SetAt
      <4>4. QED
        BY <4>2, <4>3, <4>5, <4>6
    <3>4. QED
      BY <1>1, <2>1, <3>1, <3>3
  <2>2. CASE ~d[p].cont
    BY <1>1, <2>2 DEF n
  <2>3. QED
    BY <2>1, <2>2
<1> HIDE DEF left
<1>6. /\ AreCells(right) /\ Len(right) = n
      /\ \A i \in 1 .. n : right[i] = IF i = p + 1 /\ d[p].wide THEN b ELSE left[i]
  <2>1. CASE d[p].wide
    <3>1. p + 1 \in 1 .. n
      BY <1>1, <2>1
    <3>2. right = [left EXCEPT ![p + 1] = b]
      BY <1>5, <2>1
    <3> HIDE DEF right
    <3>3. AreCells(right) /\ Len(right) = n /\ right[p + 1] = b /\ \A i \in 1 .. n : i # p + 1 => right[i] = left[i]
      <4>1. AreCells(left) /\ Len(left) = n /\ p + 1 \in 1 .. n /\ IsCell(b)
        BY <1>5, <1>12, <3>1
      <4>2. AreCells(right)
        BY <3>2, <4>1, SetAt
      <4>6. Len(right) = n
        BY <3>2, <4>1, SetAt
      <4>5. right[p + 1] = b
        BY <3>2, <4>1, SetAt
      <4>3. \A i \in 1 .. n : i # p + 1 => right[i] = left[i]
        BY <3>2, <4>1, SetAt
      <4>4. QED
        BY <4>2, <4>3, <4>5, <4>6
    <3>4. QED
      BY <1>1, <2>1, <3>1, <3>3
  <2>2. CASE ~d[p].wide
    BY <1>1, <1>5, <2>2
  <2>3. QED
    BY <2>1, <2>2
<1> HIDE DEF right
<1>7. /\ AreCells(put) /\ Len(put) = n
      /\ \A i \in 1 .. n : put[i] = IF i = p THEN x ELSE right[i]
  <2>1. AreCells(put) /\ Len(put) = n /\ put[p] = x /\ \A i \in 1 .. n : i # p => put[i] = right[i]
    <3> HIDE DEF put
    <3>1. put = [right EXCEPT ![p] = x]
      BY DEF put
    <3>2. QED
      <4>1. AreCells(right) /\ Len(right) = n /\ p \in 1 .. n /\ IsCell(x)
        BY <1>1, <1>4, <1>6
      <4>2. AreCells(put)
        BY <3>1, <4>1, SetAt
      <4>6. Len(put) = n
        BY <3>1, <4>1, SetAt
      <4>5. put[p] = x
        BY <3>1, <4>1, SetAt
      <4>3. \A i \in 1 .. n : i # p => put[i] = right[i]
        BY <3>1, <4>1, SetAt
      <4>4. QED
        BY <4>2, <4>3, <4>5, <4>6
  <2> HIDE DEF put
  <2>2. QED
    BY <2>1
<1> HIDE DEF put
\* With the new cell, the others are paired.
<1>8. \A i \in 1 .. n : /\ IsCell(put[i])
                        /\ i # p /\ put[i].wide => i < n /\ i + 1 # p /\ put[i + 1].cont
                        /\ i # p /\ put[i].cont => i > 1 /\ i - 1 # p /\ put[i - 1].wide
  <2>1. ASSUME NEW i \in 1 .. n
        PROVE  IsCell(put[i])
    BY <1>7 DEF AreCells
  <2>2. ASSUME NEW i \in 1 .. n, i # p, put[i].wide
        PROVE  i < n /\ i + 1 # p /\ put[i + 1].cont
    <3>1. put[i] = d[i] /\ d[i].wide
      BY <1>1, <1>2, <1>5, <1>6, <1>7, <2>2 DEF Plain
    <3>2. i < n /\ d[i + 1].cont /\ i + 1 \in 1 .. n
      <4>1. i < n /\ d[i + 1].cont
        BY <1>1, <3>1, Zenon
      <4>2. QED
        BY <1>1, <4>1
    <3>3. i + 1 # p
      <4>1. ASSUME i + 1 = p
            PROVE  FALSE
        <5>1. d[p].cont /\ i = p - 1 /\ i # p + 1
          BY <1>1, <3>2, <4>1
        <5>2. put[i] = CellClear(a)
          BY <1>5, <1>6, <1>7, <2>2, <5>1
        <5>3. QED
          BY <1>2, <2>2, <5>2 DEF Plain
      <4>2. QED
        BY <4>1
    <3>4. put[i + 1] = d[i + 1]
      <4>1. i + 1 # p + 1
        BY <1>1, <2>2
      <4>2. ~(i + 1 = p - 1 /\ d[p].cont)
        <5>1. ASSUME i + 1 = p - 1, d[p].cont
              PROVE  FALSE
          <6>1. d[i + 1].wide /\ d[i + 1].cont
            BY <1>1, <3>2, <5>1
          <6>2. QED
            BY <1>1, <3>2, <6>1 DEF IsCell
        <5>2. QED
          BY <5>1
      <4>3. QED
        BY <1>5, <1>6, <1>7, <3>2, <3>3, <4>1, <4>2
    <3>5. QED
      BY <3>2, <3>3, <3>4
  <2>3. ASSUME NEW i \in 1 .. n, i # p, put[i].cont
        PROVE  i > 1 /\ i - 1 # p /\ put[i - 1].wide
    <3>1. put[i] = d[i] /\ d[i].cont
      BY <1>1, <1>2, <1>5, <1>6, <1>7, <2>3 DEF Plain
    <3>2. i > 1 /\ d[i - 1].wide /\ i - 1 \in 1 .. n
      BY <1>1, <3>1
    <3>3. i - 1 # p
      <4>1. ASSUME i - 1 = p
            PROVE  FALSE
        <5>1. d[p].wide /\ i = p + 1
          BY <1>1, <3>2, <4>1
        <5>2. put[i] = b
          BY <1>6, <1>7, <2>3, <5>1
        <5>3. QED
          BY <2>3, <5>2 DEF Plain
      <4>2. QED
        BY <4>1
    <3>4. put[i - 1] = d[i - 1]
      <4>1. i - 1 # p - 1
        BY <1>1, <2>3
      <4>2. ~(i - 1 = p + 1 /\ d[p].wide)
        <5>1. ASSUME i - 1 = p + 1, d[p].wide
              PROVE  FALSE
          <6>1. d[i - 1].wide /\ d[i - 1].cont
            BY <1>1, <3>2, <5>1
          <6>2. QED
            BY <1>1, <3>2, <6>1 DEF IsCell
        <5>2. QED
          BY <5>1
      <4>3. QED
        BY <1>5, <1>6, <1>7, <3>2, <3>3, <4>1, <4>2
    <3>5. QED
      BY <3>2, <3>3, <3>4
  <2>4. QED
    BY <2>1, <2>2, <2>3
<1>9. CASE w = 1
  <2>1. cells = put
    BY <1>9
  <2>2. put[p] = x
    BY <1>1, <1>7
  <2>3. \A i \in 1 .. Len(put) : /\ put[i].wide => i < Len(put) /\ put[i + 1].cont
                                 /\ put[i].cont => i > 1 /\ put[i - 1].wide
    BY <1>4, <1>7, <1>8, <1>9, <2>2
  <2>4. Paired(put)
    BY <1>7, <2>3, PairedIs
  <2> HIDE DEF cells
  <2>5. QED
    BY <1>7, <2>1, <2>4
<1>10. CASE w = 2
  <2>1. p + 1 \in 1 .. n /\ p # p + 1
    BY <1>1, <1>10
  <2>2. put[p + 1].wide => p + 2 \in 1 .. n /\ put[p + 2].cont /\ ~put[p + 2].wide
    <3>1. put[p + 1].wide => p + 1 < n /\ put[(p + 1) + 1].cont
      BY <1>8, <2>1
    <3>2. (p + 1) + 1 = p + 2 /\ (p + 1 < n => p + 2 \in 1 .. n)
      BY <1>1
    <3>3. QED
      BY <1>8, <3>1, <3>2 DEF IsCell
  <2>3. /\ AreCells(freed) /\ Len(freed) = n
        /\ \A i \in 1 .. n : freed[i] = IF i = p + 2 /\ put[p + 1].wide THEN CellClear(a) ELSE put[i]
    <3>1. CASE put[p + 1].wide
      <4>1. freed = [put EXCEPT ![p + 2] = CellClear(a)]
        BY <1>10, <3>1
      <4> HIDE DEF freed
      <4>2. AreCells(freed) /\ Len(freed) = n /\ freed[p + 2] = CellClear(a) /\ \A i \in 1 .. n : i # p + 2 => freed[i] = put[i]
        <5>1. AreCells(put) /\ Len(put) = n /\ p + 2 \in 1 .. n /\ IsCell(CellClear(a))
          BY <1>7, <1>12, <2>2, <3>1
        <5>2. AreCells(freed)
          BY <4>1, <5>1, SetAt
        <5>6. Len(freed) = n
          BY <4>1, <5>1, SetAt
        <5>5. freed[p + 2] = CellClear(a)
          BY <4>1, <5>1, SetAt
        <5>3. \A i \in 1 .. n : i # p + 2 => freed[i] = put[i]
          BY <4>1, <5>1, SetAt
        <5>4. QED
          BY <5>2, <5>3, <5>5, <5>6
      <4>3. QED
        BY <2>2, <3>1, <4>2
    <3>2. CASE ~put[p + 1].wide
      BY <1>7, <3>2
    <3>3. QED
      BY <3>1, <3>2
  <2>4. cells = [freed EXCEPT ![p + 1] = y]
    BY <1>10
  <2> HIDE DEF cells, freed
  <2>5. AreCells(cells) /\ Len(cells) = n /\ cells[p + 1] = y /\ \A i \in 1 .. n : i # p + 1 => cells[i] = freed[i]
    <3>1. AreCells(freed) /\ Len(freed) = n /\ p + 1 \in 1 .. n /\ IsCell(y)
      BY <1>2, <2>1, <2>3
    <3>2. AreCells(cells)
      BY <2>4, <3>1, SetAt
    <3>6. Len(cells) = n
      BY <2>4, <3>1, SetAt
    <3>5. cells[p + 1] = y
      BY <2>4, <3>1, SetAt
    <3>3. \A i \in 1 .. n : i # p + 1 => cells[i] = freed[i]
      BY <2>4, <3>1, SetAt
    <3>4. QED
      BY <3>2, <3>3, <3>5, <3>6
  <2>6. cells[p] = x
    <3>1. p # p + 2
      BY <1>1
    <3>2. QED
      BY <1>1, <1>7, <2>1, <2>3, <2>5, <3>1
  <2>7. ASSUME NEW i \in 1 .. n
        PROVE  (cells[i].wide => i < n /\ cells[i + 1].cont) /\ (cells[i].cont => i > 1 /\ cells[i - 1].wide)
    <3>1. CASE i = p
      BY <1>1, <1>2, <1>4, <2>1, <2>5, <2>6, <3>1
    <3>2. CASE i = p + 1
      <4>1. i - 1 = p /\ i > 1
        BY <1>1, <3>2
      <4>2. QED
        BY <1>2, <1>4, <1>10, <2>5, <2>6, <3>2, <4>1
    <3>3. CASE i # p /\ i # p + 1
      <4>1. cells[i].wide => cells[i] = put[i] /\ put[i].wide
        BY <1>2, <2>3, <2>5, <3>3 DEF Plain
      <4>2. cells[i].cont => cells[i] = put[i] /\ put[i].cont
        BY <1>2, <2>3, <2>5, <3>3 DEF Plain
      <4>3. ASSUME cells[i].wide
            PROVE  i < n /\ cells[i + 1].cont
        <5>1. i < n /\ put[i + 1].cont /\ i + 1 \in 1 .. n /\ i + 1 # p
          BY <1>1, <1>8, <3>3, <4>1, <4>3
        <5>2. i + 1 # p + 1 /\ (i + 1 = p + 2 => i = p + 1)
          BY <1>1, <3>3
        <5>3. cells[i + 1] = put[i + 1]
          BY <2>3, <2>5, <3>3, <5>1, <5>2
        <5>4. QED
          BY <5>1, <5>3
      <4>4. ASSUME cells[i].cont
            PROVE  i > 1 /\ cells[i - 1].wide
        <5>1. i > 1 /\ put[i - 1].wide /\ i - 1 \in 1 .. n /\ i - 1 # p
          BY <1>1, <1>8, <3>3, <4>2, <4>4
        <5>2. i - 1 # p + 1
          <6>1. ASSUME i - 1 = p + 1
                PROVE  FALSE
            <7>1. i = p + 2 /\ put[p + 1].wide
              BY <1>1, <5>1, <6>1
            <7>2. cells[i] = CellClear(a)
              BY <2>3, <2>5, <3>3, <7>1
            <7>3. QED
              BY <1>2, <4>4, <7>2 DEF Plain
          <6>2. QED
            BY <6>1
        <5>3. ~(i - 1 = p + 2 /\ put[p + 1].wide)
          <6>1. ASSUME i - 1 = p + 2, put[p + 1].wide
                PROVE  FALSE
            BY <2>2, <5>1, <6>1
          <6>2. QED
            BY <6>1
        <5>4. cells[i - 1] = put[i - 1]
          BY <2>3, <2>5, <5>1, <5>2, <5>3
        <5>5. QED
          BY <5>1, <5>4
      <4>5. QED
        BY <4>3, <4>4
    <3>4. QED
      BY <3>1, <3>2, <3>3
  <2>8. Paired(cells)
    BY <2>5, <2>7, PairedIs
  <2>9. QED
    BY <2>5, <2>8
<1>11. QED
  BY <1>1, <1>9, <1>10

-----------------------------------------------------------------------------
(* Grids.                                                                  *)

GridFields ==
    {"rows", "cols", "pos", "saved_pos", "lines", "scroll_top", "scroll_bottom", "origin_mode",
     "saved_origin_mode", "scrollback", "scrollback_len", "scrollback_offset"}

\* The lines of a grid that is allocated, or none; the history has its own widths.
Lines(ls, rows, cols) ==
    IsSeq(ls) /\ Len(ls) \in {0, rows} /\ \A i \in 1 .. Len(ls) : RowOf(ls[i], cols)
History(ls) == IsSeq(ls) /\ \A i \in 1 .. Len(ls) : IsRow(ls[i])

\* A cursor may stand behind the last column, where the next character wraps.
Cursor(p, rows, cols) ==
    p = [row |-> p.row, col |-> p.col] /\ p.row \in 0 .. rows - 1 /\ p.col \in 0 .. cols

\* All of a grid but the cursor.
Frame(g) ==
    /\ DOMAIN g = GridFields
    /\ g.rows \in Nat \ {0} /\ g.cols \in Nat \ {0}
    /\ Cursor(g.saved_pos, g.rows, g.cols)
    /\ g.origin_mode \in BOOLEAN /\ g.saved_origin_mode \in BOOLEAN
    /\ g.scroll_top \in Nat /\ g.scroll_bottom \in Nat
    /\ g.scroll_top <= g.scroll_bottom /\ g.scroll_bottom <= g.rows - 1
    /\ Lines(g.lines, g.rows, g.cols)
    /\ History(g.scrollback) /\ g.scrollback_len \in Nat

IsGrid(g) == Frame(g) /\ Cursor(g.pos, g.rows, g.cols)
IsDrawn(g) == IsGrid(g) /\ Len(g.lines) = g.rows

\* Two grids that differ in the cursor only.
Same(g, h) ==
    /\ DOMAIN h = GridFields
    /\ h.rows = g.rows /\ h.cols = g.cols /\ h.saved_pos = g.saved_pos /\ h.lines = g.lines
    /\ h.scroll_top = g.scroll_top /\ h.scroll_bottom = g.scroll_bottom
    /\ h.origin_mode = g.origin_mode /\ h.saved_origin_mode = g.saved_origin_mode
    /\ h.scrollback = g.scrollback /\ h.scrollback_len = g.scrollback_len
    /\ h.scrollback_offset = g.scrollback_offset
Moved(g, h, r, c) == Same(g, h) /\ h.pos = [row |-> r, col |-> c]

\* The cursor moved inside the grid.
LEMMA MovedIs ==
    ASSUME NEW g, IsDrawn(g), NEW r \in 0 .. g.rows - 1, NEW c \in 0 .. g.cols,
           NEW h, Moved(g, h, r, c)
    PROVE  IsDrawn(h)
<1>1. Cursor(h.pos, h.rows, h.cols)
  BY DEF Moved, Same, Cursor
<1>2. Frame(h)
  BY DEF IsDrawn, IsGrid, Frame, Moved, Same
<1>3. QED
  BY <1>1, <1>2 DEF IsDrawn, IsGrid, Moved, Same

\* Moving twice.
LEMMA MovedTwice ==
    ASSUME NEW g, NEW h, NEW i, NEW r, NEW c, NEW s, NEW d, Moved(g, h, r, c), Moved(h, i, s, d)
    PROVE  Moved(g, i, s, d)
BY DEF Moved, Same

\* What the cursor is set to.
LEMMA PosSet ==
    ASSUME NEW g, DOMAIN g = GridFields, NEW r, NEW c
    PROVE  Moved(g, [g EXCEPT !.pos = [row |-> r, col |-> c]], r, c)
BY DEF Moved, Same, GridFields

\* Setting the row moves the cursor and nothing else.
LEMMA RowMoved ==
    ASSUME NEW g, DOMAIN g = GridFields, NEW r, NEW c, g.pos = [row |-> r, col |-> c], NEW x
    PROVE  Moved(g, [g EXCEPT !.pos.row = x], x, c)
<1> DEFINE h == [g EXCEPT !.pos.row = x]
<1>1. Same(g, h)
  BY DEF Same, GridFields
<1>2. h.pos = [g.pos EXCEPT !.row = x]
  BY DEF GridFields
<1> HIDE DEF h
<1>3. h.pos = [row |-> x, col |-> c]
  BY <1>2
<1>4. Moved(g, h, x, c)
  BY <1>1, <1>3 DEF Moved
<1>5. QED
  BY <1>4 DEF h

\* Setting the column moves the cursor and nothing else.
LEMMA ColMoved ==
    ASSUME NEW g, DOMAIN g = GridFields, NEW r, NEW c, g.pos = [row |-> r, col |-> c], NEW x
    PROVE  Moved(g, [g EXCEPT !.pos.col = x], r, x)
<1> DEFINE h == [g EXCEPT !.pos.col = x]
<1>1. Same(g, h)
  BY DEF Same, GridFields
<1>2. h.pos = [g.pos EXCEPT !.col = x]
  BY DEF GridFields
<1> HIDE DEF h
<1>3. h.pos = [row |-> r, col |-> x]
  BY <1>2
<1>4. Moved(g, h, r, x)
  BY <1>1, <1>3 DEF Moved
<1>5. QED
  BY <1>4 DEF h

\* Leaving the cursor alone is a move to where it is.
LEMMA NotMoved ==
    ASSUME NEW g, DOMAIN g = GridFields, NEW r, NEW c, g.pos = [row |-> r, col |-> c]
    PROVE  Moved(g, g, r, c)
BY DEF Moved, Same

\* A cursor has a row and a column.
LEMMA CursorIs ==
    ASSUME NEW g, IsDrawn(g)
    PROVE  /\ DOMAIN g = GridFields /\ g.pos = [row |-> g.pos.row, col |-> g.pos.col]
           /\ g.rows \in Nat \ {0} /\ g.cols \in Nat \ {0}
           /\ g.pos.row \in 0 .. g.rows - 1 /\ g.pos.col \in 0 .. g.cols
           /\ g.origin_mode \in BOOLEAN /\ g.scroll_top \in Nat /\ g.scroll_bottom \in Nat
           /\ g.scroll_top <= g.scroll_bottom /\ g.scroll_bottom <= g.rows - 1
BY DEF IsDrawn, IsGrid, Frame, Cursor

\* The clamps move the cursor into the grid or the scroll region.
LEMMA ColClampIs ==
    ASSUME NEW g, DOMAIN g = GridFields, NEW r, NEW c, g.pos = [row |-> r, col |-> c]
    PROVE  Moved(g, ColClamp(g), r, AtMost(c, g.cols - 1))
<1>1. ColClamp(g) = [g EXCEPT !.pos.col = AtMost(c, g.cols - 1)]
  BY DEF ColClamp
<1>2. QED
  BY <1>1, ColMoved

\* row_clamp brings the cursor back to the last row.
LEMMA RowClampIs ==
    ASSUME NEW g, DOMAIN g = GridFields, NEW r, NEW c, g.pos = [row |-> r, col |-> c]
    PROVE  Moved(g, RowClamp(g), AtMost(r, g.rows - 1), c)
<1>1. RowClamp(g) = [g EXCEPT !.pos.row = AtMost(r, g.rows - 1)]
  BY DEF RowClamp
<1>2. QED
  BY <1>1, RowMoved

\* row_clamp_bottom stops at the region's last row, or the grid's.
LEMMA RowClampBottomIs ==
    ASSUME NEW g, DOMAIN g = GridFields, NEW r, NEW c, g.pos = [row |-> r, col |-> c], NEW region
    PROVE  Moved(g, RowClampBottom(g, region),
                 AtMost(r, IF region THEN g.scroll_bottom ELSE g.rows - 1), c)
<1>1. RowClampBottom(g, region)
        = [g EXCEPT !.pos.row = AtMost(r, IF region THEN g.scroll_bottom ELSE g.rows - 1)]
  BY DEF RowClampBottom
<1>2. QED
  BY <1>1, RowMoved

\* row_clamp_top stops at the region's first row.
LEMMA RowClampTopIs ==
    ASSUME NEW g, DOMAIN g = GridFields, NEW r, NEW c, g.pos = [row |-> r, col |-> c],
           NEW region \in BOOLEAN
    PROVE  Moved(g, RowClampTop(g, region), IF region /\ r < g.scroll_top THEN g.scroll_top ELSE r, c)
<1>1. CASE region /\ r < g.scroll_top
  <2>1. RowClampTop(g, region) = [g EXCEPT !.pos.row = g.scroll_top]
    BY <1>1 DEF RowClampTop
  <2>2. QED
    <3>1. (IF region /\ r < g.scroll_top THEN g.scroll_top ELSE r) = g.scroll_top
      BY <1>1
    <3>2. QED
      BY <2>1, <3>1, RowMoved
<1>2. CASE ~(region /\ r < g.scroll_top)
  <2>1. RowClampTop(g, region) = g
    BY <1>2 DEF RowClampTop
  <2>2. QED
    <3>1. (IF region /\ r < g.scroll_top THEN g.scroll_top ELSE r) = r
      BY <1>2
    <3>2. QED
      BY <2>1, <3>1, NotMoved
<1>3. QED
  BY <1>1, <1>2

\* Movements of the cursor.
LEMMA ColDecIs ==
    ASSUME NEW g, IsDrawn(g), NEW n \in Nat
    PROVE  IsDrawn(ColDec(g, n))
<1>0. /\ DOMAIN g = GridFields /\ g.pos = [row |-> g.pos.row, col |-> g.pos.col]
      /\ g.rows \in Nat \ {0} /\ g.cols \in Nat \ {0}
      /\ g.pos.row \in 0 .. g.rows - 1 /\ g.pos.col \in 0 .. g.cols
      /\ g.scroll_top \in Nat /\ g.scroll_bottom \in Nat
      /\ g.scroll_top <= g.scroll_bottom /\ g.scroll_bottom <= g.rows - 1
  BY CursorIs
<1>1. ColDec(g, n) = [g EXCEPT !.pos.col = Sat(g.pos.col - n)]
  BY DEF ColDec
<1>2. Moved(g, ColDec(g, n), g.pos.row, Sat(g.pos.col - n))
  BY <1>1, <1>0, ColMoved
<1>3. Sat(g.pos.col - n) \in 0 .. g.cols
  BY <1>0 DEF Sat
<1>4. QED
  BY <1>2, <1>3, <1>0, MovedIs

\* A column that is clamped is in the grid.
LEMMA ColTo ==
    ASSUME NEW g, IsDrawn(g), NEW n \in Nat
    PROVE  IsDrawn(ColClamp([g EXCEPT !.pos.col = n]))
<1> DEFINE h == [g EXCEPT !.pos.col = n]
<1>0. /\ DOMAIN g = GridFields /\ g.pos = [row |-> g.pos.row, col |-> g.pos.col]
      /\ g.rows \in Nat \ {0} /\ g.cols \in Nat \ {0}
      /\ g.pos.row \in 0 .. g.rows - 1 /\ g.pos.col \in 0 .. g.cols
      /\ g.scroll_top \in Nat /\ g.scroll_bottom \in Nat
      /\ g.scroll_top <= g.scroll_bottom /\ g.scroll_bottom <= g.rows - 1
  BY CursorIs
<1>1. Moved(g, h, g.pos.row, n)
  BY <1>0, ColMoved
<1> HIDE DEF h
<1>2. DOMAIN h = GridFields /\ h.cols = g.cols /\ h.pos = [row |-> g.pos.row, col |-> n]
  BY <1>1 DEF Moved, Same
<1>3. Moved(h, ColClamp(h), g.pos.row, AtMost(n, g.cols - 1))
  BY <1>2, ColClampIs
<1>4. Moved(g, ColClamp(h), g.pos.row, AtMost(n, g.cols - 1))
  BY <1>1, <1>3, MovedTwice
<1>5. AtMost(n, g.cols - 1) \in 0 .. g.cols
  BY <1>0 DEF AtMost
<1>6. IsDrawn(ColClamp(h))
  BY <1>4, <1>5, <1>0, MovedIs
<1>7. QED
  BY <1>6 DEF h

\* The moves along a row stay in the grid.
LEMMA ColMoves ==
    ASSUME NEW g, IsDrawn(g), NEW n \in Nat
    PROVE  IsDrawn(ColSet(g, n)) /\ IsDrawn(ColIncClamp(g, n)) /\ IsDrawn(ColTab(g))
<1>0. /\ DOMAIN g = GridFields /\ g.pos = [row |-> g.pos.row, col |-> g.pos.col]
      /\ g.rows \in Nat \ {0} /\ g.cols \in Nat \ {0}
      /\ g.pos.row \in 0 .. g.rows - 1 /\ g.pos.col \in 0 .. g.cols
      /\ g.scroll_top \in Nat /\ g.scroll_bottom \in Nat
      /\ g.scroll_top <= g.scroll_bottom /\ g.scroll_bottom <= g.rows - 1
  BY CursorIs
<1>1. g.pos.col \in Nat /\ g.pos.col + n \in Nat /\ g.pos.col - (g.pos.col % 8) + 8 \in Nat
  BY <1>0
<1>2. ColSet(g, n) = ColClamp([g EXCEPT !.pos.col = n])
  BY DEF ColSet
<1>3. ColIncClamp(g, n) = ColClamp([g EXCEPT !.pos.col = g.pos.col + n])
  BY DEF ColIncClamp
<1>4. ColTab(g) = ColClamp([g EXCEPT !.pos.col = g.pos.col - (g.pos.col % 8) + 8])
  BY DEF ColTab
<1>5. QED
  BY <1>1, <1>2, <1>3, <1>4, ColTo

\* Setting the row, clamped, stays in the grid.
LEMMA RowSetIs ==
    ASSUME NEW g, IsDrawn(g), NEW n \in Nat
    PROVE  IsDrawn(RowSet(g, n))
<1> DEFINE h == [g EXCEPT !.pos.row = n]
<1>0. /\ DOMAIN g = GridFields /\ g.pos = [row |-> g.pos.row, col |-> g.pos.col]
      /\ g.rows \in Nat \ {0} /\ g.cols \in Nat \ {0}
      /\ g.pos.row \in 0 .. g.rows - 1 /\ g.pos.col \in 0 .. g.cols
      /\ g.scroll_top \in Nat /\ g.scroll_bottom \in Nat
      /\ g.scroll_top <= g.scroll_bottom /\ g.scroll_bottom <= g.rows - 1
  BY CursorIs
<1>1. Moved(g, h, n, g.pos.col)
  BY <1>0, RowMoved
<1>2. RowSet(g, n) = RowClamp(h)
  BY DEF RowSet
<1> HIDE DEF h
<1>3. DOMAIN h = GridFields /\ h.rows = g.rows /\ h.pos = [row |-> n, col |-> g.pos.col]
  BY <1>1 DEF Moved, Same
<1>4. Moved(h, RowClamp(h), AtMost(n, g.rows - 1), g.pos.col)
  BY <1>3, RowClampIs
<1>5. Moved(g, RowSet(g, n), AtMost(n, g.rows - 1), g.pos.col)
  BY <1>1, <1>2, <1>4, MovedTwice
<1>6. AtMost(n, g.rows - 1) \in 0 .. g.rows - 1
  BY <1>0 DEF AtMost
<1>7. QED
  BY <1>5, <1>6, <1>0, MovedIs

\* Rows down, to the bottom of the region at most.
LEMMA RowDown ==
    ASSUME NEW g, IsDrawn(g), NEW n \in Nat, NEW region \in BOOLEAN, region = InScrollRegion(g)
    PROVE  LET h == RowClampBottom([g EXCEPT !.pos.row = @ + n], region)
               r == AtMost(g.pos.row + n, IF region THEN g.scroll_bottom ELSE g.rows - 1)
           IN  IsDrawn(h) /\ Moved(g, h, r, g.pos.col) /\ r \in 0 .. g.rows - 1 /\ r <= g.pos.row + n
<1> DEFINE k == [g EXCEPT !.pos.row = @ + n]
           h == RowClampBottom(k, region)
           r == AtMost(g.pos.row + n, IF region THEN g.scroll_bottom ELSE g.rows - 1)
<1>0. /\ DOMAIN g = GridFields /\ g.pos = [row |-> g.pos.row, col |-> g.pos.col]
      /\ g.rows \in Nat \ {0} /\ g.cols \in Nat \ {0}
      /\ g.pos.row \in 0 .. g.rows - 1 /\ g.pos.col \in 0 .. g.cols
      /\ g.scroll_top \in Nat /\ g.scroll_bottom \in Nat
      /\ g.scroll_top <= g.scroll_bottom /\ g.scroll_bottom <= g.rows - 1
  BY CursorIs
<1>1. Moved(g, k, g.pos.row + n, g.pos.col)
  BY <1>0, RowMoved
<1> HIDE DEF k
<1>2. /\ DOMAIN k = GridFields /\ k.rows = g.rows /\ k.scroll_bottom = g.scroll_bottom
      /\ k.pos = [row |-> g.pos.row + n, col |-> g.pos.col]
  BY <1>1 DEF Moved, Same
<1>3. Moved(k, h, r, g.pos.col)
  BY <1>2, RowClampBottomIs
<1> HIDE DEF h
<1>4. r \in 0 .. g.rows - 1 /\ r <= g.pos.row + n
  BY <1>0 DEF AtMost
<1> HIDE DEF r
<1>5. Moved(g, h, r, g.pos.col)
  BY <1>1, <1>3, MovedTwice
<1>6. IsDrawn(h)
  BY <1>4, <1>5, <1>0, MovedIs
<1>7. QED
  BY <1>4, <1>5, <1>6 DEF h, k, r

\* Rows up, to the top of the region at most.
LEMMA RowUp ==
    ASSUME NEW g, IsDrawn(g), NEW n \in Nat, NEW region \in BOOLEAN, region = InScrollRegion(g)
    PROVE  LET h == RowClampTop([g EXCEPT !.pos.row = Sat(@ - n)], region)
               up == Sat(g.pos.row - n)
               r == IF region /\ up < g.scroll_top THEN g.scroll_top ELSE up
           IN  IsDrawn(h) /\ Moved(g, h, r, g.pos.col) /\ r \in 0 .. g.rows - 1 /\ up \in 0 .. r
<1> DEFINE k == [g EXCEPT !.pos.row = Sat(@ - n)]
           h == RowClampTop(k, region)
           up == Sat(g.pos.row - n)
           r == IF region /\ up < g.scroll_top THEN g.scroll_top ELSE up
<1>0. /\ DOMAIN g = GridFields /\ g.pos = [row |-> g.pos.row, col |-> g.pos.col]
      /\ g.rows \in Nat \ {0} /\ g.cols \in Nat \ {0}
      /\ g.pos.row \in 0 .. g.rows - 1 /\ g.pos.col \in 0 .. g.cols
      /\ g.scroll_top \in Nat /\ g.scroll_bottom \in Nat
      /\ g.scroll_top <= g.scroll_bottom /\ g.scroll_bottom <= g.rows - 1
  BY CursorIs
<1>1. Moved(g, k, up, g.pos.col)
  BY <1>0, RowMoved
<1> HIDE DEF k
<1>2. /\ DOMAIN k = GridFields /\ k.scroll_top = g.scroll_top
      /\ k.pos = [row |-> up, col |-> g.pos.col]
  BY <1>1 DEF Moved, Same
<1>3. up \in 0 .. g.rows - 1
  BY <1>0 DEF Sat
<1> HIDE DEF up
<1>4. Moved(k, h, r, g.pos.col)
  BY <1>2, RowClampTopIs
<1> HIDE DEF h
<1>5. r \in 0 .. g.rows - 1 /\ up \in 0 .. r
  BY <1>3, <1>0
<1> HIDE DEF r
<1>6. Moved(g, h, r, g.pos.col)
  BY <1>1, <1>4, MovedTwice
<1>7. IsDrawn(h)
  BY <1>5, <1>6, <1>0, MovedIs
<1>8. QED
  BY <1>5, <1>6, <1>7 DEF h, k, r, up

\* The moves along a column stay in the grid.
LEMMA RowMoves ==
    ASSUME NEW g, IsDrawn(g), NEW n \in Nat
    PROVE  IsDrawn(RowIncClamp(g, n)) /\ IsDrawn(RowDecClamp(g, n))
<1>1. InScrollRegion(g) \in BOOLEAN
  BY DEF InScrollRegion
<1>2. IsDrawn(RowIncClamp(g, n))
  BY <1>1, RowDown DEF RowIncClamp
<1>3. IsDrawn(RowDecClamp(g, n))
  BY <1>1, RowUp DEF RowDecClamp
<1>4. QED
  BY <1>2, <1>3

\* Grid::set_pos clamps, in origin mode to the scroll region.
LEMMA SetPosIs ==
    ASSUME NEW g, IsDrawn(g), NEW row \in Nat, NEW col \in Nat
    PROVE  IsDrawn(SetPos(g, row, col))
<1>0. /\ DOMAIN g = GridFields /\ g.rows \in Nat \ {0} /\ g.cols \in Nat \ {0}
      /\ g.origin_mode \in BOOLEAN /\ g.scroll_top \in Nat /\ g.scroll_bottom \in Nat
      /\ g.scroll_top <= g.scroll_bottom /\ g.scroll_bottom <= g.rows - 1
  BY CursorIs
<1> DEFINE o == g.origin_mode
           r == IF o THEN row + g.scroll_top ELSE row
           at == [g EXCEPT !.pos = [row |-> r, col |-> col]]
           top == RowClampTop(at, o)
           t == IF o /\ r < g.scroll_top THEN g.scroll_top ELSE r
           bottom == RowClampBottom(top, o)
           b == AtMost(t, IF o THEN g.scroll_bottom ELSE g.rows - 1)
           c == AtMost(col, g.cols - 1)
<1>1. SetPos(g, row, col) = ColClamp(bottom)
  BY DEF SetPos
<1>2. b \in 0 .. g.rows - 1 /\ c \in 0 .. g.cols
  BY <1>0 DEF AtMost
<1>3. Moved(g, at, r, col)
  BY <1>0, PosSet
<1> HIDE DEF r, at
<1>4. DOMAIN at = GridFields /\ at.pos = [row |-> r, col |-> col] /\ at.scroll_top = g.scroll_top
  BY <1>3 DEF Moved, Same
<1>5. Moved(at, top, t, col)
  BY <1>0, <1>4, RowClampTopIs
<1> HIDE DEF top, t
<1>6. Moved(g, top, t, col)
  BY <1>3, <1>5, MovedTwice
<1>7. /\ DOMAIN top = GridFields /\ top.pos = [row |-> t, col |-> col]
      /\ top.scroll_bottom = g.scroll_bottom /\ top.rows = g.rows
  BY <1>6 DEF Moved, Same
<1>8. Moved(top, bottom, b, col)
  BY <1>7, RowClampBottomIs
<1> HIDE DEF bottom, b
<1>9. Moved(g, bottom, b, col)
  BY <1>6, <1>8, MovedTwice
<1>10. DOMAIN bottom = GridFields /\ bottom.pos = [row |-> b, col |-> col] /\ bottom.cols = g.cols
  BY <1>9 DEF Moved, Same
<1>11. Moved(bottom, ColClamp(bottom), b, c)
  BY <1>10, ColClampIs
<1>12. Moved(g, ColClamp(bottom), b, c)
  BY <1>9, <1>11, MovedTwice
<1>13. QED
  BY <1>1, <1>2, <1>12, MovedIs

\* Switching the origin mode homes the cursor inside the grid.
LEMMA SetOriginModeIs ==
    ASSUME NEW g, IsDrawn(g), NEW on \in BOOLEAN
    PROVE  IsDrawn(SetOriginMode(g, on))
<1> DEFINE h == [g EXCEPT !.origin_mode = on]
<1>1. IsDrawn(h)
  BY DEF IsDrawn, IsGrid, Frame, GridFields
<1> HIDE DEF h
<1>2. IsDrawn(SetPos(h, 0, 0))
  BY <1>1, SetPosIs
<1>3. QED
  BY <1>2 DEF SetOriginMode, h

\* Saving the cursor, restoring it, and scrolling the view.
LEMMA SaveIs ==
    ASSUME NEW g, IsDrawn(g)
    PROVE  IsDrawn(SaveCursor(g)) /\ IsDrawn(RestoreCursor(g))
<1>1. IsDrawn(SaveCursor(g))
  BY DEF SaveCursor, IsDrawn, IsGrid, Frame, GridFields
<1>2. IsDrawn(RestoreCursor(g))
  BY DEF RestoreCursor, IsDrawn, IsGrid, Frame, GridFields
<1>3. QED
  BY <1>1, <1>2

\* Scrolling the view into the history moves no cell.
LEMMA SetScrollbackIs ==
    ASSUME NEW g, IsDrawn(g), NEW n
    PROVE  IsDrawn(SetScrollback(g, n))
BY DEF SetScrollback, IsDrawn, IsGrid, Frame, GridFields

\* DECSTBM takes a region only if it has two rows; otherwise the whole grid.
LEMMA SetScrollRegionIs ==
    ASSUME NEW g, IsDrawn(g), NEW top \in Nat, NEW bot \in Nat
    PROVE  IsDrawn(SetScrollRegion(g, top, bot))
<1> DEFINE bottom == AtMost(bot, g.rows - 1)
           t == IF top < bottom THEN top ELSE 0
           b == IF top < bottom THEN bottom ELSE g.rows - 1
           h == [g EXCEPT !.scroll_top = t, !.scroll_bottom = b, !.pos = [row |-> t, col |-> 0]]
<1>0. g.rows \in Nat \ {0} /\ g.cols \in Nat \ {0}
  BY CursorIs
<1>1. SetScrollRegion(g, top, bot) = h
  BY DEF SetScrollRegion
<1>2. t \in Nat /\ b \in Nat /\ t <= b /\ b <= g.rows - 1
  BY <1>0 DEF AtMost
<1> HIDE DEF t, b
<1>3. Cursor([row |-> t, col |-> 0], g.rows, g.cols)
  BY <1>0, <1>2 DEF Cursor
<1>4. IsDrawn(h)
  BY <1>2, <1>3 DEF IsDrawn, IsGrid, Frame, GridFields
<1>5. QED
  BY <1>1, <1>4

\* Other lines of the same number and width.
LEMMA LinesSet ==
    ASSUME NEW g, IsGrid(g), NEW ls, Lines(ls, g.rows, g.cols)
    PROVE  LET h == [g EXCEPT !.lines = ls] IN
           IsGrid(h) /\ h.lines = ls /\ h.rows = g.rows /\ h.cols = g.cols /\ h.pos = g.pos
BY DEF IsGrid, Frame, GridFields

\* The row the cursor is in.
LEMMA CurrentRowIs ==
    ASSUME NEW g, IsDrawn(g)
    PROVE  RowOf(CurrentRow(g), g.cols) /\ g.pos.row + 1 \in 1 .. Len(g.lines)
<1>1. g.pos.row + 1 \in 1 .. Len(g.lines)
  BY DEF IsDrawn, IsGrid, Frame, Cursor
<1>2. QED
  BY <1>1 DEF CurrentRow, IsDrawn, IsGrid, Frame, Lines

\* One line set anew.
LEMMA LineSet ==
    ASSUME NEW g, IsDrawn(g), NEW k \in 1 .. g.rows, NEW r, RowOf(r, g.cols)
    PROVE  LET h == [g EXCEPT !.lines[k] = r] IN
           IsDrawn(h) /\ h.rows = g.rows /\ h.cols = g.cols /\ h.pos = g.pos
<1> DEFINE ls == [g.lines EXCEPT ![k] = r]
           h == [g EXCEPT !.lines = ls]
<1>1. /\ IsSeq(g.lines) /\ Len(g.lines) = g.rows /\ k \in 1 .. Len(g.lines) /\ DOMAIN g = GridFields
      /\ \A i \in 1 .. Len(g.lines) : RowOf(g.lines[i], g.cols)
  BY DEF IsDrawn, IsGrid, Frame, Lines
<1>2. [g EXCEPT !.lines[k] = r] = h
  OBVIOUS
<1>3. IsSeq(ls) /\ Len(ls) = Len(g.lines)
  <2>1. IsSeq(ls)
    BY <1>1, IsSeqSet
  <2>2. Len(ls) = Len(g.lines)
    BY <1>1, IsSeqSet
  <2>3. QED
    BY <2>1, <2>2
<1>4. ls[k] = r /\ \A i \in 1 .. Len(g.lines) : i # k => ls[i] = g.lines[i]
  BY <1>1, IsSeqSet
<1> HIDE DEF ls
<1>5. Lines(ls, g.rows, g.cols)
  BY <1>1, <1>3, <1>4 DEF Lines
<1>6. IsGrid(h) /\ h.lines = ls /\ h.rows = g.rows /\ h.cols = g.cols /\ h.pos = g.pos
  BY <1>5, LinesSet DEF IsDrawn
<1> HIDE DEF h
<1>7. QED
  BY <1>1, <1>2, <1>3, <1>6 DEF IsDrawn

\* Any row of the grid's width may take the cursor's row's place.
LEMMA SetCurrentRowIs ==
    ASSUME NEW g, IsDrawn(g), NEW r, RowOf(r, g.cols)
    PROVE  LET h == SetCurrentRow(g, r) IN
           IsDrawn(h) /\ h.rows = g.rows /\ h.cols = g.cols /\ h.pos = g.pos
<1>1. g.pos.row + 1 \in 1 .. g.rows
  <2>1. g.pos.row \in 0 .. g.rows - 1 /\ g.rows \in Nat
    BY CursorIs
  <2>2. QED
    BY <2>1
<1>2. QED
  BY <1>1, LineSet DEF SetCurrentRow

\* All lines set anew.
LEMMA AllLinesSet ==
    ASSUME NEW g, IsGrid(g), NEW ls, ls = [i \in DOMAIN g.lines |-> ls[i]],
           \A i \in DOMAIN g.lines : RowOf(ls[i], g.cols)
    PROVE  LET h == [g EXCEPT !.lines = ls] IN
           IsGrid(h) /\ Len(h.lines) = Len(g.lines) /\ h.rows = g.rows /\ h.cols = g.cols /\ h.pos = g.pos
<1> DEFINE h == [g EXCEPT !.lines = ls]
<1>1. /\ DOMAIN g.lines = 1 .. Len(g.lines) /\ Len(g.lines) \in Nat /\ Len(g.lines) \in {0, g.rows}
  BY IsSeqDomain DEF IsGrid, Frame, Lines
<1>2. IsSeq(ls) /\ Len(ls) = Len(g.lines)
  BY <1>1, IsSeqFun
<1>3. Lines(ls, g.rows, g.cols)
  BY <1>1, <1>2 DEF Lines
<1>4. IsGrid(h) /\ h.lines = ls /\ h.rows = g.rows /\ h.cols = g.cols /\ h.pos = g.pos
  BY <1>3, LinesSet
<1> HIDE DEF h
<1>5. QED
  BY <1>2, <1>4 DEF h

\* A new grid has no lines until they are allocated.
LEMMA GridNewIs ==
    ASSUME NEW rows \in Nat \ {0}, NEW cols \in Nat \ {0}, NEW limit \in Nat
    PROVE  LET g == GridNew(rows, cols, limit) IN IsGrid(g) /\ g.rows = rows /\ g.cols = cols
<1> DEFINE g == GridNew(rows, cols, limit)
<1>1. /\ DOMAIN g = GridFields /\ g.rows = rows /\ g.cols = cols
      /\ g.pos = Origin /\ g.saved_pos = Origin /\ g.lines = <<>> /\ g.scrollback = <<>>
      /\ g.scroll_top = 0 /\ g.scroll_bottom = rows - 1
      /\ g.origin_mode = FALSE /\ g.saved_origin_mode = FALSE /\ g.scrollback_len = limit
  BY DEF GridNew, GridFields
<1> HIDE DEF g
<1>2. Cursor(Origin, rows, cols)
  BY DEF Origin, Cursor
<1>3. Lines(<<>>, rows, cols) /\ History(<<>>)
  <2>1. IsSeq(<<>>) /\ Len(<<>>) = 0
    BY IsSeqEmpty
  <2>2. QED
    BY <2>1 DEF Lines, History
<1>4. IsGrid(g)
  <2>1. rows - 1 \in Nat /\ 0 \in Nat /\ 0 <= rows - 1 /\ rows - 1 <= rows - 1
    OBVIOUS
  <2>2. Frame(g)
    BY <1>1, <1>2, <1>3, <2>1 DEF Frame
  <2>3. QED
    BY <1>1, <1>2, <2>2 DEF IsGrid
<1>5. QED
  BY <1>1, <1>4 DEF g

\* Allocating the rows draws a grid that had none.
LEMMA AllocateRowsIs ==
    ASSUME NEW g, IsGrid(g)
    PROVE  LET h == AllocateRows(g) IN
           IsDrawn(h) /\ h.rows = g.rows /\ h.cols = g.cols /\ h.scrollback_len = g.scrollback_len
<1>1. /\ IsSeq(g.lines) /\ Len(g.lines) \in {0, g.rows}
      /\ g.rows \in Nat \ {0} /\ g.cols \in Nat \ {0} /\ DOMAIN g = GridFields
  BY DEF IsGrid, Frame, Lines
<1>2. CASE g.lines # <<>>
  <2>1. AllocateRows(g) = g
    BY <1>2 DEF AllocateRows
  <2>2. Len(g.lines) # 0
    BY <1>1, <1>2, EmptySeq DEF IsSeq
  <2>3. QED
    BY <1>1, <2>1, <2>2 DEF IsDrawn
<1>3. CASE g.lines = <<>>
  <2> DEFINE ls == [i \in 1 .. g.rows |-> RowNew(g.cols)]
             h == [g EXCEPT !.lines = ls]
  <2>1. AllocateRows(g) = h
    BY <1>3 DEF AllocateRows
  <2>2. IsSeq(ls) /\ Len(ls) = g.rows
    BY <1>1, IsSeqFun
  <2>3. \A i \in 1 .. g.rows : RowOf(ls[i], g.cols)
    BY <1>1, RowNewIs
  <2> HIDE DEF ls
  <2>4. Lines(ls, g.rows, g.cols)
    BY <2>2, <2>3 DEF Lines
  <2>5. IsGrid(h) /\ h.lines = ls /\ h.rows = g.rows /\ h.cols = g.cols
    BY <2>4, LinesSet
  <2>6. h.scrollback_len = g.scrollback_len
    BY <1>1 DEF GridFields
  <2> HIDE DEF h
  <2>7. QED
    BY <2>1, <2>2, <2>5, <2>6 DEF IsDrawn
<1>4. QED
  BY <1>2, <1>3

\* Clearing the grid resets cursor, region and rows together.
LEMMA GridClearIs ==
    ASSUME NEW g, IsGrid(g)
    PROVE  IsGrid(GridClear(g)) /\ (IsDrawn(g) => IsDrawn(GridClear(g)))
<1> DEFINE ls == [i \in DOMAIN g.lines |-> RowClear(g.lines[i], NoAttrs)]
           k == [g EXCEPT !.lines = ls]
           h == [k EXCEPT !.pos = Origin, !.saved_pos = Origin, !.scroll_top = 0,
                          !.scroll_bottom = g.rows - 1, !.origin_mode = FALSE,
                          !.saved_origin_mode = FALSE]
<1>1. /\ DOMAIN g.lines = 1 .. Len(g.lines) /\ g.rows \in Nat \ {0} /\ g.cols \in Nat \ {0}
      /\ \A i \in 1 .. Len(g.lines) : RowOf(g.lines[i], g.cols)
  BY IsSeqDomain DEF IsGrid, Frame, Lines
<1>2. \A i \in DOMAIN g.lines : RowOf(ls[i], g.cols)
  BY <1>1, RowClearIs DEF RowOf
<1>3. GridClear(g) = h
  BY DEF GridClear, IsGrid, Frame, GridFields
<1>4. ls = [i \in DOMAIN g.lines |-> ls[i]]
  OBVIOUS
<1> HIDE DEF ls
<1>5. IsGrid(k) /\ k.rows = g.rows /\ k.cols = g.cols /\ Len(k.lines) = Len(g.lines)
  BY <1>2, <1>4, AllLinesSet
<1> HIDE DEF k
<1>6. Cursor(Origin, g.rows, g.cols)
  BY <1>1 DEF Origin, Cursor
<1>7. IsGrid(h)
  BY <1>1, <1>5, <1>6 DEF IsGrid, Frame, GridFields
<1>8. h.rows = g.rows /\ Len(h.lines) = Len(g.lines)
  BY <1>5 DEF IsGrid, Frame, GridFields
<1>9. QED
  BY <1>3, <1>7, <1>8 DEF IsDrawn

\* Erasing: whole rows, parts of the row of the cursor, and both.
LEMMA EraseAllIs ==
    ASSUME NEW g, IsDrawn(g), NEW a
    PROVE  IsDrawn(EraseAll(g, a))
<1> DEFINE ls == [i \in DOMAIN g.lines |-> RowClear(g.lines[i], a)]
           h == [g EXCEPT !.lines = ls]
<1>1. /\ DOMAIN g.lines = 1 .. Len(g.lines)
      /\ \A i \in 1 .. Len(g.lines) : RowOf(g.lines[i], g.cols)
  BY IsSeqDomain DEF IsDrawn, IsGrid, Frame, Lines
<1>2. \A i \in DOMAIN g.lines : RowOf(ls[i], g.cols)
  BY <1>1, RowClearIs DEF RowOf
<1>3. EraseAll(g, a) = h
  BY DEF EraseAll
<1>4. ls = [i \in DOMAIN g.lines |-> ls[i]]
  OBVIOUS
<1> HIDE DEF ls
<1>5. IsGrid(h) /\ Len(h.lines) = Len(g.lines) /\ h.rows = g.rows
  BY <1>2, <1>4, AllLinesSet DEF IsDrawn
<1> HIDE DEF h
<1>6. QED
  BY <1>3, <1>5 DEF IsDrawn

\* Erasing the cursor's row.
LEMMA EraseRowIs ==
    ASSUME NEW g, IsDrawn(g), NEW a
    PROVE  IsDrawn(EraseRow(g, a))
<1>1. RowOf(RowClear(CurrentRow(g), a), g.cols)
  BY CurrentRowIs, RowClearIs DEF RowOf
<1>2. QED
  BY <1>1, SetCurrentRowIs DEF EraseRow

\* Erasing a part of the cursor's row.
LEMMA EraseInRow ==
    ASSUME NEW g, IsDrawn(g), NEW from \in Nat, NEW to \in Nat, to <= g.cols, NEW a
    PROVE  IsDrawn(SetCurrentRow(g, RowEraseCols(CurrentRow(g), from, to, a)))
<1>1. IsRow(CurrentRow(g)) /\ Len(CurrentRow(g).cells) = g.cols
  BY CurrentRowIs DEF RowOf
<1>2. RowOf(RowEraseCols(CurrentRow(g), from, to, a), g.cols)
  BY <1>1, RowEraseColsIs
<1>3. QED
  BY <1>2, SetCurrentRowIs

\* The parts of a row that EL and ECH erase.
LEMMA EraseInRowIs ==
    ASSUME NEW g, IsDrawn(g), NEW a
    PROVE  /\ IsDrawn(EraseRowForward(g, a)) /\ IsDrawn(EraseRowBackward(g, a))
           /\ \A n \in Nat : IsDrawn(EraseCells(g, n, a))
<1>0. g.pos.col \in Nat /\ g.cols \in Nat \ {0}
  <2>1. g.pos.col \in 0 .. g.cols /\ g.cols \in Nat \ {0}
    BY CursorIs
  <2>2. QED
    BY <2>1
<1>1. IsDrawn(EraseRowForward(g, a))
  BY <1>0, EraseInRow DEF EraseRowForward
<1>2. IsDrawn(EraseRowBackward(g, a))
  <2>1. AtMost(g.pos.col, g.cols - 1) + 1 \in Nat /\ AtMost(g.pos.col, g.cols - 1) + 1 <= g.cols
    BY <1>0 DEF AtMost
  <2>2. QED
    BY <2>1, EraseInRow DEF EraseRowBackward
<1>3. ASSUME NEW n \in Nat
      PROVE  IsDrawn(EraseCells(g, n, a))
  <2>1. AtMost(g.pos.col + n, g.cols) \in Nat /\ AtMost(g.pos.col + n, g.cols) <= g.cols
    BY <1>0 DEF AtMost
  <2>2. QED
    BY <1>0, <2>1, EraseInRow DEF EraseCells
<1>4. QED
  BY <1>1, <1>2, <1>3

\* Some lines cleared.
LEMMA ClearSome ==
    ASSUME NEW g, IsDrawn(g), NEW a, NEW S,
           NEW ls, ls = [i \in DOMAIN g.lines |-> IF i \in S THEN RowClear(g.lines[i], a) ELSE g.lines[i]]
    PROVE  IsDrawn([g EXCEPT !.lines = ls])
<1>1. /\ DOMAIN g.lines = 1 .. Len(g.lines)
      /\ \A i \in 1 .. Len(g.lines) : RowOf(g.lines[i], g.cols)
  BY IsSeqDomain DEF IsDrawn, IsGrid, Frame, Lines
<1>2. \A i \in DOMAIN g.lines : RowOf(ls[i], g.cols)
  BY <1>1, RowClearIs DEF RowOf
<1>3. ls = [i \in DOMAIN g.lines |-> ls[i]]
  OBVIOUS
<1> DEFINE h == [g EXCEPT !.lines = ls]
<1>4. IsGrid(h) /\ Len(h.lines) = Len(g.lines) /\ h.rows = g.rows
  <2>1. IsGrid(g)
    BY DEF IsDrawn
  <2>2. IsGrid(h)
    BY <1>2, <1>3, <2>1, AllLinesSet
  <2>3. Len(h.lines) = Len(g.lines)
    BY <1>2, <1>3, <2>1, AllLinesSet
  <2>4. h.rows = g.rows
    BY <1>2, <1>3, <2>1, AllLinesSet
  <2>5. QED
    BY <2>2, <2>3, <2>4
<1>5. QED
  BY <1>4 DEF IsDrawn

\* The parts of the grid that ED erases.
LEMMA EraseAllPartIs ==
    ASSUME NEW g, IsDrawn(g), NEW a
    PROVE  IsDrawn(EraseAllForward(g, a)) /\ IsDrawn(EraseAllBackward(g, a))
<1> DEFINE after == {i \in DOMAIN g.lines : i > g.pos.row + 1}
           before == {i \in DOMAIN g.lines : i < g.pos.row + 1}
           la == [i \in DOMAIN g.lines |-> IF i > g.pos.row + 1 THEN RowClear(g.lines[i], a) ELSE g.lines[i]]
           lb == [i \in DOMAIN g.lines |-> IF i < g.pos.row + 1 THEN RowClear(g.lines[i], a) ELSE g.lines[i]]
<1>1. la = [i \in DOMAIN g.lines |-> IF i \in after THEN RowClear(g.lines[i], a) ELSE g.lines[i]]
  OBVIOUS
<1>2. lb = [i \in DOMAIN g.lines |-> IF i \in before THEN RowClear(g.lines[i], a) ELSE g.lines[i]]
  OBVIOUS
<1>3. EraseAllForward(g, a) = EraseRowForward([g EXCEPT !.lines = la], a)
  BY DEF EraseAllForward
<1>4. EraseAllBackward(g, a) = EraseRowBackward([g EXCEPT !.lines = lb], a)
  BY DEF EraseAllBackward
<1> HIDE DEF la, lb, after, before
<1>5. IsDrawn([g EXCEPT !.lines = la]) /\ IsDrawn([g EXCEPT !.lines = lb])
  BY <1>1, <1>2, ClearSome
<1>6. QED
  BY <1>3, <1>4, <1>5, EraseInRowIs

\* ED and EL, in every mode.
LEMMA ErasesIs ==
    ASSUME NEW g, IsDrawn(g), NEW mode, NEW a
    PROVE  IsDrawn(Ed(g, mode, a)) /\ IsDrawn(El(g, mode, a))
<1>1. IsDrawn(Ed(g, mode, a))
  BY EraseAllPartIs, EraseAllIs, Zenon DEF Ed
<1>2. IsDrawn(El(g, mode, a))
  BY EraseInRowIs, EraseRowIs, Zenon DEF El
<1>3. QED
  BY <1>1, <1>2

\* ICH keeps the pairing, even when it starts in the middle of a wide character.
LEMMA InsertCellsIs ==
    ASSUME NEW g, IsDrawn(g), NEW n \in Nat
    PROVE  IsDrawn(InsertCells(g, n))
<1> DEFINE r == CurrentRow(g)
           c == g.pos.col
           half == c < g.cols /\ CurrentRow(g).cells[c + 1].cont
           F == CHOOSE f : InsertedBy(f, n, r, half, c)
<1>1. InsertCells(g, n) = SetCurrentRow(g, RowTruncate(F[n], g.cols))
  BY DEF InsertCells, InsertedBy, InsertOnce
<1>2. InsertedBy(F, n, r, half, c)
  BY InsertsRun
<1>3. IsRow(r) /\ Len(r.cells) = g.cols
  BY CurrentRowIs DEF RowOf
<1>4. c \in 0 .. g.cols /\ g.cols \in Nat
  BY CursorIs
<1>5. half \in BOOLEAN /\ (half => c < g.cols) /\ (c < g.cols => (half <=> r.cells[c + 1].cont))
  <2>1. CASE c < g.cols
    <3>1. c + 1 \in 1 .. Len(r.cells)
      BY <1>3, <1>4, <2>1
    <3>2. r.cells[c + 1].cont \in BOOLEAN
      BY <1>3, <3>1 DEF IsRow, AreCells, IsCell
    <3>3. QED
      BY <2>1, <3>2
  <2>2. CASE ~(c < g.cols)
    BY <2>2
  <2>3. QED
    BY <2>1, <2>2
<1> HIDE DEF F, half, r, c
<1>6. RowOf(F[n], g.cols + n)
  BY <1>2, <1>3, <1>4, <1>5, InsertedIs
<1>7. g.cols <= Len(F[n].cells) /\ IsRow(F[n])
  BY <1>4, <1>6 DEF RowOf
<1>8. RowOf(RowTruncate(F[n], g.cols), g.cols)
  BY <1>4, <1>7, RowTruncateIs
<1>9. QED
  BY <1>1, <1>8, SetCurrentRowIs

\* So does DCH.
LEMMA DeleteCellsIs ==
    ASSUME NEW g, IsDrawn(g), NEW n \in Nat
    PROVE  IsDrawn(DeleteCells(g, n))
<1> DEFINE r == CurrentRow(g)
           c == g.pos.col
           m == AtMost(n, g.cols - c)
           F == CHOOSE f : RemovedBy(f, m, r, c)
<1>1. DeleteCells(g, n) = SetCurrentRow(g, RowResize(F[m], g.cols))
  BY DEF DeleteCells, RemovedBy
<1>2. IsRow(r) /\ Len(r.cells) = g.cols
  BY CurrentRowIs DEF RowOf
<1>3. c \in 0 .. g.cols /\ g.cols \in Nat
  BY CursorIs
<1>4. m \in Nat /\ c + m <= g.cols
  BY <1>3 DEF AtMost
<1> HIDE DEF m, r, c
<1>5. RemovedBy(F, m, r, c)
  BY <1>4, RemovesRun
<1> HIDE DEF F
<1>6. RowOf(F[m], g.cols - m)
  <2>1. c \in Nat /\ c + m <= Len(r.cells)
    BY <1>2, <1>3, <1>4
  <2>2. QED
    BY <1>2, <1>4, <1>5, <2>1, RemovedIs
<1>7. RowOf(RowResize(F[m], g.cols), g.cols)
  BY <1>3, <1>6, RowResizeIs DEF RowOf
<1>8. QED
  BY <1>1, <1>7, SetCurrentRowIs

\* A line more, and then a line less.
LEMMA LineIn ==
    ASSUME NEW ls, NEW n \in Nat, IsSeq(ls), Len(ls) = n, NEW cols,
           \A i \in 1 .. n : RowOf(ls[i], cols),
           NEW k \in 1 .. n + 1, NEW r, RowOf(r, cols), NEW u, u = InsertAt(ls, k, r)
    PROVE  IsSeq(u) /\ Len(u) = n + 1 /\ \A i \in 1 .. n + 1 : RowOf(u[i], cols)
<1>1. IsSeq(u) /\ Len(u) = n + 1
  BY InsertAtIs
<1>2. \A j \in 1 .. n + 1 : u[j] = IF j < k THEN ls[j] ELSE IF j = k THEN r ELSE ls[j - 1]
  BY InsertAtIs
<1>3. ASSUME NEW j \in 1 .. n + 1
      PROVE  RowOf(u[j], cols)
  <2>1. CASE j < k
    <3>1. j \in 1 .. n /\ u[j] = ls[j]
      BY <1>2, <2>1
    <3>2. QED
      BY <3>1
  <2>2. CASE j = k
    BY <1>2, <2>2
  <2>3. CASE j > k
    <3>1. j - 1 \in 1 .. n /\ ~(j < k) /\ j # k
      BY <2>3
    <3>2. u[j] = ls[j - 1]
      BY <1>2, <3>1
    <3>3. QED
      BY <3>1, <3>2
  <2>4. QED
    BY <2>1, <2>2, <2>3
<1>4. QED
  BY <1>1, <1>3

\* Taking one line out leaves lines of the same width.
LEMMA LineOut ==
    ASSUME NEW ls, NEW n \in Nat, IsSeq(ls), Len(ls) = n, NEW cols,
           \A i \in 1 .. n : RowOf(ls[i], cols),
           NEW k \in 1 .. n, NEW u, u = RemoveAt(ls, k)
    PROVE  IsSeq(u) /\ Len(u) = n - 1 /\ \A i \in 1 .. n - 1 : RowOf(u[i], cols)
<1>1. IsSeq(u) /\ Len(u) = n - 1
  BY RemoveAtIs
<1>2. \A j \in 1 .. n - 1 : u[j] = IF j < k THEN ls[j] ELSE ls[j + 1]
  BY RemoveAtIs
<1>3. ASSUME NEW j \in 1 .. n - 1
      PROVE  RowOf(u[j], cols)
  <2>1. j \in 1 .. n /\ j + 1 \in 1 .. n
    OBVIOUS
  <2>2. u[j] = ls[j] \/ u[j] = ls[j + 1]
    BY <1>2
  <2>3. QED
    BY <2>1, <2>2
<1>4. QED
  BY <1>1, <1>3

\* As many lines as the grid has rows, of the grid's width.
Full(ls, n, cols) == IsSeq(ls) /\ Len(ls) = n /\ \A i \in 1 .. n : RowOf(ls[i], cols)

\* A drawn grid has as many lines as rows.
LEMMA FullIs ==
    ASSUME NEW g, IsDrawn(g)
    PROVE  Full(g.lines, g.rows, g.cols)
BY DEF IsDrawn, IsGrid, Frame, Lines, Full

\* As many lines of its width may take its lines' place.
LEMMA FullSet ==
    ASSUME NEW g, IsDrawn(g), NEW ls, Full(ls, g.rows, g.cols)
    PROVE  LET h == [g EXCEPT !.lines = ls] IN
           IsDrawn(h) /\ h.rows = g.rows /\ h.cols = g.cols /\ h.pos = g.pos
<1> DEFINE h == [g EXCEPT !.lines = ls]
<1>1. Lines(ls, g.rows, g.cols) /\ Len(ls) = g.rows
  BY DEF Full, Lines
<1>2. IsGrid(h) /\ h.lines = ls /\ h.rows = g.rows /\ h.cols = g.cols /\ h.pos = g.pos
  BY <1>1, LinesSet DEF IsDrawn
<1> HIDE DEF h
<1>3. QED
  BY <1>1, <1>2 DEF IsDrawn, h

\* One line shifted down.
ShiftOnce(all, bottom, at, cols) ==
    LET moved == InsertAt(RemoveAt(all, bottom + 1), at + 1, RowNew(cols))
    IN  [moved EXCEPT ![bottom + 1] = Wrap(@, FALSE)]

\* Shifting by one line takes one out and puts one in.
LEMMA ShiftOnceIs ==
    ASSUME NEW n \in Nat \ {0}, NEW cols \in Nat \ {0}, NEW ls, Full(ls, n, cols),
           NEW bottom \in 0 .. n - 1, NEW at \in 0 .. n - 1
    PROVE  Full(ShiftOnce(ls, bottom, at, cols), n, cols)
<1> DEFINE a == RemoveAt(ls, bottom + 1)
           m == InsertAt(a, at + 1, RowNew(cols))
           x == Wrap(m[bottom + 1], FALSE)
           u == [m EXCEPT ![bottom + 1] = x]
<1>1. bottom + 1 \in 1 .. n /\ at + 1 \in 1 .. (n - 1) + 1 /\ n - 1 \in Nat /\ (n - 1) + 1 = n
  OBVIOUS
<1>2. ShiftOnce(ls, bottom, at, cols) = u
  BY DEF ShiftOnce
<1>3. RowOf(RowNew(cols), cols)
  BY RowNewIs
<1>4. IsSeq(a) /\ Len(a) = n - 1 /\ \A i \in 1 .. n - 1 : RowOf(a[i], cols)
  <2>1. IsSeq(ls) /\ Len(ls) = n /\ \A i \in 1 .. n : RowOf(ls[i], cols)
    BY DEF Full
  <2>2. IsSeq(a)
    BY <1>1, <2>1, LineOut
  <2>3. Len(a) = n - 1
    <3>1. n \in Nat
      OBVIOUS
    <3>2. QED
      BY <1>1, <2>1, <3>1, RemoveAtIs
  <2>4. \A i \in 1 .. n - 1 : RowOf(a[i], cols)
    BY <1>1, <2>1, LineOut
  <2>5. QED
    BY <2>2, <2>3, <2>4
<1> HIDE DEF a
<1>5. IsSeq(m) /\ Len(m) = (n - 1) + 1 /\ \A i \in 1 .. (n - 1) + 1 : RowOf(m[i], cols)
  BY <1>1, <1>3, <1>4, LineIn
<1> HIDE DEF m
<1>6. RowOf(x, cols)
  BY <1>1, <1>5, WrapIs DEF RowOf
<1> HIDE DEF x
<1>7. IsSeq(u)
  BY <1>1, <1>5, IsSeqSet
<1>8. Len(u) = n
  BY <1>1, <1>5, IsSeqSet
<1>9. u[bottom + 1] = x /\ \A i \in 1 .. n : i # bottom + 1 => u[i] = m[i]
  BY <1>1, <1>5, IsSeqSet
<1> HIDE DEF u
<1>10. \A i \in 1 .. n : RowOf(u[i], cols)
  BY <1>1, <1>5, <1>6, <1>9
<1>11. QED
  BY <1>2, <1>7, <1>8, <1>10 DEF Full

\* What shifting lines one after the other goes through.
ShiftedBy(f, n, ls, bottom, at, cols) ==
    f = [k \in 0 .. n |-> IF k = 0 THEN ls ELSE ShiftOnce(f[k - 1], bottom, at, cols)]

\* Shifting ends.
LEMMA ShiftsRun ==
    ASSUME NEW n \in Nat, NEW ls, NEW bottom, NEW at, NEW cols
    PROVE  \E f : ShiftedBy(f, n, ls, bottom, at, cols)
<1> DEFINE S == {m \in Nat : \E f : ShiftedBy(f, m, ls, bottom, at, cols)}
<1>1. 0 \in S
  <2> DEFINE g == [k \in 0 .. 0 |-> ls]
  <2>1. \A k \in 0 .. 0 : k = 0
    OBVIOUS
  <2>2. g = [k \in 0 .. 0 |-> IF k = 0 THEN ls ELSE ShiftOnce(g[k - 1], bottom, at, cols)]
    BY <2>1
  <2>3. ShiftedBy(g, 0, ls, bottom, at, cols)
    BY <2>2 DEF ShiftedBy
  <2> HIDE DEF g
  <2>4. QED
    BY <2>3
<1>2. ASSUME NEW m \in S
      PROVE  m + 1 \in S
  <2>1. PICK f : ShiftedBy(f, m, ls, bottom, at, cols)
    OBVIOUS
  <2> DEFINE Next1(k) == IF k <= m THEN f[k] ELSE ShiftOnce(f[m], bottom, at, cols)
             g == [k \in 0 .. m + 1 |-> Next1(k)]
  <2>2. ASSUME NEW k \in 0 .. m + 1
        PROVE  Next1(k) = IF k = 0 THEN ls ELSE ShiftOnce(g[k - 1], bottom, at, cols)
    <3>1. m \in Nat
      OBVIOUS
    <3>2. CASE k = 0
      BY <2>1, <3>1, <3>2 DEF ShiftedBy
    <3>3. CASE k # 0 /\ k <= m
      <4>1. k \in 0 .. m /\ k - 1 \in 0 .. m + 1 /\ k - 1 <= m
        BY <3>1, <3>3
      <4>2. f[k] = ShiftOnce(f[k - 1], bottom, at, cols)
        BY <2>1, <3>3, <4>1 DEF ShiftedBy
      <4>3. g[k - 1] = f[k - 1]
        BY <4>1
      <4>4. QED
        BY <3>3, <4>2, <4>3
    <3>4. CASE k = m + 1
      <4>1. k - 1 = m /\ m \in 0 .. m + 1 /\ ~(k <= m) /\ k # 0
        BY <3>1, <3>4
      <4>2. g[m] = f[m]
        BY <3>1, <4>1
      <4>3. QED
        BY <3>4, <4>1, <4>2
    <3>5. QED
      BY <3>1, <3>2, <3>3, <3>4
  <2>3. g = [k \in 0 .. m + 1 |-> IF k = 0 THEN ls ELSE ShiftOnce(g[k - 1], bottom, at, cols)]
    BY <2>2
  <2> HIDE DEF g
  <2>4. ShiftedBy(g, m + 1, ls, bottom, at, cols)
    BY <2>3 DEF ShiftedBy
  <2>5. QED
    BY <2>4
<1> HIDE DEF S
<1>3. S \in SUBSET Nat
  BY DEF S
<1>4. n \in S
  BY <1>1, <1>2, <1>3, Induction
<1>5. QED
  BY <1>4 DEF S

\* IL and SD: lines shifted down inside the region.
LEMMA ShiftDownIs ==
    ASSUME NEW g, IsDrawn(g), NEW at \in 0 .. g.rows - 1, NEW n \in Nat
    PROVE  LET h == ShiftDown(g, at, n) IN
           IsDrawn(h) /\ h.rows = g.rows /\ h.cols = g.cols /\ h.pos = g.pos
<1> DEFINE b == g.scroll_bottom
           F == CHOOSE f : ShiftedBy(f, n, g.lines, b, at, g.cols)
           T == {m \in Nat : m <= n => Full(F[m], g.rows, g.cols)}
<1>1. ShiftDown(g, at, n) = [g EXCEPT !.lines = F[n]]
  BY DEF ShiftDown, ShiftedBy, ShiftOnce
<1>2. ShiftedBy(F, n, g.lines, b, at, g.cols)
  BY ShiftsRun
<1>3. g.rows \in Nat \ {0} /\ g.cols \in Nat \ {0} /\ b \in 0 .. g.rows - 1
  <2>1. g.rows \in Nat \ {0} /\ g.cols \in Nat \ {0} /\ b \in Nat /\ b <= g.rows - 1
    BY CursorIs
  <2> HIDE DEF b
  <2>2. QED
    BY <2>1
<1> HIDE DEF F, b
<1>4. F[0] = g.lines
  BY <1>2 DEF ShiftedBy
<1>5. 0 \in T
  BY <1>4, FullIs
<1>6. ASSUME NEW m \in T
      PROVE  m + 1 \in T
  <2>1. SUFFICES ASSUME m + 1 <= n
                 PROVE  Full(F[m + 1], g.rows, g.cols)
    OBVIOUS
  <2>2. m \in Nat /\ Full(F[m], g.rows, g.cols) /\ m + 1 \in 0 .. n /\ m + 1 # 0 /\ (m + 1) - 1 = m
    BY <2>1
  <2>3. F[m + 1] = ShiftOnce(F[m], b, at, g.cols)
    BY <1>2, <2>2 DEF ShiftedBy
  <2>4. QED
    BY <1>3, <2>2, <2>3, ShiftOnceIs
<1> HIDE DEF T
<1>7. T \in SUBSET Nat
  BY DEF T
<1>8. n \in T
  BY <1>5, <1>6, <1>7, Induction
<1>9. Full(F[n], g.rows, g.cols)
  BY <1>8 DEF T
<1>10. QED
  BY <1>1, <1>9, FullSet

\* One line deleted.
DeleteOnce(all, bottom, row, cols) == RemoveAt(InsertAt(all, bottom + 2, RowNew(cols)), row + 1)

\* Deleting one line puts one in and takes one out.
LEMMA DeleteOnceIs ==
    ASSUME NEW n \in Nat \ {0}, NEW cols \in Nat \ {0}, NEW ls, Full(ls, n, cols),
           NEW bottom \in 0 .. n - 1, NEW row \in 0 .. n - 1
    PROVE  Full(DeleteOnce(ls, bottom, row, cols), n, cols)
<1> DEFINE m == InsertAt(ls, bottom + 2, RowNew(cols))
           u == RemoveAt(m, row + 1)
<1>1. bottom + 2 \in 1 .. n + 1 /\ row + 1 \in 1 .. n + 1 /\ n + 1 \in Nat /\ (n + 1) - 1 = n
  OBVIOUS
<1>2. RowOf(RowNew(cols), cols)
  BY RowNewIs
<1>3. IsSeq(m) /\ Len(m) = n + 1 /\ \A i \in 1 .. n + 1 : RowOf(m[i], cols)
  <2>1. IsSeq(ls) /\ Len(ls) = n /\ \A i \in 1 .. n : RowOf(ls[i], cols)
    BY DEF Full
  <2>2. IsSeq(m)
    BY <1>1, <1>2, <2>1, LineIn
  <2>3. Len(m) = n + 1
    <3>1. n \in Nat
      OBVIOUS
    <3>2. QED
      BY <1>1, <2>1, <3>1, InsertAtIs
  <2>4. \A i \in 1 .. n + 1 : RowOf(m[i], cols)
    BY <1>1, <1>2, <2>1, LineIn
  <2>5. QED
    BY <2>2, <2>3, <2>4
<1> HIDE DEF m
<1>4. IsSeq(u) /\ Len(u) = (n + 1) - 1 /\ \A i \in 1 .. (n + 1) - 1 : RowOf(u[i], cols)
  BY <1>1, <1>3, LineOut
<1>5. QED
  BY <1>1, <1>4 DEF DeleteOnce, Full, m

\* What deleting lines one after the other goes through.
DeletedBy(f, n, ls, bottom, row, cols) ==
    f = [k \in 0 .. n |-> IF k = 0 THEN ls ELSE DeleteOnce(f[k - 1], bottom, row, cols)]

\* Deleting ends.
LEMMA DeletesRun ==
    ASSUME NEW n \in Nat, NEW ls, NEW bottom, NEW row, NEW cols
    PROVE  \E f : DeletedBy(f, n, ls, bottom, row, cols)
<1> DEFINE S == {m \in Nat : \E f : DeletedBy(f, m, ls, bottom, row, cols)}
<1>1. 0 \in S
  <2> DEFINE g == [k \in 0 .. 0 |-> ls]
  <2>1. \A k \in 0 .. 0 : k = 0
    OBVIOUS
  <2>2. g = [k \in 0 .. 0 |-> IF k = 0 THEN ls ELSE DeleteOnce(g[k - 1], bottom, row, cols)]
    BY <2>1
  <2>3. DeletedBy(g, 0, ls, bottom, row, cols)
    BY <2>2 DEF DeletedBy
  <2> HIDE DEF g
  <2>4. QED
    BY <2>3
<1>2. ASSUME NEW m \in S
      PROVE  m + 1 \in S
  <2>1. PICK f : DeletedBy(f, m, ls, bottom, row, cols)
    OBVIOUS
  <2> DEFINE Next1(k) == IF k <= m THEN f[k] ELSE DeleteOnce(f[m], bottom, row, cols)
             g == [k \in 0 .. m + 1 |-> Next1(k)]
  <2>2. ASSUME NEW k \in 0 .. m + 1
        PROVE  Next1(k) = IF k = 0 THEN ls ELSE DeleteOnce(g[k - 1], bottom, row, cols)
    <3>1. m \in Nat
      OBVIOUS
    <3>2. CASE k = 0
      BY <2>1, <3>1, <3>2 DEF DeletedBy
    <3>3. CASE k # 0 /\ k <= m
      <4>1. k \in 0 .. m /\ k - 1 \in 0 .. m + 1 /\ k - 1 <= m
        BY <3>1, <3>3
      <4>2. f[k] = DeleteOnce(f[k - 1], bottom, row, cols)
        BY <2>1, <3>3, <4>1 DEF DeletedBy
      <4>3. g[k - 1] = f[k - 1]
        BY <4>1
      <4>4. QED
        BY <3>3, <4>2, <4>3
    <3>4. CASE k = m + 1
      <4>1. k - 1 = m /\ m \in 0 .. m + 1 /\ ~(k <= m) /\ k # 0
        BY <3>1, <3>4
      <4>2. g[m] = f[m]
        BY <3>1, <4>1
      <4>3. QED
        BY <3>4, <4>1, <4>2
    <3>5. QED
      BY <3>1, <3>2, <3>3, <3>4
  <2>3. g = [k \in 0 .. m + 1 |-> IF k = 0 THEN ls ELSE DeleteOnce(g[k - 1], bottom, row, cols)]
    BY <2>2
  <2> HIDE DEF g
  <2>4. DeletedBy(g, m + 1, ls, bottom, row, cols)
    BY <2>3 DEF DeletedBy
  <2>5. QED
    BY <2>4
<1> HIDE DEF S
<1>3. S \in SUBSET Nat
  BY DEF S
<1>4. n \in S
  BY <1>1, <1>2, <1>3, Induction
<1>5. QED
  BY <1>4 DEF S

\* DL: lines deleted at the cursor.
LEMMA DeleteLinesIs ==
    ASSUME NEW g, IsDrawn(g), NEW n \in Nat
    PROVE  IsDrawn(DeleteLines(g, n))
<1> DEFINE b == g.scroll_bottom
           p == g.pos.row
           k == AtMost(n, g.rows - p)
           F == CHOOSE f : DeletedBy(f, k, g.lines, b, p, g.cols)
           T == {m \in Nat : m <= k => Full(F[m], g.rows, g.cols)}
<1>1. DeleteLines(g, n) = [g EXCEPT !.lines = F[k]]
  BY DEF DeleteLines, DeletedBy, DeleteOnce
<1>3. /\ g.rows \in Nat \ {0} /\ g.cols \in Nat \ {0} /\ b \in 0 .. g.rows - 1
      /\ p \in 0 .. g.rows - 1 /\ k \in Nat
  <2>1. /\ g.rows \in Nat \ {0} /\ g.cols \in Nat \ {0} /\ b \in Nat /\ b <= g.rows - 1
        /\ p \in 0 .. g.rows - 1
    BY CursorIs
  <2> HIDE DEF b, p
  <2>2. QED
    BY <2>1 DEF AtMost
<1> HIDE DEF k, b, p
<1>2. DeletedBy(F, k, g.lines, b, p, g.cols)
  BY <1>3, DeletesRun
<1> HIDE DEF F
<1>4. F[0] = g.lines
  BY <1>2, <1>3 DEF DeletedBy
<1>5. 0 \in T
  BY <1>4, FullIs
<1>6. ASSUME NEW m \in T
      PROVE  m + 1 \in T
  <2>1. SUFFICES ASSUME m + 1 <= k
                 PROVE  Full(F[m + 1], g.rows, g.cols)
    OBVIOUS
  <2>2. m \in Nat /\ Full(F[m], g.rows, g.cols) /\ m + 1 \in 0 .. k /\ m + 1 # 0 /\ (m + 1) - 1 = m
    BY <1>3, <2>1
  <2>3. F[m + 1] = DeleteOnce(F[m], b, p, g.cols)
    BY <1>2, <2>2 DEF DeletedBy
  <2>4. QED
    BY <1>3, <2>2, <2>3, DeleteOnceIs
<1> HIDE DEF T
<1>7. T \in SUBSET Nat
  BY DEF T
<1>8. k \in T
  BY <1>3, <1>5, <1>6, <1>7, Induction
<1>9. Full(F[k], g.rows, g.cols)
  BY <1>3, <1>8 DEF T
<1>10. QED
  BY <1>1, <1>9, FullSet

\* One line scrolled up, into the history unless a region is set.
ScrollOnce(h) ==
    LET rest == RemoveAt(InsertAt(h.lines, h.scroll_bottom + 2, RowNew(h.cols)), h.scroll_top + 1)
        history == Append(h.scrollback, h.lines[h.scroll_top + 1])
        kept == SubSeq(history, Sat(Len(history) - h.scrollback_len) + 1, Len(history))
    IN  IF h.scrollback_len > 0 /\ ~ScrollRegionActive(h)
        THEN [h EXCEPT !.lines = rest, !.scrollback = kept,
                       !.scrollback_offset = IF @ > 0 THEN AtMost(Len(kept), @ + 1) ELSE 0]
        ELSE [h EXCEPT !.lines = rest]

\* What is kept of the history are rows of it.
LEMMA KeptIs ==
    ASSUME NEW ls, History(ls), NEW r, IsRow(r), NEW limit \in Nat
    PROVE  LET history == Append(ls, r)
           IN  History(SubSeq(history, Sat(Len(history) - limit) + 1, Len(history)))
<1> DEFINE h == Append(ls, r)
           l == Len(h)
           m == Sat(l - limit) + 1
           u == SubSeq(h, m, l)
<1>1. IsSeq(ls) /\ Len(ls) \in Nat /\ \A i \in 1 .. Len(ls) : IsRow(ls[i])
  BY IsSeqDomain DEF History
<1>2. IsSeq(h)
  BY <1>1, IsSeqAppend
<1>3. l = Len(ls) + 1 /\ l \in Nat
  BY <1>1, IsSeqAppend
<1>4. \A i \in 1 .. Len(ls) : h[i] = ls[i]
  BY <1>1, IsSeqAppend
<1>5. h[Len(ls) + 1] = r
  BY <1>1, IsSeqAppend
<1> HIDE DEF h
<1>6. \A i \in 1 .. l : IsRow(h[i])
  <2>1. ASSUME NEW i \in 1 .. l
        PROVE  IsRow(h[i])
    <3> HIDE DEF l
    <3>1. CASE i = l
      BY <1>3, <1>5, <3>1
    <3>2. CASE i # l
      <4>1. i \in 1 .. Len(ls)
        BY <1>1, <1>3, <3>2
      <4>2. QED
        BY <1>1, <1>4, <4>1
    <3>3. QED
      BY <3>1, <3>2
  <2>2. QED
    BY <2>1
<1>7. m \in Nat \ {0} /\ m <= l + 1
  BY <1>3 DEF Sat
<1>8. l <= Len(h)
  BY <1>3
<1> HIDE DEF m, l
<1>9. IsSeq(u)
  BY <1>2, <1>3, <1>7, <1>8, IsSeqSub
<1>10. Len(u) = IF m <= l THEN l - m + 1 ELSE 0
  BY <1>2, <1>3, <1>7, <1>8, IsSeqSub
<1>11. \A i \in 1 .. Len(u) : u[i] = h[m + i - 1]
  BY <1>2, <1>3, <1>7, <1>8, IsSeqSub
<1> HIDE DEF u
<1>12. ASSUME NEW i \in 1 .. Len(u)
       PROVE  IsRow(u[i])
  <2>1. m + i - 1 \in 1 .. l
    BY <1>3, <1>7, <1>10
  <2>2. QED
    BY <1>6, <1>11, <2>1
<1>13. History(u)
  BY <1>9, <1>12 DEF History
<1>14. QED
  BY <1>13 DEF u, m, l, h

\* Scrolling by one line moves it to the history, or drops it.
LEMMA ScrollOnceIs ==
    ASSUME NEW g, IsDrawn(g)
    PROVE  LET h == ScrollOnce(g) IN
           IsDrawn(h) /\ h.rows = g.rows /\ h.cols = g.cols /\ h.pos = g.pos
<1> DEFINE rest == RemoveAt(InsertAt(g.lines, g.scroll_bottom + 2, RowNew(g.cols)), g.scroll_top + 1)
           history == Append(g.scrollback, g.lines[g.scroll_top + 1])
           kept == SubSeq(history, Sat(Len(history) - g.scrollback_len) + 1, Len(history))
           h == [g EXCEPT !.lines = rest]
           x == IF g.scrollback_offset > 0 THEN AtMost(Len(kept), g.scrollback_offset + 1) ELSE 0
           k == [h EXCEPT !.scrollback = kept, !.scrollback_offset = x]
<1>1. /\ g.rows \in Nat \ {0} /\ g.cols \in Nat \ {0} /\ g.scroll_top \in 0 .. g.rows - 1
      /\ g.scroll_bottom \in 0 .. g.rows - 1
  <2>1. /\ g.rows \in Nat \ {0} /\ g.cols \in Nat \ {0} /\ g.scroll_top \in Nat /\ g.scroll_bottom \in Nat
        /\ g.scroll_top <= g.scroll_bottom /\ g.scroll_bottom <= g.rows - 1
    BY CursorIs
  <2>2. QED
    BY <2>1
<1>2. Full(g.lines, g.rows, g.cols) /\ DOMAIN g = GridFields
  BY FullIs, CursorIs
<1>3. ScrollOnce(g) = h \/ ScrollOnce(g) = k
  BY <1>2 DEF ScrollOnce, GridFields
<1>4. rest = DeleteOnce(g.lines, g.scroll_bottom, g.scroll_top, g.cols)
  BY DEF DeleteOnce
<1> HIDE DEF rest
<1>5. Full(rest, g.rows, g.cols)
  BY <1>1, <1>2, <1>4, DeleteOnceIs
<1>6. IsDrawn(h) /\ h.rows = g.rows /\ h.cols = g.cols /\ h.pos = g.pos
  BY <1>5, FullSet
<1>7. History(g.scrollback) /\ g.scrollback_len \in Nat
  BY DEF IsDrawn, IsGrid, Frame
<1>8. IsRow(g.lines[g.scroll_top + 1])
  <2>1. g.scroll_top + 1 \in 1 .. g.rows
    BY <1>1
  <2>2. QED
    BY <1>2, <2>1 DEF Full, RowOf
<1>9. History(kept)
  BY <1>7, <1>8, KeptIs
<1> HIDE DEF h, kept, x
<1>10. IsDrawn(k) /\ k.rows = h.rows /\ k.cols = h.cols /\ k.pos = h.pos
  BY <1>6, <1>9 DEF IsDrawn, IsGrid, Frame, GridFields
<1> HIDE DEF k
<1>11. QED
  BY <1>3, <1>6, <1>10

\* What scrolling line after line goes through.
ScrolledBy(f, n, start) ==
    f = [k \in 0 .. n |-> IF k = 0 THEN start ELSE ScrollOnce(f[k - 1])]

\* Scrolling ends.
LEMMA ScrollsRun ==
    ASSUME NEW n \in Nat, NEW start
    PROVE  \E f : ScrolledBy(f, n, start)
<1> DEFINE S == {m \in Nat : \E f : ScrolledBy(f, m, start)}
<1>1. 0 \in S
  <2> DEFINE g == [k \in 0 .. 0 |-> start]
  <2>1. \A k \in 0 .. 0 : k = 0
    OBVIOUS
  <2>2. g = [k \in 0 .. 0 |-> IF k = 0 THEN start ELSE ScrollOnce(g[k - 1])]
    BY <2>1
  <2>3. ScrolledBy(g, 0, start)
    BY <2>2 DEF ScrolledBy
  <2> HIDE DEF g
  <2>4. QED
    BY <2>3
<1>2. ASSUME NEW m \in S
      PROVE  m + 1 \in S
  <2>1. PICK f : ScrolledBy(f, m, start)
    OBVIOUS
  <2> DEFINE Next1(k) == IF k <= m THEN f[k] ELSE ScrollOnce(f[m])
             g == [k \in 0 .. m + 1 |-> Next1(k)]
  <2>2. ASSUME NEW k \in 0 .. m + 1
        PROVE  Next1(k) = IF k = 0 THEN start ELSE ScrollOnce(g[k - 1])
    <3>1. m \in Nat
      OBVIOUS
    <3>2. CASE k = 0
      BY <2>1, <3>1, <3>2 DEF ScrolledBy
    <3>3. CASE k # 0 /\ k <= m
      <4>1. k \in 0 .. m /\ k - 1 \in 0 .. m + 1 /\ k - 1 <= m
        BY <3>1, <3>3
      <4>2. f[k] = ScrollOnce(f[k - 1])
        BY <2>1, <3>3, <4>1 DEF ScrolledBy
      <4>3. g[k - 1] = f[k - 1]
        BY <4>1
      <4>4. QED
        BY <3>3, <4>2, <4>3
    <3>4. CASE k = m + 1
      <4>1. k - 1 = m /\ m \in 0 .. m + 1 /\ ~(k <= m) /\ k # 0
        BY <3>1, <3>4
      <4>2. g[m] = f[m]
        BY <3>1, <4>1
      <4>3. QED
        BY <3>4, <4>1, <4>2
    <3>5. QED
      BY <3>1, <3>2, <3>3, <3>4
  <2>3. g = [k \in 0 .. m + 1 |-> IF k = 0 THEN start ELSE ScrollOnce(g[k - 1])]
    BY <2>2
  <2> HIDE DEF g
  <2>4. ScrolledBy(g, m + 1, start)
    BY <2>3 DEF ScrolledBy
  <2>5. QED
    BY <2>4
<1> HIDE DEF S
<1>3. S \in SUBSET Nat
  BY DEF S
<1>4. n \in S
  BY <1>1, <1>2, <1>3, Induction
<1>5. QED
  BY <1>4 DEF S

\* SU, and a line feed at the bottom of the region.
LEMMA ScrollUpIs ==
    ASSUME NEW g, IsDrawn(g), NEW n \in Nat
    PROVE  LET h == ScrollUp(g, n) IN
           IsDrawn(h) /\ h.rows = g.rows /\ h.cols = g.cols /\ h.pos = g.pos
<1> DEFINE k == AtMost(n, g.rows - g.scroll_top)
           F == CHOOSE f : ScrolledBy(f, k, g)
           Good(h) == IsDrawn(h) /\ h.rows = g.rows /\ h.cols = g.cols /\ h.pos = g.pos
           T == {m \in Nat : m <= k => Good(F[m])}
<1>1. ScrollUp(g, n) = F[k]
  BY DEF ScrollUp, ScrolledBy, ScrollOnce
<1>2. k \in Nat
  <2>1. g.rows \in Nat \ {0} /\ g.scroll_top \in Nat /\ g.scroll_top <= g.scroll_bottom
        /\ g.scroll_bottom <= g.rows - 1 /\ g.scroll_bottom \in Nat
    BY CursorIs
  <2>2. QED
    BY <2>1 DEF AtMost
<1> HIDE DEF k
<1>3. ScrolledBy(F, k, g)
  BY <1>2, ScrollsRun
<1> HIDE DEF F
<1>4. F[0] = g
  BY <1>2, <1>3 DEF ScrolledBy
<1>5. 0 \in T
  BY <1>4
<1>6. ASSUME NEW m \in T
      PROVE  m + 1 \in T
  <2>1. SUFFICES ASSUME m + 1 <= k
                 PROVE  Good(F[m + 1])
    OBVIOUS
  <2>2. m \in Nat /\ Good(F[m]) /\ m + 1 \in 0 .. k /\ m + 1 # 0 /\ (m + 1) - 1 = m
    BY <1>2, <2>1
  <2>3. F[m + 1] = ScrollOnce(F[m])
    BY <1>3, <2>2 DEF ScrolledBy
  <2>4. QED
    BY <2>2, <2>3, ScrollOnceIs
<1> HIDE DEF T
<1>7. T \in SUBSET Nat
  BY DEF T
<1>8. k \in T
  BY <1>2, <1>5, <1>6, <1>7, Induction
<1>9. Good(F[k])
  BY <1>2, <1>8 DEF T
<1>10. QED
  BY <1>1, <1>9

\* A line feed: the cursor moves down, or the region scrolls.
LEMMA RowIncScrollIs ==
    ASSUME NEW g, IsDrawn(g), NEW n \in Nat
    PROVE  LET h == RowIncScroll(g, n) IN
           IsDrawn(h) /\ h.rows = g.rows /\ h.cols = g.cols /\ h.pos.col = g.pos.col
<1> DEFINE region == InScrollRegion(g)
           down == [g EXCEPT !.pos.row = @ + n]
           kept == RowClampBottom(down, region)
           r == AtMost(g.pos.row + n, IF region THEN g.scroll_bottom ELSE g.rows - 1)
           d == down.pos.row - kept.pos.row
<1>1. region \in BOOLEAN
  BY DEF InScrollRegion
<1>2. RowIncScroll(g, n) = IF region THEN ScrollUp(kept, d) ELSE kept
  BY DEF RowIncScroll
<1>3. DOMAIN g = GridFields /\ g.pos = [row |-> g.pos.row, col |-> g.pos.col] /\ g.pos.row \in Nat
  <2>1. DOMAIN g = GridFields /\ g.pos = [row |-> g.pos.row, col |-> g.pos.col] /\ g.pos.row \in 0 .. g.rows - 1
    BY CursorIs
  <2>2. QED
    BY <2>1
<1>4. down.pos.row = g.pos.row + n
  <2>1. Moved(g, down, g.pos.row + n, g.pos.col)
    BY <1>3, RowMoved
  <2> HIDE DEF down
  <2>2. QED
    BY <2>1 DEF Moved
<1>5. IsDrawn(kept) /\ Moved(g, kept, r, g.pos.col) /\ r \in 0 .. g.rows - 1 /\ r <= g.pos.row + n
  BY <1>1, RowDown
<1> HIDE DEF kept, down, r, region
<1>6. kept.rows = g.rows /\ kept.cols = g.cols /\ kept.pos.col = g.pos.col /\ kept.pos.row = r
  BY <1>5 DEF Moved, Same
<1>7. d \in Nat
  BY <1>3, <1>4, <1>5, <1>6
<1> HIDE DEF d
<1>8. LET h == ScrollUp(kept, d) IN
      IsDrawn(h) /\ h.rows = kept.rows /\ h.cols = kept.cols /\ h.pos = kept.pos
  BY <1>5, <1>7, ScrollUpIs
<1>9. QED
  BY <1>2, <1>5, <1>6, <1>8

\* The other way.
LEMMA RowDecScrollIs ==
    ASSUME NEW g, IsDrawn(g), NEW n \in Nat
    PROVE  IsDrawn(RowDecScroll(g, n))
<1> DEFINE region == InScrollRegion(g)
           up == [g EXCEPT !.pos.row = Sat(@ - n)]
           kept == RowClampTop(up, region)
           s == Sat(g.pos.row - n)
           r == IF region /\ s < g.scroll_top THEN g.scroll_top ELSE s
           d == (kept.pos.row - up.pos.row) + Sat(n - g.pos.row)
<1>1. region \in BOOLEAN
  BY DEF InScrollRegion
<1>2. RowDecScroll(g, n) = ScrollDown(kept, d)
  BY DEF RowDecScroll
<1>3. DOMAIN g = GridFields /\ g.pos = [row |-> g.pos.row, col |-> g.pos.col] /\ g.pos.row \in Nat
  <2>1. DOMAIN g = GridFields /\ g.pos = [row |-> g.pos.row, col |-> g.pos.col] /\ g.pos.row \in 0 .. g.rows - 1
    BY CursorIs
  <2>2. QED
    BY <2>1
<1>4. up.pos.row = s
  <2>1. Moved(g, up, s, g.pos.col)
    BY <1>3, RowMoved
  <2> HIDE DEF up
  <2>2. QED
    BY <2>1 DEF Moved
<1>5. IsDrawn(kept) /\ Moved(g, kept, r, g.pos.col) /\ r \in 0 .. g.rows - 1 /\ s \in 0 .. r
  BY <1>1, RowUp
<1> HIDE DEF kept, up, r, region, s
<1>6. kept.pos.row = r
  BY <1>5 DEF Moved, Same
<1>7. d \in Nat
  BY <1>3, <1>4, <1>5, <1>6 DEF Sat
<1>8. kept.scroll_top \in 0 .. kept.rows - 1
  <2>1. /\ kept.rows \in Nat \ {0} /\ kept.scroll_top \in Nat /\ kept.scroll_bottom \in Nat
        /\ kept.scroll_top <= kept.scroll_bottom /\ kept.scroll_bottom <= kept.rows - 1
    BY <1>5, CursorIs
  <2>2. QED
    BY <2>1
<1> HIDE DEF d
<1>9. IsDrawn(ShiftDown(kept, kept.scroll_top, d))
  BY <1>5, <1>7, <1>8, ShiftDownIs
<1>10. QED
  BY <1>2, <1>9 DEF ScrollDown

\* col_wrap leaves the cursor where the character fits.
LEMMA ColWrapIs ==
    ASSUME NEW g, IsDrawn(g), NEW w \in Nat, w <= g.cols, NEW wrap
    PROVE  LET h == ColWrap(g, w, wrap) IN
           IsDrawn(h) /\ h.cols = g.cols /\ h.pos.col \in 0 .. g.cols - w
<1>0. /\ DOMAIN g = GridFields /\ g.cols \in Nat \ {0} /\ g.rows \in Nat \ {0}
      /\ g.pos.col \in 0 .. g.cols /\ g.pos = [row |-> g.pos.row, col |-> g.pos.col]
      /\ g.pos.row \in 0 .. g.rows - 1
  BY CursorIs
<1>1. CASE g.pos.col <= Sat(g.cols - w)
  <2>1. ColWrap(g, w, wrap) = g
    BY <1>1 DEF ColWrap
  <2>2. g.pos.col \in 0 .. g.cols - w
    BY <1>0, <1>1 DEF Sat
  <2>3. QED
    BY <2>1, <2>2
<1>2. CASE ~(g.pos.col <= Sat(g.cols - w))
  <2> DEFINE marked == SetCurrentRow(g, Wrap(CurrentRow(g), wrap))
             home == [marked EXCEPT !.pos.col = 0]
             next == RowIncScroll(home, 1)
             undone == SetCurrentRow(next, Wrap(CurrentRow(next), FALSE))
  <2>1. ColWrap(g, w, wrap) = next \/ ColWrap(g, w, wrap) = undone
    BY <1>2 DEF ColWrap
  <2>2. RowOf(Wrap(CurrentRow(g), wrap), g.cols)
    BY CurrentRowIs, WrapIs DEF RowOf
  <2>3. IsDrawn(marked) /\ marked.rows = g.rows /\ marked.cols = g.cols /\ marked.pos = g.pos
    BY <2>2, SetCurrentRowIs
  <2> HIDE DEF marked
  <2>4. Moved(marked, home, g.pos.row, 0)
    <3>1. DOMAIN marked = GridFields /\ marked.pos = [row |-> g.pos.row, col |-> g.pos.col]
      BY <1>0, <2>3, CursorIs
    <3>2. QED
      BY <3>1, ColMoved
  <2> HIDE DEF home
  <2>5. IsDrawn(home)
    <3>1. g.pos.row \in 0 .. marked.rows - 1 /\ 0 \in 0 .. marked.cols
      BY <1>0, <2>3
    <3>2. QED
      BY <2>3, <2>4, <3>1, MovedIs
  <2>6. home.cols = g.cols /\ home.pos.col = 0
    BY <2>3, <2>4 DEF Moved, Same
  <2>7. IsDrawn(next) /\ next.cols = g.cols /\ next.pos.col = 0
    BY <2>5, <2>6, RowIncScrollIs
  <2> HIDE DEF next
  <2>8. RowOf(Wrap(CurrentRow(next), FALSE), next.cols)
    BY <2>7, CurrentRowIs, WrapIs DEF RowOf
  <2>9. IsDrawn(undone) /\ undone.cols = g.cols /\ undone.pos.col = 0
    BY <2>7, <2>8, SetCurrentRowIs
  <2> HIDE DEF undone
  <2>10. 0 \in 0 .. g.cols - w
    BY <1>0
  <2>11. QED
    BY <2>1, <2>7, <2>9, <2>10
<1>3. QED
  BY <1>1, <1>2

\* A character drawn where it fits.
LEMMA PutCharIs ==
    ASSUME NEW g, IsDrawn(g), NEW c, NEW a, NEW w, w = Width(c), w # 0,
           g.pos.col \in 0 .. g.cols - w
    PROVE  IsDrawn(PutChar(g, c, w, a))
<1> DEFINE r == CurrentRow(g)
           p == g.pos.col + 1
           u == PutInto(r, p, c, w, a, CellSet(" ", a))
           R(v) == [cells |-> u, wrapped |-> v]
           left == IF r.cells[p].cont THEN [r.cells EXCEPT ![p - 1] = CellClear(a)] ELSE r.cells
           right == IF left[p].wide THEN [left EXCEPT ![p + 1] = CellSet(" ", a)] ELSE left
           put == [right EXCEPT ![p] = CellSet(c, a)]
           cut == w > 1 /\ put[p + 1].wide
           V == r.wrapped /\ ~(cut /\ p + 1 = g.cols - 1)
<1>0. /\ DOMAIN g = GridFields /\ g.cols \in Nat \ {0} /\ g.rows \in Nat \ {0}
      /\ g.pos.col \in 0 .. g.cols /\ g.pos = [row |-> g.pos.row, col |-> g.pos.col]
      /\ g.pos.row \in 0 .. g.rows - 1
  BY CursorIs
<1>1. w \in {1, 2}
  BY DEF Width
<1>2. PutChar(g, c, w, a) = [SetCurrentRow(g, R(V)) EXCEPT !.pos.col = @ + w]
  BY Zenon DEF PutChar, PutInto
<1> HIDE DEF V, cut, put, right, left
<1>3. IsRow(r) /\ Len(r.cells) = g.cols
  BY CurrentRowIs DEF RowOf
<1> HIDE DEF r
<1>4. p \in 1 .. Len(r.cells) /\ p + w - 1 <= Len(r.cells)
  BY <1>0, <1>1, <1>3
<1>5. Plain(CellSet(" ", a))
  BY BlankIs, Zenon
<1>6. AreCells(u) /\ Paired(u) /\ Len(u) = Len(r.cells)
  <2> HIDE DEF p
  <2> QED
    BY <1>3, <1>4, <1>5, PutCells, Zenon
<1> HIDE DEF u
<1>7. ASSUME NEW v
      PROVE  IsDrawn([SetCurrentRow(g, R(v)) EXCEPT !.pos.col = @ + w])
  <2> DEFINE h == SetCurrentRow(g, R(v))
             k == [h EXCEPT !.pos.col = @ + w]
  <2>1. RowOf(R(v), g.cols)
    BY <1>3, <1>6, RowFields DEF RowOf
  <2>2. IsDrawn(h) /\ h.rows = g.rows /\ h.cols = g.cols /\ h.pos = g.pos
    BY <2>1, SetCurrentRowIs
  <2> HIDE DEF h
  <2>3. Moved(h, k, g.pos.row, g.pos.col + w)
    <3>1. DOMAIN h = GridFields /\ h.pos = [row |-> g.pos.row, col |-> g.pos.col]
      BY <1>0, <2>2, CursorIs
    <3>2. k = [h EXCEPT !.pos.col = g.pos.col + w]
      BY <3>1
    <3> HIDE DEF k
    <3>3. QED
      BY <3>1, <3>2, ColMoved
  <2> HIDE DEF k
  <2>4. g.pos.row \in 0 .. h.rows - 1 /\ g.pos.col + w \in 0 .. h.cols
    BY <1>0, <1>1, <2>2
  <2>5. IsDrawn(k)
    BY <2>2, <2>3, <2>4, MovedIs
  <2>6. QED
    BY <2>5 DEF k, h
<1> HIDE DEF R
<1>8. QED
  BY <1>2, <1>7, Zenon

\* A combining character joins the first half of the character before the cursor.
LEMMA CombineInto ==
    ASSUME NEW g, IsDrawn(g), NEW row \in 0 .. g.rows - 1, NEW col \in 0 .. g.cols - 1, NEW c
    PROVE  LET half == IF g.lines[row + 1].cells[col + 1].cont THEN col - 1 ELSE col
           IN  IsDrawn([g EXCEPT !.lines[row + 1].cells[half + 1] = CellAppend(@, c)])
<1> DEFINE k == row + 1
           line == g.lines[k]
           cells == line.cells
           half == IF cells[col + 1].cont THEN col - 1 ELSE col
           q == half + 1
           x == CellAppend(cells[q], c)
           r == [line EXCEPT !.cells[q] = x]
           u == [cells EXCEPT ![q] = x]
<1>0. /\ DOMAIN g = GridFields /\ g.cols \in Nat \ {0} /\ g.rows \in Nat \ {0}
      /\ Full(g.lines, g.rows, g.cols)
  BY CursorIs, FullIs
<1>1. k \in 1 .. g.rows /\ col + 1 \in 1 .. g.cols
  BY <1>0
<1>2. RowOf(line, g.cols)
  BY <1>0, <1>1 DEF Full
<1>3. [g EXCEPT !.lines[row + 1].cells[half + 1] = CellAppend(@, c)] = [g EXCEPT !.lines[k] = r]
  OBVIOUS
<1>4. AreCells(cells) /\ Paired(cells) /\ Len(cells) = g.cols /\ DOMAIN line = {"cells", "wrapped"}
  BY <1>2 DEF RowOf, IsRow
<1>5. r.cells = u /\ DOMAIN r = {"cells", "wrapped"}
  BY <1>4
<1> HIDE DEF r, k, line, cells
<1>6. q \in 1 .. Len(cells)
  <2>1. CASE cells[col + 1].cont
    <3>1. col + 1 > 1
      BY <1>1, <1>4, <2>1, PairedIs
    <3>2. QED
      BY <1>1, <1>4, <2>1, <3>1
  <2>2. CASE ~cells[col + 1].cont
    BY <1>1, <1>4, <2>2
  <2>3. QED
    BY <2>1, <2>2
<1> HIDE DEF half, q
<1>7. IsCell(x) /\ x.wide = cells[q].wide /\ x.cont = cells[q].cont
  <2>1. IsCell(cells[q])
    BY <1>4, <1>6 DEF AreCells
  <2>2. QED
    BY <2>1, AppendIs
<1> HIDE DEF x
<1>8. AreCells(u) /\ Paired(u) /\ Len(u) = Len(cells)
  BY <1>4, <1>6, <1>7, SameKind
<1> HIDE DEF u
<1>9. RowOf(r, g.cols)
  BY <1>4, <1>5, <1>8 DEF RowOf, IsRow
<1>10. IsDrawn([g EXCEPT !.lines[k] = r])
  BY <1>1, <1>9, LineSet
<1>11. QED
  BY <1>3, <1>10 DEF half, line, k, cells

\* A combining mark is joined to the cell before the cursor.
LEMMA CombineIs ==
    ASSUME NEW g, IsDrawn(g), NEW c
    PROVE  IsDrawn(Combine(g, c))
<1>0. /\ g.cols \in Nat \ {0} /\ g.rows \in Nat \ {0}
      /\ g.pos.col \in 0 .. g.cols /\ g.pos.row \in 0 .. g.rows - 1
  BY CursorIs
<1> DEFINE Half(row, col) == IF g.lines[row + 1].cells[col + 1].cont THEN col - 1 ELSE col
           Into(row, col) == [g EXCEPT !.lines[row + 1].cells[Half(row, col) + 1] = CellAppend(@, c)]
<1>1. Combine(g, c) = IF g.pos.col > 0 THEN Into(g.pos.row, g.pos.col - 1)
                      ELSE IF g.pos.row > 0 /\ g.lines[g.pos.row].wrapped
                           THEN Into(g.pos.row - 1, g.cols - 1) ELSE g
  BY DEF Combine
<1>2. ASSUME NEW row \in 0 .. g.rows - 1, NEW col \in 0 .. g.cols - 1
      PROVE  IsDrawn(Into(row, col))
  BY CombineInto
<1> HIDE DEF Into
<1>3. g.pos.col > 0 => g.pos.row \in 0 .. g.rows - 1 /\ g.pos.col - 1 \in 0 .. g.cols - 1
  BY <1>0
<1>4. g.pos.row > 0 => g.pos.row - 1 \in 0 .. g.rows - 1 /\ g.cols - 1 \in 0 .. g.cols - 1
  BY <1>0
<1>5. QED
  BY <1>1, <1>2, <1>3, <1>4

\* A cursor that was outside of the grid moved into it.
LEMMA MovedInto ==
    ASSUME NEW g, Frame(g), Len(g.lines) = g.rows, NEW r \in 0 .. g.rows - 1, NEW c \in 0 .. g.cols,
           NEW h, Moved(g, h, r, c)
    PROVE  IsDrawn(h)
<1>1. Cursor(h.pos, h.rows, h.cols)
  BY DEF Moved, Same, Cursor
<1>2. Frame(h)
  BY DEF Frame, Moved, Same
<1>3. QED
  BY <1>1, <1>2 DEF IsDrawn, IsGrid, Moved, Same

\* Resizing cuts or extends every line, and allocates those that were not there.
LEMMA SetSizeIs ==
    ASSUME NEW g, IsGrid(g), NEW rows \in Nat \ {0}, NEW cols \in Nat \ {0}
    PROVE  IsDrawn(SetSize(g, rows, cols))
<1> DEFINE follow == IF g.scroll_bottom = g.rows - 1 THEN rows - 1 ELSE g.scroll_bottom
           bottom == AtMost(follow, rows - 1)
           top == IF bottom < g.scroll_top THEN 0 ELSE g.scroll_top
           ls == [i \in 1 .. rows |-> IF i <= Len(g.lines) THEN RowResize(g.lines[i], cols)
                                      ELSE RowNew(cols)]
           sp == [row |-> AtMost(g.saved_pos.row, rows - 1), col |-> AtMost(g.saved_pos.col, cols - 1)]
           z == [g EXCEPT !.rows = rows, !.cols = cols, !.lines = ls, !.scroll_bottom = bottom,
                          !.scroll_top = top, !.saved_pos = sp]
           k == RowClampBottom(RowClampTop(z, FALSE), FALSE)
           r == AtMost(g.pos.row, rows - 1)
           c == AtMost(g.pos.col, cols - 1)
<1>1. /\ DOMAIN g = GridFields /\ g.rows \in Nat \ {0} /\ g.cols \in Nat \ {0}
      /\ g.scroll_top \in Nat /\ g.scroll_bottom \in Nat /\ g.scroll_top <= g.scroll_bottom
      /\ g.scroll_bottom <= g.rows - 1
      /\ Cursor(g.pos, g.rows, g.cols) /\ Cursor(g.saved_pos, g.rows, g.cols)
      /\ g.origin_mode \in BOOLEAN /\ g.saved_origin_mode \in BOOLEAN
      /\ History(g.scrollback) /\ g.scrollback_len \in Nat
      /\ \A i \in 1 .. Len(g.lines) : RowOf(g.lines[i], g.cols)
      /\ Len(g.lines) \in Nat
  BY DEF IsGrid, Frame, Lines
<1>2. SetSize(g, rows, cols) = ColClamp(k)
  BY <1>1 DEF SetSize, GridFields
<1>3. bottom \in Nat /\ top \in Nat /\ top <= bottom /\ bottom <= rows - 1
  BY <1>1 DEF AtMost
<1>4. IsSeq(ls) /\ Len(ls) = rows
  BY IsSeqFun
<1>5. \A i \in 1 .. rows : RowOf(ls[i], cols)
  <2>1. ASSUME NEW i \in 1 .. rows
        PROVE  RowOf(ls[i], cols)
    <3>1. CASE i <= Len(g.lines)
      <4>1. i \in 1 .. Len(g.lines)
        BY <1>1, <3>1
      <4>2. IsRow(g.lines[i])
        BY <1>1, <4>1 DEF RowOf
      <4>3. ls[i] = RowResize(g.lines[i], cols)
        BY <3>1
      <4>4. QED
        BY <4>2, <4>3, RowResizeIs
    <3>2. CASE ~(i <= Len(g.lines))
      <4>1. ls[i] = RowNew(cols)
        BY <3>2
      <4>2. QED
        BY <4>1, RowNewIs
    <3>3. QED
      BY <3>1, <3>2
  <2>2. QED
    BY <2>1
<1> HIDE DEF ls, bottom, top
<1>6. Lines(ls, rows, cols)
  BY <1>4, <1>5 DEF Lines
<1>7. Cursor(sp, rows, cols)
  BY <1>1 DEF Cursor, AtMost
<1> HIDE DEF sp
<1>8. /\ DOMAIN z = GridFields /\ z.rows = rows /\ z.cols = cols /\ z.lines = ls /\ z.saved_pos = sp
      /\ z.scroll_bottom = bottom /\ z.scroll_top = top /\ z.pos = g.pos
      /\ z.origin_mode = g.origin_mode /\ z.saved_origin_mode = g.saved_origin_mode
      /\ z.scrollback = g.scrollback /\ z.scrollback_len = g.scrollback_len
  BY <1>1 DEF GridFields
<1> HIDE DEF z
<1>9. Frame(z) /\ Len(z.lines) = z.rows
  BY <1>1, <1>3, <1>4, <1>6, <1>7, <1>8 DEF Frame
<1>10. z.pos = [row |-> g.pos.row, col |-> g.pos.col]
  BY <1>1, <1>8 DEF Cursor
<1>11. RowClampTop(z, FALSE) = z
  BY DEF RowClampTop
<1>12. Moved(z, k, r, g.pos.col)
  BY <1>8, <1>10, <1>11, RowClampBottomIs
<1> HIDE DEF k
<1>13. DOMAIN k = GridFields /\ k.pos = [row |-> r, col |-> g.pos.col] /\ k.cols = cols
  BY <1>8, <1>12 DEF Moved, Same
<1>14. Moved(k, ColClamp(k), r, c)
  BY <1>13, ColClampIs
<1>15. r \in 0 .. z.rows - 1 /\ c \in 0 .. z.cols
  BY <1>1, <1>8 DEF Cursor, AtMost
<1> HIDE DEF r, c
<1>16. Moved(z, ColClamp(k), r, c)
  BY <1>12, <1>14, MovedTwice
<1>17. QED
  BY <1>2, <1>9, <1>15, <1>16, MovedInto

-----------------------------------------------------------------------------
(* Screens.                                                                *)

ScreenFields == {"grid", "alternate", "attrs", "saved_attrs", "modes", "mouse", "encoding"}

\* The alternate grid has lines once it was entered.
WellFormed(s) ==
    /\ DOMAIN s = ScreenFields
    /\ IsDrawn(s.grid) /\ IsGrid(s.alternate)
    /\ "alternate" \in s.modes => IsDrawn(s.alternate)

\* A new screen is well formed.
LEMMA ScreenNewIs ==
    ASSUME NEW rows \in Nat \ {0}, NEW cols \in Nat \ {0}, NEW limit \in Nat
    PROVE  WellFormed(ScreenNew(rows, cols, limit))
<1> DEFINE s == ScreenNew(rows, cols, limit)
<1>1. /\ DOMAIN s = ScreenFields /\ s.grid = AllocateRows(GridNew(rows, cols, limit))
      /\ s.alternate = GridNew(rows, cols, 0) /\ s.modes = {}
  BY DEF ScreenNew, ScreenFields
<1> HIDE DEF s
<1>2. IsGrid(GridNew(rows, cols, limit)) /\ IsGrid(GridNew(rows, cols, 0))
  BY GridNewIs
<1>3. IsDrawn(AllocateRows(GridNew(rows, cols, limit)))
  BY <1>2, AllocateRowsIs
<1>4. WellFormed(s)
  BY <1>1, <1>2, <1>3 DEF WellFormed
<1>5. QED
  BY <1>4 DEF s

\* The grid in use is drawn, and may be replaced by any that is.
LEMMA CurrentGrid ==
    ASSUME NEW s, WellFormed(s)
    PROVE  IsDrawn(G(s))
BY DEF WellFormed, G

\* The grid in use may be replaced by any that is drawn.
LEMMA WithGIs ==
    ASSUME NEW s, WellFormed(s), NEW g, IsDrawn(g)
    PROVE  WellFormed(WithG(s, g)) /\ WithG(s, g).modes = s.modes
BY DEF WellFormed, WithG, IsDrawn, ScreenFields

\* What only changes attributes and modes, the alternate screen apart.
LEMMA RestSet ==
    ASSUME NEW s, WellFormed(s), NEW x
    PROVE  /\ WellFormed([s EXCEPT !.attrs = x]) /\ WellFormed([s EXCEPT !.saved_attrs = x])
           /\ WellFormed([s EXCEPT !.mouse = x]) /\ WellFormed([s EXCEPT !.encoding = x])
BY DEF WellFormed, ScreenFields

\* A mode is set without touching the grids.
LEMMA ModesSet ==
    ASSUME NEW s, WellFormed(s), NEW m, m # "alternate"
    PROVE  WellFormed([s EXCEPT !.modes = @ \cup {m}])
BY DEF WellFormed, ScreenFields

\* A mode is reset without touching the grids.
LEMMA ModesDropped ==
    ASSUME NEW s, WellFormed(s), NEW m
    PROVE  WellFormed([s EXCEPT !.modes = @ \ {m}])
BY DEF WellFormed, ScreenFields

\* Resizing cuts or pads both grids.
LEMMA ScreenSetSizeIs ==
    ASSUME NEW s, WellFormed(s), NEW rows \in Nat \ {0}, NEW cols \in Nat \ {0}
    PROVE  WellFormed(ScreenSetSize(s, rows, cols))
<1> DEFINE a == SetSize(s.grid, rows, cols)
           b == SetSize(s.alternate, rows, cols)
           u == [s EXCEPT !.grid = a, !.alternate = b]
<1>1. IsGrid(s.grid) /\ IsGrid(s.alternate) /\ DOMAIN s = ScreenFields
  BY DEF WellFormed, IsDrawn
<1>2. ScreenSetSize(s, rows, cols) = u
  BY <1>1 DEF ScreenSetSize, ScreenFields
<1>3. IsDrawn(a) /\ IsDrawn(b)
  BY <1>1, SetSizeIs
<1> HIDE DEF a, b
<1>4. WellFormed(u)
  BY <1>1, <1>3 DEF WellFormed, ScreenFields, IsDrawn
<1>5. QED
  BY <1>2, <1>4

\* Entering the alternate screen allocates its lines; leaving it keeps them.
LEMMA EnterAlternateIs ==
    ASSUME NEW s, WellFormed(s)
    PROVE  WellFormed(EnterAlternate(s)) /\ WellFormed(ExitAlternate(s))
<1> DEFINE g == SetScrollback(G(s), 0)
           left == WithG(s, g)
           b == AllocateRows(left.alternate)
           u == [left EXCEPT !.modes = @ \cup {"alternate"}, !.alternate = b]
<1>1. EnterAlternate(s) = u
  BY DEF EnterAlternate
<1>2. IsDrawn(g)
  BY CurrentGrid, SetScrollbackIs
<1> HIDE DEF g
<1>3. WellFormed(left)
  BY <1>2, WithGIs
<1> HIDE DEF left
<1>4. IsDrawn(b)
  BY <1>3, AllocateRowsIs DEF WellFormed
<1> HIDE DEF b
<1>5. WellFormed(u)
  BY <1>3, <1>4 DEF WellFormed, ScreenFields, IsDrawn
<1>6. WellFormed(ExitAlternate(s))
  BY DEF ExitAlternate, WellFormed, ScreenFields
<1>7. QED
  BY <1>1, <1>5, <1>6

\* Saving and restoring the cursor with the attributes.
LEMMA DecscIs ==
    ASSUME NEW s, WellFormed(s)
    PROVE  WellFormed(Decsc(s)) /\ WellFormed(Decrc(s))
<1>1. WellFormed(WithG(s, SaveCursor(G(s)))) /\ WellFormed(WithG(s, RestoreCursor(G(s))))
  BY CurrentGrid, SaveIs, WithGIs
<1>2. QED
  BY <1>1, RestSet DEF Decsc, Decrc

\* A character, printed or joined to the one before it.
LEMMA TextIs ==
    ASSUME NEW s, WellFormed(s), NEW c
    PROVE  WellFormed(Text(s, c))
<1> DEFINE g == G(s)
           w == Width(c)
           last == CurrentRow(g).cells[g.cols]
           soft == g.pos.col > g.cols - w /\ (last.text # <<>> \/ last.cont \/ w > 1)
           at == ColWrap(g, w, soft)
           h == IF w = 0 THEN Combine(at, c) ELSE PutChar(at, c, w, s.attrs)
<1>1. Text(s, c) = IF c \in Undrawable \/ w > g.cols THEN s ELSE WithG(s, h)
  BY DEF Text
<1>2. IsDrawn(g)
  BY CurrentGrid
<1>3. w \in Nat
  BY DEF Width
<1> HIDE DEF g, soft
<1>4. SUFFICES ASSUME ~(w > g.cols)
               PROVE  WellFormed(WithG(s, h))
  BY <1>1
<1>5. g.cols \in Nat
  BY <1>2, CursorIs
<1>6. w <= g.cols
  BY <1>3, <1>4, <1>5
<1>7. IsDrawn(at) /\ at.cols = g.cols /\ at.pos.col \in 0 .. g.cols - w
  <2> HIDE DEF w
  <2>1. QED
    BY <1>2, <1>3, <1>6, ColWrapIs
<1> HIDE DEF at
<1>8. IsDrawn(h)
  <2>1. CASE w = 0
    BY <1>7, <2>1, CombineIs
  <2>2. CASE w # 0
    <3>1. h = PutChar(at, c, w, s.attrs)
      BY <2>2
    <3>2. IsDrawn(PutChar(at, c, w, s.attrs))
      BY <1>7, <2>2, PutCharIs
    <3>3. QED
      BY <3>1, <3>2
  <2>3. QED
    BY <2>1, <2>2
<1> HIDE DEF h
<1>9. QED
  BY <1>8, WithGIs

-----------------------------------------------------------------------------
(* Control functions.                                                      *)

Uncounted == {"bs", "tab", "lf", "vt", "ff", "cr", "ri", "ed", "el"}
Counted == {"ich", "cuu", "cud", "cuf", "cub", "cnl", "cpl", "cha", "il", "dl", "dch", "su", "sd",
            "ech", "vpa"}
Placed == {"cup", "decstbm"}
OnScreen == {"text", "decsc", "decrc", "deckpam", "deckpnm", "ris", "sgr", "decset", "decrst"}

\* A control function with its parameters.
IsOp(op) ==
    /\ op.f \in Uncounted \cup Counted \cup Placed \cup OnScreen
    /\ op.f \in Counted \cup Placed => op.n \in Nat
    /\ op.f \in Placed => op.m \in Nat

\* Those that act on the grid.
LEMMA GridFunctionIs ==
    ASSUME NEW g, IsDrawn(g), NEW op, IsOp(op), op.f \notin OnScreen, NEW a
    PROVE  IsDrawn(GridFunction(g, op, a))
<1> DEFINE n == Canonical(op.n, 1)
           h == GridFunction(g, op, a)
<1>1. ASSUME op.f \in Counted \cup Placed
      PROVE  n \in Nat \ {0} /\ n - 1 \in Nat
  BY <1>1 DEF IsOp, Canonical
<1>2. g.pos.row \in 0 .. g.rows - 1 /\ g.rows \in Nat \ {0}
  BY CursorIs
<1>3. CASE op.f = "bs"
  <2>1. h = ColDec(g, 1)
    BY <1>3 DEF GridFunction
  <2>2. QED
    BY <2>1, ColDecIs
<1>4. CASE op.f = "tab"
  <2>1. h = ColTab(g)
    BY <1>4 DEF GridFunction
  <2>2. QED
    BY <2>1, ColMoves
<1>5. CASE op.f = "lf"
  <2>1. h = RowIncScroll(g, 1)
    BY <1>5 DEF GridFunction
  <2>2. QED
    BY <2>1, RowIncScrollIs
<1>6. CASE op.f = "vt"
  <2>1. h = RowIncScroll(g, 1)
    BY <1>6 DEF GridFunction
  <2>2. QED
    BY <2>1, RowIncScrollIs
<1>7. CASE op.f = "ff"
  <2>1. h = RowIncScroll(g, 1)
    BY <1>7 DEF GridFunction
  <2>2. QED
    BY <2>1, RowIncScrollIs
<1>8. CASE op.f = "cr"
  <2>1. h = ColSet(g, 0)
    BY <1>8 DEF GridFunction
  <2>2. QED
    BY <2>1, ColMoves
<1>9. CASE op.f = "ri"
  <2>1. h = RowDecScroll(g, 1)
    BY <1>9 DEF GridFunction
  <2>2. QED
    BY <2>1, RowDecScrollIs
<1>10. CASE op.f = "ich"
  <2>1. h = InsertCells(g, n)
    BY <1>10 DEF GridFunction
  <2>2. n \in Nat /\ n - 1 \in Nat
    BY <1>1, <1>10 DEF Counted, Placed
  <2> HIDE DEF n
  <2>3. QED
    BY <2>1, <2>2, InsertCellsIs
<1>11. CASE op.f = "cuu"
  <2>1. h = RowDecClamp(g, n)
    BY <1>11 DEF GridFunction
  <2>2. n \in Nat /\ n - 1 \in Nat
    BY <1>1, <1>11 DEF Counted, Placed
  <2> HIDE DEF n
  <2>3. QED
    BY <2>1, <2>2, RowMoves
<1>12. CASE op.f = "cud"
  <2>1. h = RowIncClamp(g, n)
    BY <1>12 DEF GridFunction
  <2>2. n \in Nat /\ n - 1 \in Nat
    BY <1>1, <1>12 DEF Counted, Placed
  <2> HIDE DEF n
  <2>3. QED
    BY <2>1, <2>2, RowMoves
<1>13. CASE op.f = "cuf"
  <2>1. h = ColIncClamp(g, n)
    BY <1>13 DEF GridFunction
  <2>2. n \in Nat /\ n - 1 \in Nat
    BY <1>1, <1>13 DEF Counted, Placed
  <2> HIDE DEF n
  <2>3. QED
    BY <2>1, <2>2, ColMoves
<1>14. CASE op.f = "cub"
  <2>1. h = ColDec(g, n)
    BY <1>14 DEF GridFunction
  <2>2. n \in Nat /\ n - 1 \in Nat
    BY <1>1, <1>14 DEF Counted, Placed
  <2> HIDE DEF n
  <2>3. QED
    BY <2>1, <2>2, ColDecIs
<1>15. CASE op.f = "cnl"
  <2>1. h = RowIncClamp(ColSet(g, 0), n)
    BY <1>15 DEF GridFunction
  <2>2. n \in Nat /\ n - 1 \in Nat
    BY <1>1, <1>15 DEF Counted, Placed
  <2> HIDE DEF n
  <2>3. QED
    BY <2>1, <2>2, ColMoves, RowMoves
<1>16. CASE op.f = "cpl"
  <2>1. h = RowDecClamp(ColSet(g, 0), n)
    BY <1>16 DEF GridFunction
  <2>2. n \in Nat /\ n - 1 \in Nat
    BY <1>1, <1>16 DEF Counted, Placed
  <2> HIDE DEF n
  <2>3. QED
    BY <2>1, <2>2, ColMoves, RowMoves
<1>17. CASE op.f = "cha"
  <2>1. h = ColSet(g, n - 1)
    BY <1>17 DEF GridFunction
  <2>2. n \in Nat /\ n - 1 \in Nat
    BY <1>1, <1>17 DEF Counted, Placed
  <2> HIDE DEF n
  <2>3. QED
    BY <2>1, <2>2, ColMoves
<1>18. CASE op.f = "ed"
  <2>1. h = Ed(g, op.n, a)
    BY <1>18 DEF GridFunction
  <2>2. QED
    BY <2>1, ErasesIs
<1>19. CASE op.f = "el"
  <2>1. h = El(g, op.n, a)
    BY <1>19 DEF GridFunction
  <2>2. QED
    BY <2>1, ErasesIs
<1>20. CASE op.f = "il"
  <2>1. h = ShiftDown(g, g.pos.row, n)
    BY <1>20 DEF GridFunction, InsertLines
  <2>2. n \in Nat /\ n - 1 \in Nat
    BY <1>1, <1>20 DEF Counted, Placed
  <2> HIDE DEF n
  <2>3. QED
    BY <2>1, <2>2, <1>2, ShiftDownIs
<1>21. CASE op.f = "dl"
  <2>1. h = DeleteLines(g, n)
    BY <1>21 DEF GridFunction
  <2>2. n \in Nat /\ n - 1 \in Nat
    BY <1>1, <1>21 DEF Counted, Placed
  <2> HIDE DEF n
  <2>3. QED
    BY <2>1, <2>2, DeleteLinesIs
<1>22. CASE op.f = "dch"
  <2>1. h = DeleteCells(g, n)
    BY <1>22 DEF GridFunction
  <2>2. n \in Nat /\ n - 1 \in Nat
    BY <1>1, <1>22 DEF Counted, Placed
  <2> HIDE DEF n
  <2>3. QED
    BY <2>1, <2>2, DeleteCellsIs
<1>23. CASE op.f = "su"
  <2>1. h = ScrollUp(g, n)
    BY <1>23 DEF GridFunction
  <2>2. n \in Nat /\ n - 1 \in Nat
    BY <1>1, <1>23 DEF Counted, Placed
  <2> HIDE DEF n
  <2>3. QED
    BY <2>1, <2>2, ScrollUpIs
<1>24. CASE op.f = "sd"
  <2>1. h = ShiftDown(g, g.scroll_top, n)
    BY <1>24 DEF GridFunction, ScrollDown
  <2>2. n \in Nat /\ n - 1 \in Nat
    BY <1>1, <1>24 DEF Counted, Placed
  <2>3. g.scroll_top \in 0 .. g.rows - 1
    <3>1. g.scroll_top \in Nat /\ g.scroll_bottom \in Nat /\ g.scroll_top <= g.scroll_bottom /\ g.scroll_bottom <= g.rows - 1
      BY CursorIs
    <3>2. QED
      BY <1>2, <3>1
  <2> HIDE DEF n
  <2>4. QED
    BY <2>1, <2>2, <2>3, ShiftDownIs
<1>25. CASE op.f = "ech"
  <2>1. h = EraseCells(g, n, a)
    BY <1>25 DEF GridFunction
  <2>2. n \in Nat /\ n - 1 \in Nat
    BY <1>1, <1>25 DEF Counted, Placed
  <2> HIDE DEF n
  <2>3. QED
    BY <2>1, <2>2, EraseInRowIs
<1>26. CASE op.f = "vpa"
  <2>1. h = RowSet(g, n - 1)
    BY <1>26 DEF GridFunction
  <2>2. n \in Nat /\ n - 1 \in Nat
    BY <1>1, <1>26 DEF Counted, Placed
  <2> HIDE DEF n
  <2>3. QED
    BY <2>1, <2>2, RowSetIs
<1>27. CASE op.f = "cup"
  <2>1. h = SetPos(g, n - 1, Canonical(op.m, 1) - 1)
    BY <1>27 DEF GridFunction
  <2>2. n \in Nat /\ n - 1 \in Nat
    BY <1>1, <1>27 DEF Counted, Placed
  <2>3. Canonical(op.m, 1) - 1 \in Nat
    BY <1>27 DEF IsOp, Placed, Canonical
  <2> HIDE DEF n
  <2>4. QED
    BY <2>1, <2>2, <2>3, SetPosIs
<1>28. CASE op.f = "decstbm"
  <2>1. h = SetScrollRegion(g, n - 1, Canonical(op.m, g.rows) - 1)
    BY <1>28 DEF GridFunction
  <2>2. n \in Nat /\ n - 1 \in Nat
    BY <1>1, <1>28 DEF Counted, Placed
  <2>3. Canonical(op.m, g.rows) - 1 \in Nat
    BY <1>2, <1>28 DEF IsOp, Placed, Canonical
  <2> HIDE DEF n
  <2>4. QED
    BY <2>1, <2>2, <2>3, SetScrollRegionIs
<1>29. QED
  BY <1>3, <1>4, <1>5, <1>6, <1>7, <1>8, <1>9, <1>10, <1>11, <1>12, <1>13, <1>14, <1>15, <1>16, <1>17, <1>18, <1>19, <1>20, <1>21, <1>22, <1>23, <1>24, <1>25, <1>26, <1>27, <1>28 DEF IsOp, Uncounted, Counted, Placed, OnScreen

\* Modes.
LEMMA DecsetIs ==
    ASSUME NEW s, WellFormed(s), NEW p
    PROVE  WellFormed(Decset(s, p))
<1>1. WellFormed(WithG(s, SetOriginMode(G(s), TRUE)))
  BY CurrentGrid, SetOriginModeIs, WithGIs
<1>2. WellFormed(EnterAlternate([Decsc(s) EXCEPT !.alternate = GridClear(@)]))
  <2> DEFINE d == Decsc(s)
             b == GridClear(d.alternate)
             u == [d EXCEPT !.alternate = b]
  <2>1. WellFormed(d)
    BY DecscIs
  <2> HIDE DEF d
  <2>2. IsGrid(b) /\ ("alternate" \in d.modes => IsDrawn(b))
    BY <2>1, GridClearIs DEF WellFormed
  <2> HIDE DEF b
  <2>3. WellFormed(u)
    BY <2>1, <2>2 DEF WellFormed, ScreenFields
  <2>4. WellFormed(EnterAlternate(u))
    BY <2>3, EnterAlternateIs
  <2>5. QED
    BY <2>4 DEF d, b
<1>3. /\ WellFormed([s EXCEPT !.modes = @ \cup {"cursor_keys"}])
      /\ WellFormed([s EXCEPT !.modes = @ \cup {"bracketed_paste"}])
      /\ WellFormed([s EXCEPT !.modes = @ \ {"hide_cursor"}])
  BY ModesSet, ModesDropped
<1>4. WellFormed(EnterAlternate(s))
  BY EnterAlternateIs
<1>5. WellFormed([s EXCEPT !.mouse = MouseMode(p)]) /\ WellFormed([s EXCEPT !.encoding = MouseEncoding(p)])
  BY RestSet
<1>6. Decset(s, p) \in {WithG(s, SetOriginMode(G(s), TRUE)),
                        EnterAlternate([Decsc(s) EXCEPT !.alternate = GridClear(@)]),
                        [s EXCEPT !.modes = @ \cup {"cursor_keys"}],
                        [s EXCEPT !.modes = @ \cup {"bracketed_paste"}],
                        [s EXCEPT !.modes = @ \ {"hide_cursor"}], EnterAlternate(s),
                        [s EXCEPT !.mouse = MouseMode(p)], [s EXCEPT !.encoding = MouseEncoding(p)], s}
  BY DEF Decset
<1>7. QED
  BY <1>1, <1>2, <1>3, <1>4, <1>5, <1>6

\* Resetting any private mode.
LEMMA DecrstIs ==
    ASSUME NEW s, WellFormed(s), NEW p
    PROVE  WellFormed(Decrst(s, p))
<1>1. WellFormed(WithG(s, SetOriginMode(G(s), FALSE)))
  BY CurrentGrid, SetOriginModeIs, WithGIs
<1>2. WellFormed(ExitAlternate(s))
  BY EnterAlternateIs
<1>3. WellFormed(Decrc(ExitAlternate(s)))
  BY <1>2, DecscIs
<1>4. /\ WellFormed([s EXCEPT !.modes = @ \ {"cursor_keys"}])
      /\ WellFormed([s EXCEPT !.modes = @ \ {"bracketed_paste"}])
      /\ WellFormed([s EXCEPT !.modes = @ \cup {"hide_cursor"}])
  BY ModesSet, ModesDropped
<1>5. WellFormed([s EXCEPT !.mouse = "none"]) /\ WellFormed([s EXCEPT !.encoding = "default"])
  BY RestSet
<1>6. Decrst(s, p) \in {WithG(s, SetOriginMode(G(s), FALSE)), ExitAlternate(s),
                        Decrc(ExitAlternate(s)), [s EXCEPT !.modes = @ \ {"cursor_keys"}],
                        [s EXCEPT !.modes = @ \ {"bracketed_paste"}],
                        [s EXCEPT !.modes = @ \cup {"hide_cursor"}], [s EXCEPT !.mouse = "none"],
                        [s EXCEPT !.encoding = "default"], s}
  BY DEF Decrst
<1>7. QED
  BY <1>1, <1>2, <1>3, <1>4, <1>5, <1>6

\* Every control function keeps the screen well formed.
LEMMA PerformIs ==
    ASSUME NEW s, WellFormed(s), NEW op, IsOp(op)
    PROVE  WellFormed(Perform(s, op))
<1>1. CASE op.f \notin OnScreen
  <2>1. Perform(s, op) = WithG(s, GridFunction(G(s), op, s.attrs))
    BY <1>1 DEF Perform, OnScreen
  <2>2. IsDrawn(GridFunction(G(s), op, s.attrs))
    BY <1>1, CurrentGrid, GridFunctionIs
  <2>3. QED
    BY <2>1, <2>2, WithGIs
<1>2. CASE op.f = "text"
  BY <1>2, TextIs DEF Perform
<1>3. CASE op.f = "decsc"
  BY <1>3, DecscIs DEF Perform
<1>4. CASE op.f = "decrc"
  BY <1>4, DecscIs DEF Perform
<1>5. CASE op.f = "deckpam"
  BY <1>5, ModesSet DEF Perform
<1>6. CASE op.f = "deckpnm"
  <2>1. Perform(s, op) = [s EXCEPT !.modes = @ \ {"keypad"}]
    BY <1>6 DEF Perform
  <2>2. QED
    BY <2>1, ModesDropped
<1>7. CASE op.f = "ris"
  <2>1. Perform(s, op) = ScreenNew(s.grid.rows, s.grid.cols, s.grid.scrollback_len)
    BY <1>7 DEF Perform
  <2>2. s.grid.rows \in Nat \ {0} /\ s.grid.cols \in Nat \ {0} /\ s.grid.scrollback_len \in Nat
    BY DEF WellFormed, IsDrawn, IsGrid, Frame
  <2>3. QED
    BY <2>1, <2>2, ScreenNewIs
<1>8. CASE op.f = "sgr"
  <2> DEFINE x == op.set @@ s.attrs
  <2>1. Perform(s, op) = [s EXCEPT !.attrs = x]
    BY <1>8 DEF Perform, Sgr
  <2> HIDE DEF x
  <2>2. WellFormed([s EXCEPT !.attrs = x])
    BY RestSet
  <2>3. QED
    BY <2>1, <2>2
<1>9. CASE op.f = "decset"
  BY <1>9, DecsetIs DEF Perform
<1>10. CASE op.f = "decrst"
  BY <1>10, DecrstIs DEF Perform
<1>11. QED
  BY <1>1, <1>2, <1>3, <1>4, <1>5, <1>6, <1>7, <1>8, <1>9, <1>10 DEF OnScreen

\* What processing a run of them goes through.
ProcessedBy(f, n, s, ops) ==
    f = [k \in 0 .. n |-> IF k = 0 THEN s ELSE Perform(f[k - 1], ops[k])]

\* Processing ends.
LEMMA ProcessRuns ==
    ASSUME NEW n \in Nat, NEW s, NEW ops
    PROVE  \E f : ProcessedBy(f, n, s, ops)
<1> DEFINE S == {m \in Nat : \E f : ProcessedBy(f, m, s, ops)}
<1>1. 0 \in S
  <2> DEFINE g == [k \in 0 .. 0 |-> s]
  <2>1. \A k \in 0 .. 0 : k = 0
    OBVIOUS
  <2>2. g = [k \in 0 .. 0 |-> IF k = 0 THEN s ELSE Perform(g[k - 1], ops[k])]
    BY <2>1
  <2>3. ProcessedBy(g, 0, s, ops)
    BY <2>2 DEF ProcessedBy
  <2> HIDE DEF g
  <2>4. QED
    BY <2>3
<1>2. ASSUME NEW m \in S
      PROVE  m + 1 \in S
  <2>1. PICK f : ProcessedBy(f, m, s, ops)
    OBVIOUS
  <2> DEFINE Next1(k) == IF k <= m THEN f[k] ELSE Perform(f[m], ops[m + 1])
             g == [k \in 0 .. m + 1 |-> Next1(k)]
  <2>2. ASSUME NEW k \in 0 .. m + 1
        PROVE  Next1(k) = IF k = 0 THEN s ELSE Perform(g[k - 1], ops[k])
    <3>1. m \in Nat
      OBVIOUS
    <3>2. CASE k = 0
      BY <2>1, <3>1, <3>2 DEF ProcessedBy
    <3>3. CASE k # 0 /\ k <= m
      <4>1. k \in 0 .. m /\ k - 1 \in 0 .. m + 1 /\ k - 1 <= m
        BY <3>1, <3>3
      <4>2. f[k] = Perform(f[k - 1], ops[k])
        BY <2>1, <3>3, <4>1 DEF ProcessedBy
      <4>3. g[k - 1] = f[k - 1]
        BY <4>1
      <4>4. QED
        BY <3>3, <4>2, <4>3
    <3>4. CASE k = m + 1
      <4>1. k - 1 = m /\ m \in 0 .. m + 1 /\ ~(k <= m) /\ k # 0
        BY <3>1, <3>4
      <4>2. g[m] = f[m]
        BY <3>1, <4>1
      <4>3. QED
        BY <3>4, <4>1, <4>2
    <3>5. QED
      BY <3>1, <3>2, <3>3, <3>4
  <2>3. g = [k \in 0 .. m + 1 |-> IF k = 0 THEN s ELSE Perform(g[k - 1], ops[k])]
    BY <2>2
  <2> HIDE DEF g
  <2>4. ProcessedBy(g, m + 1, s, ops)
    BY <2>3 DEF ProcessedBy
  <2>5. QED
    BY <2>4
<1> HIDE DEF S
<1>3. S \in SUBSET Nat
  BY DEF S
<1>4. n \in S
  BY <1>1, <1>2, <1>3, Induction
<1>5. QED
  BY <1>4 DEF S

AreOps(ops) == IsSeq(ops) /\ \A i \in 1 .. Len(ops) : IsOp(ops[i])

\* Every run of them does.
LEMMA ProcessIs ==
    ASSUME NEW s, WellFormed(s), NEW ops, AreOps(ops)
    PROVE  WellFormed(Process(s, ops))
<1> DEFINE n == Len(ops)
           F == CHOOSE f : ProcessedBy(f, n, s, ops)
           T == {m \in Nat : m <= n => WellFormed(F[m])}
<1>1. Process(s, ops) = F[n]
  BY DEF Process, ProcessedBy
<1>2. n \in Nat
  BY IsSeqDomain DEF AreOps
<1>3. \A i \in 1 .. n : IsOp(ops[i])
  BY DEF AreOps
<1> HIDE DEF n
<1>4. ProcessedBy(F, n, s, ops)
  BY <1>2, ProcessRuns
<1> HIDE DEF F
<1>5. F[0] = s
  BY <1>2, <1>4 DEF ProcessedBy
<1>6. 0 \in T
  BY <1>5
<1>7. ASSUME NEW m \in T
      PROVE  m + 1 \in T
  <2>1. SUFFICES ASSUME m + 1 <= n
                 PROVE  WellFormed(F[m + 1])
    OBVIOUS
  <2>2. /\ m \in Nat /\ WellFormed(F[m]) /\ m + 1 \in 0 .. n /\ m + 1 \in 1 .. n
        /\ m + 1 # 0 /\ (m + 1) - 1 = m
    BY <1>2, <2>1
  <2>3. F[m + 1] = Perform(F[m], ops[m + 1])
    BY <1>4, <2>2 DEF ProcessedBy
  <2>4. QED
    BY <1>3, <2>2, <2>3, PerformIs
<1> HIDE DEF T
<1>8. T \in SUBSET Nat
  BY DEF T
<1>9. n \in T
  BY <1>2, <1>6, <1>7, <1>8, Induction
<1>10. WellFormed(F[n])
  BY <1>2, <1>9 DEF T
<1>11. QED
  BY <1>1, <1>10

\* What a program prints, and a frame is put together of, are such runs.
LEMMA AreOpsOne ==
    ASSUME NEW x, IsOp(x)
    PROVE  AreOps(<<x>>)
<1>1. <<x>> \in Seq({<<x>>[i] : i \in DOMAIN <<x>>}) /\ Len(<<x>>) = 1 /\ <<x>>[1] = x
  OBVIOUS
<1>2. \A i \in 1 .. 1 : i = 1
  OBVIOUS
<1>3. QED
  BY <1>1, <1>2 DEF AreOps, IsSeq

\* One run after the other is one.
LEMMA AreOpsConcat ==
    ASSUME NEW s, AreOps(s), NEW t, AreOps(t)
    PROVE  AreOps(s \o t)
<1>1. /\ IsSeq(s \o t) /\ Len(s \o t) = Len(s) + Len(t)
      /\ \A i \in 1 .. Len(s) + Len(t) : (s \o t)[i] = IF i <= Len(s) THEN s[i] ELSE t[i - Len(s)]
  BY IsSeqConcat DEF AreOps
<1>2. Len(s) \in Nat /\ Len(t) \in Nat
  BY IsSeqDomain DEF AreOps
<1>3. ASSUME NEW i \in 1 .. Len(s \o t)
      PROVE  IsOp((s \o t)[i])
  <2>1. CASE i <= Len(s)
    BY <1>1, <1>2, <2>1 DEF AreOps
  <2>2. CASE ~(i <= Len(s))
    <3>1. i - Len(s) \in 1 .. Len(t)
      BY <1>1, <1>2, <2>2
    <3>2. QED
      BY <1>1, <2>2, <3>1 DEF AreOps
  <2>3. QED
    BY <2>1, <2>2
<1>4. QED
  BY <1>1, <1>3 DEF AreOps

\* Two functions in a row.
LEMMA AreOpsTwo ==
    ASSUME NEW x, IsOp(x), NEW y, IsOp(y)
    PROVE  AreOps(<<x, y>>)
<1>1. <<x, y>> = <<x>> \o <<y>>
  OBVIOUS
<1>2. QED
  BY <1>1, AreOpsOne, AreOpsConcat

\* Text, character by character.
LEMMA TextOpsAre ==
    ASSUME NEW text, IsSeq(text)
    PROVE  AreOps(TextOps(text))
<1> DEFINE f == TextOps(text)
<1>1. Len(text) \in Nat /\ DOMAIN text = 1 .. Len(text)
  BY IsSeqDomain
<1>2. f = [i \in 1 .. Len(text) |-> [f |-> "text", c |-> text[i]]]
  BY <1>1 DEF TextOps
<1>3. \A i \in 1 .. Len(text) : f[i].f = "text"
  BY <1>2
<1>4. f = [i \in 1 .. Len(text) |-> f[i]]
  BY <1>2
<1> HIDE DEF f
<1>5. IsSeq(f) /\ Len(f) = Len(text)
  BY <1>1, <1>4, IsSeqFun
<1>6. QED
  BY <1>3, <1>5 DEF AreOps, IsOp, OnScreen, Uncounted, Counted, Placed, f

-----------------------------------------------------------------------------
(* The two uses of the emulator.                                           *)

\* The strengthening of WideHalvesPaired: the screen is well formed, and so is
\* the frame that is to be run through it.
TermInv == WellFormed(screen) /\ AreOps(frame)

\* The screen of a terminal that was reset.
LEMMA NoneIs == WellFormed(None)
BY TermAssumption, ScreenNewIs DEF None

\* Terminal: the invariant holds at the start.
LEMMA TermInitInv == TermInit => TermInv
<1> SUFFICES ASSUME TermInit
             PROVE  TermInv
  OBVIOUS
<1>1. AreOps(<<>>)
  BY IsSeqEmpty DEF AreOps
<1>2. CASE screen = None
  BY <1>1, <1>2, NoneIs DEF TermInit, TermInv
<1>3. CASE role = "pane"
  <2>1. PICK l \in SeqOf(Texts, 2), row \in 1 .. Rows, col \in 1 .. Cols :
          screen = Printed(l, row, col)
    BY <1>3 DEF TermInit
  <2>2. PICK m \in 0 .. 2 : l \in [1 .. m -> Texts]
    BY DEF SeqOf
  <2>3. IsSeq(l)
    BY <2>2, IsSeqFun
  <2> DEFINE op == [f |-> "cup", n |-> row, m |-> col]
  <2>4. row \in Nat /\ col \in Nat
    BY TermAssumption
  <2>5. IsOp(op)
    BY <2>4 DEF IsOp, OnScreen, Uncounted, Counted, Placed
  <2> HIDE DEF op
  <2>6. AreOps(TextOps(l) \o <<op>>)
    BY <2>3, <2>5, TextOpsAre, AreOpsOne, AreOpsConcat
  <2>7. WellFormed(ScreenNew(Rows, Cols, Limit))
    BY TermAssumption, ScreenNewIs
  <2>8. WellFormed(Process(ScreenNew(Rows, Cols, Limit), TextOps(l) \o <<op>>))
    BY <2>6, <2>7, ProcessIs
  <2>9. WellFormed(screen)
    BY <2>1, <2>8 DEF Printed, op
  <2>10. QED
    BY <1>1, <2>9 DEF TermInit, TermInv
<1>4. QED
  BY <1>2, <1>3 DEF TermInit

\* Whatever a pane's program prints.
LEMMA OutputInv ==
    ASSUME TermInv, NEW op, IsOp(op), Output(op)
    PROVE  TermInv'
<1>1. WellFormed(Perform(screen, op))
  BY PerformIs DEF TermInv
<1>2. QED
  BY <1>1 DEF Output, TermInv, paneOnly

\* Terminal: every step preserves it.
LEMMA TermStepInv == TermInv /\ [TermNext]_termVars => TermInv'
<1> SUFFICES ASSUME TermInv, [TermNext]_termVars
             PROVE  TermInv'
  OBVIOUS
<1> USE DEF TermInv
<1>1. CASE PrintChar
  <2>1. PICK c \in Texts \cup Marks \cup Undrawable : Output([f |-> "text", c |-> c])
    BY <1>1 DEF PrintChar
  <2>2. IsOp([f |-> "text", c |-> c])
    BY DEF IsOp, OnScreen, Uncounted, Counted, Placed
  <2>3. QED
    BY <2>1, <2>2, OutputInv
<1>2. CASE Control
  <2>1. PICK x \in {"bs", "tab", "lf", "cr", "ri", "ris", "decsc", "decrc"} : Output([f |-> x])
    BY <1>2 DEF Control
  <2>2. IsOp([f |-> x])
    BY DEF IsOp, OnScreen, Uncounted, Counted, Placed
  <2>3. QED
    BY <2>1, <2>2, OutputInv
<1>3. CASE MoveCursor
  <2>1. CASE \E f \in {"cuu", "cud", "cuf", "cub", "cnl", "cpl", "cha", "vpa"}, n \in Counts :
               Output([f |-> f, n |-> n])
    <3>1. PICK x \in {"cuu", "cud", "cuf", "cub", "cnl", "cpl", "cha", "vpa"}, n \in Counts :
            Output([f |-> x, n |-> n])
      BY <2>1
    <3>2. n \in Nat
      BY TermAssumption
    <3>3. IsOp([f |-> x, n |-> n])
      BY <3>2 DEF IsOp, OnScreen, Uncounted, Counted, Placed
    <3>4. QED
      BY <3>1, <3>3, OutputInv
  <2>2. CASE \E n \in 1 .. Rows, m \in 1 .. Cols : Output([f |-> "cup", n |-> n, m |-> m])
    <3>1. PICK n \in 1 .. Rows, m \in 1 .. Cols : Output([f |-> "cup", n |-> n, m |-> m])
      BY <2>2
    <3>2. n \in Nat /\ m \in Nat
      BY TermAssumption
    <3>3. IsOp([f |-> "cup", n |-> n, m |-> m])
      BY <3>2 DEF IsOp, OnScreen, Uncounted, Counted, Placed
    <3>4. QED
      BY <3>1, <3>3, OutputInv
  <2>3. QED
    BY <1>3, <2>1, <2>2 DEF MoveCursor
<1>4. CASE Edit
  <2>1. PICK x \in {"ich", "dch", "ech", "il", "dl", "su", "sd", "ed", "el"}, n \in Counts :
          Output([f |-> x, n |-> n])
    BY <1>4 DEF Edit
  <2>2. n \in Nat
    BY TermAssumption
  <2>3. IsOp([f |-> x, n |-> n])
    BY <2>2 DEF IsOp, OnScreen, Uncounted, Counted, Placed
  <2>4. QED
    BY <2>1, <2>3, OutputInv
<1>5. CASE Margins
  <2>1. PICK n \in Counts, m \in Counts : Output([f |-> "decstbm", n |-> n, m |-> m])
    BY <1>5 DEF Margins
  <2>2. n \in Nat /\ m \in Nat
    BY TermAssumption
  <2>3. IsOp([f |-> "decstbm", n |-> n, m |-> m])
    BY <2>2 DEF IsOp, OnScreen, Uncounted, Counted, Placed
  <2>4. QED
    BY <2>1, <2>3, OutputInv
<1>6. CASE SetModes
  <2>1. CASE \E f \in {"decset", "decrst"}, p \in {1, 6, 25, 47, 1002, 1006, 1049, 2004} :
               Output([f |-> f, n |-> p])
    <3>1. PICK x \in {"decset", "decrst"}, p \in {1, 6, 25, 47, 1002, 1006, 1049, 2004} :
            Output([f |-> x, n |-> p])
      BY <2>1
    <3>2. IsOp([f |-> x, n |-> p])
      BY DEF IsOp, OnScreen, Uncounted, Counted, Placed
    <3>3. QED
      BY <3>1, <3>2, OutputInv
  <2>2. CASE \E f \in {"deckpam", "deckpnm"} : Output([f |-> f])
    <3>1. PICK x \in {"deckpam", "deckpnm"} : Output([f |-> x])
      BY <2>2
    <3>2. IsOp([f |-> x])
      BY DEF IsOp, OnScreen, Uncounted, Counted, Placed
    <3>3. QED
      BY <3>1, <3>2, OutputInv
  <2>3. CASE Output([f |-> "sgr", set |-> Style(1)])
    <3>1. IsOp([f |-> "sgr", set |-> Style(1)])
      BY DEF IsOp, OnScreen, Uncounted, Counted, Placed
    <3>2. QED
      BY <2>3, <3>1, OutputInv
  <2>4. QED
    BY <1>6, <2>1, <2>2, <2>3 DEF SetModes
<1>7. CASE Resize
  <2>1. PICK size \in Sizes : screen' = ScreenSetSize(screen, size[1], size[2])
    BY <1>7 DEF Resize
  <2>2. size[1] \in Nat \ {0} /\ size[2] \in Nat \ {0}
    BY TermAssumption
  <2>3. WellFormed(ScreenSetSize(screen, size[1], size[2]))
    BY <2>2, ScreenSetSizeIs
  <2>4. QED
    BY <1>7, <2>1, <2>3 DEF Resize, paneOnly
<1>8. CASE ScrollView
  <2>1. PICK n \in Counts : screen' = WithG(screen, SetScrollback(G(screen), n))
    BY <1>8 DEF ScrollView
  <2>2. IsDrawn(SetScrollback(G(screen), n))
    BY CurrentGrid, SetScrollbackIs
  <2>3. WellFormed(WithG(screen, SetScrollback(G(screen), n)))
    BY <2>2, WithGIs
  <2>4. QED
    BY <1>8, <2>1, <2>3 DEF ScrollView, paneOnly
<1>9. CASE BeginFrame
  <2> DEFINE x == [f |-> "decrst", n |-> 25]
             y == [f |-> "sgr", set |-> NoAttrs]
             z == [f |-> "ed", n |-> 2]
  <2>1. PICK clear \in {full', TRUE} :
          frame' = <<x, y>> \o (IF clear THEN <<z>> ELSE <<>>)
    BY <1>9 DEF BeginFrame
  <2>2. IsOp(x) /\ IsOp(y) /\ IsOp(z)
    BY DEF IsOp, OnScreen, Uncounted, Counted, Placed
  <2> HIDE DEF x, y, z
  <2>3. AreOps(<<>>) /\ AreOps(<<z>>) /\ AreOps(<<x, y>>)
    BY <2>2, AreOpsOne, AreOpsTwo, IsSeqEmpty DEF AreOps
  <2>4. AreOps(<<x, y>> \o <<z>>) /\ AreOps(<<x, y>> \o <<>>)
    BY <2>3, AreOpsConcat
  <2>5. AreOps(frame')
    BY <2>1, <2>4
  <2>6. QED
    BY <1>9, <2>5 DEF BeginFrame
<1>10. CASE Draw
  <2>1. PICK row \in 1 .. Rows, col \in 1 .. Cols, label \in Labels :
          frame' = frame \o <<[f |-> "cup", n |-> row, m |-> col],
                              [f |-> "sgr", set |-> Style(label[2])]>>
                         \o TextOps(label[1])
    BY <1>10 DEF Draw
  <2> DEFINE x == [f |-> "cup", n |-> row, m |-> col]
             y == [f |-> "sgr", set |-> Style(label[2])]
  <2>2. row \in Nat /\ col \in Nat
    BY TermAssumption
  <2>3. IsOp(x) /\ IsOp(y)
    BY <2>2 DEF IsOp, OnScreen, Uncounted, Counted, Placed
  <2>4. frame' = frame \o <<x, y>> \o TextOps(label[1])
    BY <2>1
  <2> HIDE DEF x, y
  <2>5. IsSeq(label[1])
    <3>1. label[1] \in Seq(Texts)
      BY TermAssumption
    <3>2. QED
      BY <3>1 DEF IsSeq
  <2>6. AreOps(frame \o <<x, y>> \o TextOps(label[1]))
    BY <2>3, <2>5, AreOpsTwo, TextOpsAre, AreOpsConcat
  <2>7. QED
    BY <1>10, <2>4, <2>6 DEF Draw
<1>11. CASE ShowCursor
  <2> DEFINE x == [f |-> "cup", n |-> 1, m |-> 1]
             y == [f |-> "decset", n |-> 25]
  <2>1. frame' = frame \o <<x, y>>
    BY <1>11 DEF ShowCursor
  <2>2. IsOp(x) /\ IsOp(y)
    BY DEF IsOp, OnScreen, Uncounted, Counted, Placed
  <2> HIDE DEF x, y
  <2>3. AreOps(frame \o <<x, y>>)
    BY <2>2, AreOpsTwo, AreOpsConcat
  <2>4. QED
    BY <1>11, <2>1, <2>3 DEF ShowCursor
<1>12. AreOps(<<>>)
  BY IsSeqEmpty DEF AreOps
<1>13. CASE Encode
  <2>1. WellFormed(Process(None, frame)) /\ WellFormed(Process(screen, frame))
    BY NoneIs, ProcessIs
  <2>2. Encoded(full).model \in {Process(None, frame), Process(screen, frame), screen}
    BY DEF Encoded
  <2>3. WellFormed(Encoded(full).model)
    BY <2>1, <2>2
  <2>4. QED
    BY <1>12, <1>13, <2>3 DEF Encode
<1>14. CASE Bypass
  BY <1>12, <1>14, NoneIs DEF Bypass
<1>15. CASE UNCHANGED termVars
  BY <1>15 DEF termVars
<1>16. QED
  BY <1>1, <1>2, <1>3, <1>4, <1>5, <1>6, <1>7, <1>8, <1>9, <1>10, <1>11, <1>13, <1>14, <1>15
     DEF TermNext, Finished

\* A grid that is well formed has no character cut in half.
LEMMA GridPaired ==
    ASSUME NEW g, IsGrid(g), NEW r \in Range(g.lines) \cup Range(g.scrollback)
    PROVE  Paired(r.cells)
<1>1. IsSeq(g.lines) /\ \A i \in 1 .. Len(g.lines) : IsRow(g.lines[i])
  BY DEF IsGrid, Frame, Lines, RowOf
<1>2. IsSeq(g.scrollback) /\ \A i \in 1 .. Len(g.scrollback) : IsRow(g.scrollback[i])
  BY DEF IsGrid, Frame, History
<1>3. DOMAIN g.lines = 1 .. Len(g.lines) /\ DOMAIN g.scrollback = 1 .. Len(g.scrollback)
  BY <1>1, <1>2, IsSeqDomain
<1>4. IsRow(r)
  BY <1>1, <1>2, <1>3 DEF Range
<1>5. QED
  BY <1>4 DEF IsRow

\* Terminal: it implies the property.
LEMMA TermInvPaired == TermInv => WideHalvesPaired
BY GridPaired DEF TermInv, WellFormed, IsDrawn, WideHalvesPaired

\* The two halves of a wide character are never separated: no insertion,
\* deletion, erasure, overwriting or resize of the emulator leaves a half behind.
THEOREM SpecImpliesWideHalvesPaired == TermSpec => []WideHalvesPaired
<1>1. QED
  BY TermInitInv, TermStepInv, TermInvPaired, PTL DEF TermSpec
=============================================================================
