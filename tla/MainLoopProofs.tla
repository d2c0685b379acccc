--------------------------- MODULE MainLoopProofs ---------------------------
(***************************************************************************)
(* Proofs about what the main loop keeps for its clients.  Session: the    *)
(* daemon keeps one size, owes nobody a redraw and saves what was typed,   *)
(* for any number of clients, any terminal sizes and any batch length.     *)
(* Clipboard: nothing reaches the clients' clipboards that the user did    *)
(* not consent to, for any panes, tabs and queue lengths.  Buffers: the    *)
(* store keeps the texts set last, for any limit and any number of yanks.  *)
(* TabManager: the list of tabs with its gap is the list the user sees,    *)
(* for any number of tabs and any names.                                   *)
(***************************************************************************)
EXTENDS Session, TabManager, Clipboard, Buffers, SequenceTheorems, FiniteSetTheorems,
        FunctionTheorems, SeqOpsProofs

Legal == (1 .. MAX_COLS) \X (1 .. MAX_ROWS)

\* What the variables are between any two steps.
Types ==
    /\ clients \in Seq(Conns) /\ readonly \in [Conns -> BOOLEAN]
    /\ size \in [Conns -> Nat \X Nat] /\ next_id \in Nat \ {0}
    /\ lpc \in {"top", "events", "tabs", "render"} /\ idx \in Nat \ {0}
    /\ full \in BOOLEAN /\ dirty \in BOOLEAN /\ in_sync \in BOOLEAN
    /\ screen \in [Conns -> [base : Nat \X Nat, current : BOOLEAN]]

\* normalize_size: every attached client has a size a terminal can have, and
\* so has the session; somebody is attached once a resize was seen.
LegalSizes ==
    /\ tsize \in Legal
    /\ size_changed => clients # <<>>
    /\ \A c \in Elems(clients) : size[c] \in Legal

\* SharedSize, with what holds of it during an event batch: the size is right
\* until the first resize of the batch.
SizeAgreed ==
    clients # <<>> /\ (lpc # "events" \/ ~size_changed)
        => tsize = EffectiveSize(clients, readonly, size)

\* The clients nobody draws for any more: those the last frame could not be
\* queued for, and, once the round has begun, all who leave in it.
GivenUp ==
    CASE lpc = "top"    -> output_disconnects
      [] lpc = "events" -> Leaving
      [] OTHER          -> {}

\* RedrawBaseline in every phase of a round.
Owed ==
    \A c \in Elems(clients) \ GivenUp :
        full \/ (screen[c].base = View(c) /\ (screen[c].current \/ dirty \/ in_sync))

SessionInv == Types /\ LegalSizes /\ SizeAgreed /\ Owed /\ AutoSaveCoversInput

-----------------------------------------------------------------------------
(* The operators of the geometry.                                          *)

\* normalize_size gives a legal size for whatever a terminal reports.
LEMMA NormalizeLegal ==
    ASSUME NEW r \in Nat \X Nat
    PROVE  NormalizeSize(r) \in Legal /\ NormalizeSize(r) \in Nat \X Nat
BY SessionAssumption DEF NormalizeSize, Clamp, Legal

\* SetMin is the least element of a set of numbers that has one.
LEMMA SetMinLeast ==
    ASSUME NEW S \in SUBSET Nat, S # {}
    PROVE  SetMin(S) \in S /\ \A m \in S : SetMin(S) <= m
<1>1. \E n \in S : \A m \in S : n <= m
  BY LeastNumber
<1>2. QED
  BY <1>1 DEF SetMin

\* Who is in a sequence that is not empty.
LEMMA ElemsNonEmpty ==
    ASSUME NEW S, NEW s \in Seq(S)
    PROVE  Elems(s) \in SUBSET S /\ (s # <<>> <=> Elems(s) # {})
<1>1. Len(s) \in Nat /\ (s = <<>> <=> Len(s) = 0)
  OBVIOUS
<1>2. ASSUME s # <<>>
      PROVE  s[1] \in Elems(s)
  BY <1>1, <1>2 DEF Elems
<1>3. Elems(s) \in SUBSET S
  BY DEF Elems
<1>4. ASSUME s = <<>>
      PROVE  Elems(s) = {}
  BY <1>1, <1>4 DEF Elems
<1>5. QED
  BY <1>2, <1>3, <1>4

\* effective_size picks a legal size out of legal sizes.
LEMMA EffectiveLegal ==
    ASSUME NEW cs \in Seq(Conns), cs # <<>>, NEW ro, NEW sz,
           \A c \in Elems(cs) : sz[c] \in Legal
    PROVE  EffectiveSize(cs, ro, sz) \in Legal
<1> DEFINE v == Voters(cs, ro)
           W == {sz[c][1] : c \in v}
           H == {sz[c][2] : c \in v}
<1>1. v # {} /\ v \in SUBSET Elems(cs)
  BY ElemsNonEmpty DEF Voters
<1>2. \A c \in v : sz[c] \in Legal
  BY <1>1
<1>3. W # {} /\ W \in SUBSET (1 .. MAX_COLS) /\ W \in SUBSET Nat
  BY <1>1, <1>2, SessionAssumption DEF Legal
<1>4. H # {} /\ H \in SUBSET (1 .. MAX_ROWS) /\ H \in SUBSET Nat
  BY <1>1, <1>2, SessionAssumption DEF Legal
<1>5. EffectiveSize(cs, ro, sz) = <<SetMin(W), SetMin(H)>>
  BY DEF EffectiveSize
<1> HIDE DEF v, W, H
<1>6. SetMin(W) \in W /\ SetMin(H) \in H
  BY <1>3, <1>4, SetMinLeast
<1>7. SetMin(W) \in 1 .. MAX_COLS /\ SetMin(H) \in 1 .. MAX_ROWS
  BY <1>3, <1>4, <1>6, Zenon
<1>8. <<SetMin(W), SetMin(H)>> \in Legal
  BY <1>7 DEF Legal
<1>9. QED
  BY <1>5, <1>8, Zenon

\* effective_size asks only who is attached, with which mode and size.
LEMMA EffectiveSame ==
    ASSUME NEW cs, NEW ds, Elems(cs) = Elems(ds), NEW ro, NEW rp, NEW sz, NEW sy,
           \A c \in Elems(cs) : ro[c] = rp[c] /\ sz[c] = sy[c]
    PROVE  EffectiveSize(cs, ro, sz) = EffectiveSize(ds, rp, sy)
<1> DEFINE v == Voters(cs, ro)
<1>1. {c \in Elems(cs) : ~ro[c]} = {c \in Elems(ds) : ~rp[c]}
  OBVIOUS
<1>2. Voters(ds, rp) = v /\ v \in SUBSET Elems(cs)
  BY <1>1 DEF Voters
<1> HIDE DEF v
<1>3. /\ {sz[c][1] : c \in v} = {sy[c][1] : c \in v}
      /\ {sz[c][2] : c \in v} = {sy[c][2] : c \in v}
  BY <1>2
<1>4. QED
  BY <1>2, <1>3 DEF EffectiveSize, v

\* The clients that are left are those who do not leave, in their old order.
LEMMA RemainingElems ==
    ASSUME clients \in Seq(Conns)
    PROVE  Remaining \in Seq(Conns) /\ Elems(Remaining) = Elems(clients) \ Leaving
<1>1. /\ Remaining \in Seq(Conns)
      /\ \A x : (\E i \in 1 .. Len(Remaining) : Remaining[i] = x)
                <=> x \notin Leaving /\ \E i \in 1 .. Len(clients) : clients[i] = x
  BY WithoutElements DEF Remaining
<1>2. QED
  BY <1>1 DEF Elems

\* A new client is one more.
LEMMA AppendElems ==
    ASSUME NEW S, NEW s \in Seq(S), NEW x \in S
    PROVE  Append(s, x) \in Seq(S) /\ Elems(Append(s, x)) = Elems(s) \cup {x}
<1>1. /\ Append(s, x) \in Seq(S) /\ Len(Append(s, x)) = Len(s) + 1 /\ Len(s) \in Nat
      /\ \A i \in 1 .. Len(s) : Append(s, x)[i] = s[i]
      /\ Append(s, x)[Len(s) + 1] = x
  OBVIOUS
<1>2. QED
  BY <1>1 DEF Elems

-----------------------------------------------------------------------------
(* The initial states.                                                     *)

\* A session without clients owes nothing and has the default size.
LEMMA InitInv == Init => SessionInv
<1> SUFFICES ASSUME Init
             PROVE  SessionInv
  OBVIOUS
<1> USE DEF Init
<1>1. Elems(clients) = {}
  BY DEF Elems
<1>2. Types
  <2>1. NoSize \in Nat \X Nat /\ Blank \in [base : Nat \X Nat, current : BOOLEAN]
    BY DEF NoSize, Blank
  <2>2. readonly \in [Conns -> BOOLEAN]
    OBVIOUS
  <2>3. clients \in Seq(Conns) /\ next_id \in Nat \ {0} /\ idx \in Nat \ {0} /\ lpc = "top"
    OBVIOUS
  <2>4. full \in BOOLEAN /\ dirty \in BOOLEAN /\ in_sync \in BOOLEAN
    BY Zenon
  <2>5. size \in [Conns -> Nat \X Nat]
    BY <2>1
  <2>6. screen \in [Conns -> [base : Nat \X Nat, current : BOOLEAN]]
    BY <2>1
  <2>7. QED
    BY <2>2, <2>3, <2>5, <2>6, <2>4 DEF Types
<1>3. LegalSizes
  <2>1. <<80, 24>> \in Nat \X Nat
    OBVIOUS
  <2>2. QED
    BY <1>1, <2>1, NormalizeLegal DEF LegalSizes
<1>4. SizeAgreed /\ Owed /\ AutoSaveCoversInput
  BY <1>1 DEF SizeAgreed, Owed, AutoSaveCoversInput
<1>5. QED
  BY <1>2, <1>3, <1>4 DEF SessionInv

-----------------------------------------------------------------------------
(* The steps.                                                              *)

\* A step that leaves the clients, the sizes, the pending update and the
\* screens alone, and gives up no client less, keeps what is owed.
LEMMA OwedKept ==
    ASSUME Owed, UNCHANGED <<viewVars, drawVars>>, GivenUp \subseteq GivenUp'
    PROVE  Owed'
BY DEF Owed, View, viewVars, drawVars

\* A full redraw is owed to nobody twice.
LEMMA OwedFull ==
    ASSUME full'
    PROVE  Owed'
BY DEF Owed

\* A step that leaves the clients and the sizes alone keeps them legal, and
\* agreed on if no resize is hidden by it.
LEMMA SizesKept ==
    ASSUME LegalSizes, SizeAgreed, UNCHANGED viewVars,
           size_changed' => size_changed,
           lpc' # "events" \/ ~size_changed' => lpc # "events" \/ ~size_changed
    PROVE  LegalSizes' /\ SizeAgreed'
BY DEF LegalSizes, SizeAgreed, viewVars, Legal

\* The steps of the phase "top" that admit nobody.
LEMMA TopStep ==
    ASSUME SessionInv, PtyOutput \/ SyncTimeout \/ NoIncoming
    PROVE  SessionInv'
<1> USE DEF SessionInv
<1>1. CASE PtyOutput
  <2> USE DEF PtyOutput
  <2>1. Types'
    BY <1>1 DEF Types, viewVars, roundVars
  <2>2. LegalSizes' /\ SizeAgreed'
    BY <1>1, SizesKept DEF roundVars
  <2>3. Owed'
    <3>1. GivenUp' = GivenUp /\ Elems(clients') = Elems(clients) /\ full' = full
      BY <1>1 DEF GivenUp, viewVars, roundVars
    <3>2. ASSUME NEW c \in Elems(clients) \ GivenUp
          PROVE  full \/ (screen'[c].base = View(c)' /\ (dirty' \/ in_sync'))
      <4>1. c \in Conns
        BY ElemsNonEmpty DEF Types
      <4>2. screen'[c].base = screen[c].base
        BY <1>1, <4>1 DEF Types
      <4>3. View(c)' = View(c)
        BY <1>1 DEF View, viewVars
      <4>4. dirty' \/ in_sync'
        BY <1>1
      <4>5. full \/ screen[c].base = View(c)
        BY DEF Owed
      <4>6. QED
        BY <4>2, <4>3, <4>4, <4>5
    <3>3. QED
      BY <3>1, <3>2 DEF Owed
  <2>4. AutoSaveCoversInput'
    BY <1>1 DEF AutoSaveCoversInput, viewVars, sessVars
  <2>5. QED
    BY <2>1, <2>2, <2>3, <2>4
<1>2. CASE SyncTimeout
  <2> USE DEF SyncTimeout
  <2>1. Types'
    BY <1>2 DEF Types, viewVars, roundVars
  <2>2. LegalSizes' /\ SizeAgreed'
    BY <1>2, SizesKept DEF roundVars
  <2>3. Owed'
    BY <1>2 DEF Owed, GivenUp, View, viewVars, roundVars, Types
  <2>4. AutoSaveCoversInput'
    BY <1>2 DEF AutoSaveCoversInput, viewVars, sessVars
  <2>5. QED
    BY <2>1, <2>2, <2>3, <2>4
<1>3. CASE NoIncoming
  <2> USE DEF NoIncoming, StartEvents
  <2>1. Types'
    BY <1>3 DEF Types, viewVars, drawVars
  <2>2. LegalSizes' /\ SizeAgreed'
    BY <1>3, SizesKept
  <2>3. Owed'
    <3>1. GivenUp \subseteq GivenUp'
      BY <1>3 DEF GivenUp, Leaving
    <3>2. QED
      BY <1>3, <3>1, OwedKept
  <2>4. AutoSaveCoversInput'
    BY <1>3 DEF AutoSaveCoversInput, viewVars, sessVars
  <2>5. QED
    BY <2>1, <2>2, <2>3, <2>4
<1>4. QED
  BY <1>1, <1>2, <1>3

\* The steps that end the session change nothing that is promised.
LEMMA ShutdownStep ==
    ASSUME SessionInv, Shutdown,
           \/ unsaved' = {}
           \/ unsaved' = unsaved /\ save_error' \in {save_error, TRUE}
    PROVE  SessionInv'
<1> USE DEF SessionInv, Shutdown
<1>1. Types'
  BY DEF Types, viewVars, roundVars, drawVars
<1>2. LegalSizes' /\ SizeAgreed'
  BY SizesKept DEF roundVars
<1>3. Owed'
  <2>1. GivenUp' = GivenUp
    BY DEF GivenUp, Leaving, roundVars
  <2>2. QED
    BY <2>1, OwedKept
<1>4. AutoSaveCoversInput'
  BY DEF AutoSaveCoversInput, viewVars
<1>5. QED
  BY <1>1, <1>2, <1>3, <1>4

\* accept_client: the newcomer is counted, the stolen from are forgotten.
LEMMA AcceptStep ==
    ASSUME SessionInv, NEW mode \in Modes, NEW raw \in RawSizes, Accept(mode, raw)
    PROVE  SessionInv'
<1> USE DEF SessionInv
<1> DEFINE kept == IF mode = "steal" THEN <<>> ELSE clients
<1>1. kept \in Seq(Conns) /\ next_id \in Conns
  <2>1. next_id \in Nat \ {0} /\ next_id <= MaxConns
    BY DEF Accept, Types
  <2>2. next_id \in Conns
    BY <2>1, SessionAssumption DEF Conns
  <2>3. clients \in Seq(Conns) /\ <<>> \in Seq(Conns)
    BY DEF Types
  <2>4. QED
    BY <2>2, <2>3
<1>2. clients' = Append(kept, next_id) /\ full' = TRUE /\ dirty' = TRUE /\ in_sync' = in_sync
  BY DEF Accept
<1>3. /\ readonly' = [Keep(Elems(kept), readonly, FALSE) EXCEPT ![next_id] = mode = "readonly"]
      /\ size' = [Keep(Elems(kept), size, NoSize) EXCEPT ![next_id] = NormalizeSize(raw)]
      /\ screen' = Keep(Elems(kept), screen, Blank)
  BY DEF Accept
<1>4. clients' \in Seq(Conns) /\ Elems(clients') = Elems(kept) \cup {next_id} /\ clients' # <<>>
  <2> HIDE DEF kept
  <2>1. /\ Append(kept, next_id) \in Seq(Conns)
        /\ Elems(Append(kept, next_id)) = Elems(kept) \cup {next_id}
    BY <1>1, AppendElems
  <2>2. Append(kept, next_id) # <<>>
    BY <1>1, <2>1, ElemsNonEmpty
  <2>3. QED
    BY <1>2, <2>1, <2>2
<1>5. Elems(kept) \subseteq Elems(clients)
  BY ElemsNonEmpty, <1>1
<1>6. NormalizeSize(raw) \in Legal /\ NormalizeSize(raw) \in Nat \X Nat
  BY SessionAssumption, NormalizeLegal
<1>7. Types'
  <2>1. readonly' \in [Conns -> BOOLEAN]
    BY <1>3 DEF Types, Keep
  <2>2. size' \in [Conns -> Nat \X Nat]
    BY <1>3, <1>6 DEF Types, Keep, NoSize
  <2>3. Blank \in [base : Nat \X Nat, current : BOOLEAN]
    BY DEF Blank, NoSize
  <2>4. screen' \in [Conns -> [base : Nat \X Nat, current : BOOLEAN]]
    BY <1>3, <2>3 DEF Types, Keep
  <2>5. next_id' \in Nat \ {0} /\ idx' \in Nat \ {0}
    BY DEF Types, Accept, StartEvents
  <2>6. lpc' \in {"top", "events", "tabs", "render"}
    BY DEF Accept, StartEvents
  <2>7. full' \in BOOLEAN /\ dirty' \in BOOLEAN /\ in_sync' \in BOOLEAN
    BY <1>2, Zenon DEF Types
  <2>8. QED
    BY <1>4, <2>1, <2>2, <2>4, <2>5, <2>7, <2>6, Zenon DEF Types
<1>8. tsize' = EffectiveSize(clients', readonly', size')
  BY DEF Accept
<1>9. \A c \in Elems(clients') : size'[c] \in Legal
  <2> HIDE DEF kept
  <2>1. SUFFICES ASSUME NEW c \in Elems(kept) \cup {next_id}
                 PROVE  size'[c] \in Legal
    BY <1>4
  <2>2. c \in Conns
    BY <1>1, <1>4, ElemsNonEmpty
  <2>3. size'[c] = IF c = next_id THEN NormalizeSize(raw) ELSE size[c]
    BY <1>3, <2>2 DEF Keep
  <2>4. QED
    BY <1>5, <1>6, <2>3 DEF LegalSizes
<1>10. LegalSizes' /\ SizeAgreed'
  BY <1>4, <1>8, <1>9, EffectiveLegal DEF LegalSizes, SizeAgreed, Legal
<1>11. Owed'
  BY <1>2, OwedFull
<1>12. AutoSaveCoversInput'
  BY <1>4 DEF AutoSaveCoversInput
<1>13. QED
  BY <1>7, <1>10, <1>11, <1>12

\* One message of a client: only a resize touches what is shared, and it asks
\* for a full redraw and for a new size at the end of the batch.
LEMMA EventStep ==
    ASSUME SessionInv, NEW c \in Conns,
           InputEvent(c) \/ ReadonlyIgnored(c) \/ Resize(c) \/ Leave(c) \/ BatchEnds
    PROVE  SessionInv'
<1> USE DEF SessionInv
<1>1. /\ lpc' = lpc /\ lpc = "events" /\ idx <= Len(clients)
      /\ GoOn \/ NextClient
  BY DEF InputEvent, ReadonlyIgnored, Resize, Leave, BatchEnds, Receiving
<1>2. idx' \in Nat \ {0} /\ lpc' = "events" /\ lpc = "events" /\ idx <= Len(clients)
  <2>1. idx \in Nat \ {0}
    BY DEF Types
  <2>2. idx' = idx \/ idx' = idx + 1
    BY <1>1 DEF GoOn, NextClient
  <2>3. QED
    BY <1>1, <2>1, <2>2
<1>3. clients # <<>> /\ clients' = clients
  BY <1>2 DEF Types, InputEvent, ReadonlyIgnored, Resize, Leave, BatchEnds, viewVars
<1>4. AutoSaveCoversInput'
  BY <1>3 DEF AutoSaveCoversInput
<1>5. CASE Resize(c)
  <2> USE DEF Resize
  <2>1. PICK s \in Sizes : size' = [size EXCEPT ![c] = s]
    BY <1>5
  <2>2. s \in Legal /\ s \in Nat \X Nat
    BY NormalizeLegal, SessionAssumption DEF Sizes
  <2>3. Types'
    BY <1>2, <1>5, <2>1, <2>2 DEF Types
  <2>4. LegalSizes'
    <3>1. \A d \in Elems(clients) : size'[d] \in Legal
      BY <2>1, <2>2, ElemsNonEmpty DEF Types, LegalSizes
    <3>2. QED
      BY <1>3, <1>5, <3>1 DEF LegalSizes, Legal
  <2>5. SizeAgreed' /\ Owed'
    BY <1>2, <1>5, OwedFull DEF SizeAgreed
  <2>6. QED
    BY <1>4, <2>3, <2>4, <2>5
<1>6. CASE InputEvent(c) \/ ReadonlyIgnored(c) \/ Leave(c) \/ BatchEnds
  <2>1. UNCHANGED <<viewVars, drawVars, size_changed>> /\ Leaving \subseteq Leaving'
    BY <1>6 DEF InputEvent, ReadonlyIgnored, Leave, BatchEnds, Leaving
  <2>2. Types'
    BY <1>2, <2>1 DEF Types, viewVars, drawVars
  <2>3. LegalSizes' /\ SizeAgreed'
    BY <1>2, <2>1, SizesKept
  <2>4. Owed'
    <3>1. GivenUp \subseteq GivenUp'
      BY <1>2, <2>1 DEF GivenUp
    <3>2. QED
      BY <2>1, <3>1, OwedKept
  <2>5. QED
    BY <1>4, <2>2, <2>3, <2>4
<1>7. QED
  BY <1>5, <1>6

\* The end of the batch: those who leave are dropped, the size is agreed on
\* anew, and what was typed is saved when nobody is left.
LEMMA SettleStep ==
    ASSUME SessionInv, Settle
    PROVE  SessionInv'
<1> USE DEF SessionInv
<1>1. clients \in Seq(Conns)
  BY DEF Types
<1>2. Remaining \in Seq(Conns) /\ Elems(Remaining) = Elems(clients) \ Leaving
  BY <1>1, RemainingElems
<1>3. Elems(clients) \subseteq Conns /\ (clients # <<>> <=> Elems(clients) # {})
  BY <1>1, ElemsNonEmpty
<1>4. Remaining # <<>> <=> Elems(Remaining) # {}
  BY <1>2, ElemsNonEmpty
<1>5. /\ clients' = Remaining /\ tsize' = SizeAfter /\ lpc = "events" /\ lpc' = "tabs"
      /\ readonly' = Keep(Elems(Remaining), readonly, FALSE)
      /\ size' = Keep(Elems(Remaining), size, NoSize)
      /\ screen' = Keep(Elems(Remaining), screen, Blank)
      /\ full' = (full \/ SizeAfter # tsize) /\ dirty' = (dirty \/ SizeAfter # tsize)
      /\ in_sync' = in_sync /\ idx' = 1 /\ next_id' = next_id /\ size_changed' = FALSE
  BY DEF Settle
<1>6. \A c \in Elems(Remaining) :
          readonly'[c] = readonly[c] /\ size'[c] = size[c] /\ screen'[c] = screen[c]
  BY <1>2, <1>3, <1>5 DEF Keep
<1>7. Types'
  <2>1. readonly' \in [Conns -> BOOLEAN]
    BY <1>5 DEF Types, Keep
  <2>2. size' \in [Conns -> Nat \X Nat]
    BY <1>5 DEF Types, Keep, NoSize
  <2>3. Blank \in [base : Nat \X Nat, current : BOOLEAN]
    BY DEF Blank, NoSize
  <2>4. screen' \in [Conns -> [base : Nat \X Nat, current : BOOLEAN]]
    BY <1>5, <2>3 DEF Types, Keep
  <2>5. next_id' \in Nat \ {0} /\ idx' \in Nat \ {0} /\ clients' \in Seq(Conns)
    BY <1>2, <1>5 DEF Types
  <2>6. lpc' \in {"top", "events", "tabs", "render"}
    BY <1>5
  <2>7. full' \in BOOLEAN /\ dirty' \in BOOLEAN /\ in_sync' \in BOOLEAN
    BY <1>5, Zenon DEF Types
  <2>8. QED
    BY <2>1, <2>2, <2>4, <2>5, <2>6, <2>7, Zenon DEF Types
<1>8. ASSUME Remaining # <<>>
      PROVE  SizeAfter = EffectiveSize(Remaining, readonly', size')
  <2>1. EffectiveSize(Remaining, readonly, size) = EffectiveSize(Remaining, readonly', size')
    BY <1>6, EffectiveSame
  <2>2. CASE Leaving # {}
    BY <1>8, <2>1, <2>2 DEF SizeAfter
  <2>3. CASE Leaving = {}
    <3>1. Elems(Remaining) = Elems(clients) /\ clients # <<>>
      BY <1>2, <1>3, <1>4, <1>8, <2>3
    <3>2. EffectiveSize(clients, readonly, size) = EffectiveSize(Remaining, readonly', size')
      BY <1>6, <3>1, EffectiveSame
    <3>3. SizeAfter = IF size_changed THEN EffectiveSize(clients, readonly, size) ELSE tsize
      BY <2>3 DEF SizeAfter
    <3>4. ~size_changed => tsize = EffectiveSize(clients, readonly, size)
      BY <3>1 DEF SizeAgreed
    <3>5. QED
      BY <3>2, <3>3, <3>4
  <2>4. QED
    BY <2>2, <2>3
<1>9. SizeAgreed'
  BY <1>5, <1>8 DEF SizeAgreed
<1>10. LegalSizes'
  <2>1. \A c \in Elems(Remaining) : size'[c] \in Legal
    BY <1>2, <1>6 DEF LegalSizes
  <2>2. CASE Remaining # <<>>
    BY <1>2, <1>5, <1>8, <2>1, <2>2, EffectiveLegal DEF LegalSizes, Legal
  <2>3. CASE Remaining = <<>>
    <3>1. tsize' \in Legal
      <4>1. SizeAfter = IF size_changed THEN EffectiveSize(clients, readonly, size) ELSE tsize
        BY <2>3 DEF SizeAfter
      <4>2. tsize \in Legal /\ (clients # <<>> => EffectiveSize(clients, readonly, size) \in Legal)
        BY <1>1, EffectiveLegal DEF LegalSizes
      <4>3. ASSUME clients = <<>>, size_changed
            PROVE  FALSE
        BY <4>3 DEF LegalSizes
      <4>4. QED
        BY <1>5, <4>1, <4>2, <4>3
    <3>2. QED
      BY <1>5, <2>1, <3>1 DEF LegalSizes, Legal
  <2>4. QED
    BY <2>2, <2>3
<1>11. Owed'
  <2>1. SUFFICES ASSUME NEW c \in Elems(Remaining), ~full'
                 PROVE  /\ screen'[c].base = View(c)'
                        /\ screen'[c].current \/ dirty' \/ in_sync'
    BY <1>5 DEF Owed
  <2>2. ~full /\ tsize' = tsize
    BY <1>5, <2>1
  <2>3. c \in Elems(clients) \ GivenUp
    BY <1>2, <1>5 DEF GivenUp
  <2>4. screen[c].base = View(c) /\ (screen[c].current \/ dirty \/ in_sync)
    BY <2>2, <2>3 DEF Owed
  <2>5. View(c)' = View(c)
    BY <1>6, <2>2 DEF View
  <2>6. QED
    BY <1>5, <1>6, <2>4, <2>5
<1>12. AutoSaveCoversInput'
  <2>1. SUFFICES ASSUME Remaining = <<>>, "input" \in unsaved'
                 PROVE  save_error'
    BY <1>5 DEF AutoSaveCoversInput
  <2>2. AutoSave
    BY DEF Settle
  <2>3. CASE clients = <<>>
    BY <2>1, <2>2, <2>3 DEF AutoSave, AllGone, AutoSaveCoversInput
  <2>4. CASE clients # <<>>
    <3>1. AllGone
      BY <1>2, <1>3, <1>4, <2>1, <2>4 DEF AllGone
    <3>2. QED
      BY <2>1, <2>2, <3>1 DEF AutoSave
  <2>5. QED
    BY <2>3, <2>4
<1>13. QED
  BY <1>7, <1>9, <1>10, <1>11, <1>12

\* A tab action asks for a full redraw or leaves the session alone.
LEMMA TabStep ==
    ASSUME SessionInv, TabActionDone
    PROVE  SessionInv'
<1> USE DEF SessionInv
<1>1. /\ UNCHANGED <<viewVars, idx, size_changed, in_sync, screen, save_error>>
      /\ lpc = "tabs" /\ lpc' = "render"
      /\ \/ full' = TRUE /\ dirty' = TRUE
         \/ full' = full /\ dirty' = dirty
  BY DEF TabActionDone
<1>2. Types'
  <2>1. full' \in BOOLEAN /\ dirty' \in BOOLEAN
    BY <1>1, Zenon DEF Types
  <2>2. QED
    BY <1>1, <2>1 DEF Types, viewVars
<1>3. LegalSizes' /\ SizeAgreed'
  BY <1>1, SizesKept
<1>4. Owed'
  <2>1. CASE full' = TRUE
    BY <2>1, OwedFull
  <2>2. CASE full' = full /\ dirty' = dirty
    <3>1. GivenUp' = GivenUp
      BY <1>1 DEF GivenUp
    <3>2. QED
      BY <1>1, <2>2, <3>1, OwedKept DEF drawVars
  <2>3. QED
    BY <1>1, <2>1, <2>2
<1>5. AutoSaveCoversInput'
  BY DEF TabActionDone, AutoSaveCoversInput, viewVars
<1>6. QED
  BY <1>2, <1>3, <1>4, <1>5

\* A frame brings everybody up to date whom it could be queued for; what no
\* frame is made for stays pending.
LEMMA RenderStep ==
    ASSUME SessionInv, Render \/ NoRender
    PROVE  SessionInv'
<1> USE DEF SessionInv
<1>1. /\ UNCHANGED <<viewVars, idx, size_changed, in_sync, sessVars>>
      /\ lpc = "render" /\ lpc' = "top"
  BY DEF Render, NoRender
<1>2. LegalSizes' /\ SizeAgreed'
  BY <1>1, SizesKept
<1>3. AutoSaveCoversInput'
  BY <1>1 DEF AutoSaveCoversInput, viewVars, sessVars
<1>4. GivenUp = {} /\ GivenUp' = output_disconnects'
  BY <1>1 DEF GivenUp
<1>5. \A c \in Elems(clients) : c \in Conns
  BY ElemsNonEmpty DEF Types
<1>6. Elems(clients') = Elems(clients) /\ \A c : View(c)' = View(c)
  BY <1>1 DEF viewVars, View
<1>7. CASE NoRender
  <2> USE DEF NoRender
  <2>1. Types'
    <3>1. full' \in BOOLEAN /\ dirty' \in BOOLEAN
      BY <1>7, Zenon DEF Types
    <3>2. QED
      BY <1>1, <1>7, <3>1 DEF Types, viewVars
  <2>2. Owed'
    <3>1. CASE clients = <<>>
      <4>1. Elems(clients) = {}
        BY <3>1, ElemsNonEmpty DEF Types
      <4>2. QED
        BY <1>6, <4>1 DEF Owed
    <3>2. CASE clients # <<>>
      <4>1. full' = full /\ dirty' = dirty /\ screen' = screen
        BY <1>7, <3>2, Zenon DEF Types
      <4>2. QED
        BY <1>1, <1>4, <4>1, OwedKept DEF drawVars
    <3>3. QED
      BY <3>1, <3>2
  <2>3. QED
    BY <1>2, <1>3, <2>1, <2>2
<1>8. CASE Render
  <2>1. PICK failed \in SUBSET Elems(clients) :
            /\ output_disconnects' = failed
            /\ screen' = [c \in Conns |->
                   IF c \in Elems(clients) \ failed THEN Drawn(c) ELSE screen[c]]
    BY <1>8 DEF Render
  <2>2. full' = FALSE /\ dirty' = (dirty /\ ~PaneDue)
    BY <1>8 DEF Render
  <2>3. ASSUME NEW c \in Elems(clients)
        PROVE  /\ Drawn(c) \in [base : Nat \X Nat, current : BOOLEAN]
               /\ Drawn(c).base = View(c)
               /\ Drawn(c).current \/ dirty' \/ in_sync'
    <3>1. c \in Conns
      BY <1>5
    <3>2. size[c] \in Nat \X Nat /\ tsize \in Nat \X Nat
      <4>1. size[c] \in Nat \X Nat
        BY <3>1 DEF Types
      <4>2. tsize \in Legal
        BY DEF LegalSizes
      <4>3. Legal \subseteq Nat \X Nat
        BY SessionAssumption DEF Legal
      <4>4. QED
        BY <4>1, <4>2, <4>3
    <3>3. View(c) \in Nat \X Nat
      BY <3>2 DEF View
    <3>4. full \/ (screen[c].base = View(c) /\ (screen[c].current \/ dirty \/ in_sync))
      BY <1>4 DEF Owed
    <3>5. CASE full \/ (PaneDue /\ screen[c].base = View(c))
      <4>1. Drawn(c) = [base |-> View(c), current |-> TRUE]
        BY <3>5 DEF Drawn
      <4>2. QED
        BY <3>3, <4>1
    <3>6. CASE ~(full \/ (PaneDue /\ screen[c].base = View(c)))
      <4>1. Drawn(c) = screen[c] /\ screen[c].base = View(c) /\ ~PaneDue
        BY <3>4, <3>6 DEF Drawn
      <4>2. screen[c].current \/ dirty' \/ in_sync'
        BY <1>1, <2>2, <3>4, <3>6, <4>1
      <4>3. screen[c] \in [base : Nat \X Nat, current : BOOLEAN]
        BY <3>1 DEF Types
      <4>4. QED
        BY <4>1, <4>2, <4>3
    <3>7. QED
      BY <3>5, <3>6
  <2>4. Types'
    <3>1. full' \in BOOLEAN /\ dirty' \in BOOLEAN
      BY <2>2, Zenon DEF Types
    <3>2. screen' \in [Conns -> [base : Nat \X Nat, current : BOOLEAN]]
      <4>1. \A c \in Conns : (IF c \in Elems(clients) \ failed THEN Drawn(c) ELSE screen[c])
                                \in [base : Nat \X Nat, current : BOOLEAN]
        BY <2>3 DEF Types
      <4>2. QED
        BY <2>1, <4>1
    <3>3. QED
      BY <1>1, <3>1, <3>2 DEF Types, viewVars
  <2>5. Owed'
    <3>1. SUFFICES ASSUME NEW c \in Elems(clients) \ failed
                   PROVE  /\ screen'[c].base = View(c)'
                          /\ screen'[c].current \/ dirty' \/ in_sync'
      BY <1>4, <1>6, <2>1 DEF Owed
    <3>2. screen'[c] = Drawn(c)
      BY <1>5, <2>1
    <3>3. QED
      BY <1>6, <2>3, <3>2
  <2>6. QED
    BY <1>2, <1>3, <2>4, <2>5
<1>9. QED
  BY <1>7, <1>8

\* Every step of the main loop keeps the invariant.
LEMMA StepInv == SessionInv /\ [Next]_vars => SessionInv'
<1> SUFFICES ASSUME SessionInv, [Next]_vars
             PROVE  SessionInv'
  OBVIOUS
<1>1. CASE PtyOutput \/ SyncTimeout \/ NoIncoming
  BY <1>1, TopStep
<1>2. CASE Sigterm \/ SessionEnds \/ TabActionExits
  <2>1. Shutdown
    BY <1>2 DEF Sigterm, SessionEnds, TabActionExits
  <2>2. \/ unsaved' = {}
        \/ unsaved' = unsaved /\ save_error' \in {save_error, TRUE}
    BY <1>2 DEF Sigterm, SessionEnds, TabActionExits
  <2>3. QED
    BY <2>1, <2>2, ShutdownStep
<1>3. ASSUME NEW c \in Conns, KillRequested(c)
       PROVE  SessionInv'
  <2>1. Shutdown /\ unsaved' = unsaved /\ save_error' \in {save_error, TRUE}
    BY <1>3 DEF KillRequested
  <2>2. QED
    BY <2>1, ShutdownStep
<1>4. ASSUME NEW mode \in Modes, NEW raw \in RawSizes, Accept(mode, raw)
      PROVE  SessionInv'
  BY <1>4, AcceptStep
<1>5. ASSUME NEW c \in Conns, InputEvent(c) \/ ReadonlyIgnored(c) \/ Resize(c) \/ Leave(c)
      PROVE  SessionInv'
  BY <1>5, EventStep
<1>6. CASE BatchEnds
  <2>1. clients \in Seq(Conns) /\ idx \in Nat \ {0} /\ idx <= Len(clients)
    BY <1>6 DEF SessionInv, Types, BatchEnds
  <2>2. clients[1] \in Conns
    BY <2>1
  <2>3. QED
    BY <1>6, <2>2, EventStep
<1>7. CASE Settle
  BY <1>7, SettleStep
<1>8. CASE TabActionDone
  BY <1>8, TabStep
<1>9. CASE Render \/ NoRender
  BY <1>9, RenderStep
<1>10. CASE UNCHANGED vars
  <2>1. UNCHANGED <<viewVars, roundVars, output_disconnects, drawVars, sessVars>>
    BY <1>10 DEF vars
  <2>2. Types'
    BY <2>1 DEF SessionInv, Types, viewVars, roundVars, drawVars
  <2>3. LegalSizes' /\ SizeAgreed'
    BY <2>1, SizesKept DEF SessionInv, roundVars
  <2>4. GivenUp' = GivenUp
    BY <2>1 DEF GivenUp, Leaving, roundVars
  <2>5. Owed' /\ AutoSaveCoversInput'
    BY <2>1, <2>4, OwedKept DEF SessionInv, AutoSaveCoversInput, viewVars, sessVars
  <2>6. QED
    BY <2>2, <2>3, <2>5 DEF SessionInv
<1>11. QED
  BY <1>1, <1>2, <1>4, <1>5, <1>6, <1>7, <1>8, <1>9, <1>10, <1>3 DEF Next, Stopped

-----------------------------------------------------------------------------
(* The theorems.                                                           *)

\* The invariant holds throughout: in particular every attached client and
\* the session itself always have a size within the limits of normalize_size.
THEOREM SessionInvariant == Spec => []SessionInv
BY InitInv, StepInv, PTL DEF Spec

\* Whoever attaches, resizes, detaches, gets lost or is stolen from: outside
\* of an event batch the session has the size effective_size computes for
\* those who are attached now.
THEOREM SizeIsShared == Spec => []SharedSize
<1>1. SessionInv => SharedSize
  BY DEF SessionInv, SizeAgreed, SharedSize
<1>2. QED
  BY <1>1, SessionInvariant, PTL

\* Between two rounds every client that is not given up shows the pane at its
\* own geometry, or the pending RenderUpdate will make it.
THEOREM BaselineEstablished == Spec => []RedrawBaseline
<1>1. SessionInv => RedrawBaseline
  BY DEF SessionInv, Owed, GivenUp, RedrawBaseline
<1>2. QED
  BY <1>1, SessionInvariant, PTL

\* What clients typed is saved when the last of them is gone, unless the save
\* itself failed.
THEOREM InputIsSaved == Spec => []AutoSaveCoversInput
<1>1. SessionInv => AutoSaveCoversInput
  BY DEF SessionInv
<1>2. QED
  BY <1>1, SessionInvariant, PTL

-----------------------------------------------------------------------------
(* The clipboard: the inductive invariant.                                 *)

OscRequest == [of : Slots \cup {Nobody}, kind : {"set", "get", "copy", "asked"}]

ClipTypes ==
    /\ policy \in [set : {"allow", "confirm", "deny"}, get : {"allow", "deny"}]
    /\ decision \in [Slots -> {"pending", "allowed", "denied"}]
    /\ held \in [Slots -> Seq(OscRequest)] /\ ready \in [Slots -> Seq(OscRequest)]
    /\ prompt \in [id : Int, queued : Seq(OscRequest)]

\* What ClipboardConsent asks of one request, under a policy and the answers.
Consented(r, p, yes) ==
    r.of \in Slots =>
        CASE r.kind = "set" -> p.set = "allow" \/ (p.set = "confirm" /\ r.of \in yes)
          [] r.kind = "get" -> p.get = "allow"
          [] OTHER -> TRUE

\* The panes that got a yes.
Yes == agreed \cup mistaken

\* A pane is allowed by an answer, its own or one it was mistaken for.
AllowedByAnswer ==
    \A s \in Slots : decision[s] = "allowed" => s \in Yes

\* A pane's queue of requests to forward holds consented ones only, and only
\* its own program's, or its predecessor's, are subject to its decision.
Sound(s, q, p, yes) ==
    \A i \in 1 .. Len(q) :
        Consented(q[i], p, yes) /\ (q[i].kind = "set" => q[i].of \in {s, Nobody})

ReadyIsSound == \A s \in Slots : Sound(s, ready[s], policy, Yes)

\* While the user answers, the panes on screen have nothing left to forward
\* that a no would have to take back.
NoneLeft(q) == \A i \in 1 .. Len(q) : q[i].kind # "set"

DrainedBeforeKeys ==
    clipPhase = "keys" => \A s \in Slots : s[1] = visible => NoneLeft(ready[s])

ClipInv ==
    ClipTypes /\ AllowedByAnswer /\ ReadyIsSound /\ DrainedBeforeKeys /\ ClipboardConsent

-----------------------------------------------------------------------------
(* The clipboard: the queues.                                              *)

\* enqueue_osc adds the request or leaves the queue as it is.
LEMMA EnqueueSound ==
    ASSUME NEW s, NEW q \in Seq(OscRequest), NEW r \in OscRequest, NEW p, NEW yes,
           Sound(s, q, p, yes), Consented(r, p, yes), r.kind = "set" => r.of \in {s, Nobody}
    PROVE  /\ Enqueue(q, r) \in Seq(OscRequest) /\ Sound(s, Enqueue(q, r), p, yes)
           /\ Append(q, r) \in Seq(OscRequest) /\ Sound(s, Append(q, r), p, yes)
<1>1. /\ Append(q, r) \in Seq(OscRequest) /\ Len(Append(q, r)) = Len(q) + 1 /\ Len(q) \in Nat
      /\ \A i \in 1 .. Len(q) : Append(q, r)[i] = q[i]
      /\ Append(q, r)[Len(q) + 1] = r
  OBVIOUS
<1>2. Sound(s, Append(q, r), p, yes)
  <2>1. SUFFICES ASSUME NEW i \in 1 .. Len(q) + 1
                 PROVE  /\ Consented(Append(q, r)[i], p, yes)
                        /\ Append(q, r)[i].kind = "set" => Append(q, r)[i].of \in {s, Nobody}
    BY <1>1 DEF Sound
  <2>2. Append(q, r)[i] = r \/ (i \in 1 .. Len(q) /\ Append(q, r)[i] = q[i])
    BY <1>1
  <2>3. QED
    BY <2>2 DEF Sound
<1>3. QED
  BY <1>1, <1>2 DEF Enqueue

\* The queues of the other panes when a program is replaced.
LEMMA OrphanedIs ==
    ASSUME NEW q \in Seq(OscRequest), NEW s \in Slots
    PROVE  /\ Orphaned(q, s) \in Seq(OscRequest) /\ Len(Orphaned(q, s)) = Len(q)
           /\ \A i \in 1 .. Len(q) :
                 /\ Orphaned(q, s)[i].kind = q[i].kind
                 /\ Orphaned(q, s)[i].of = IF q[i].of = s THEN Nobody ELSE q[i].of
<1> DEFINE e(i) == IF q[i].of = s THEN [q[i] EXCEPT !.of = Nobody] ELSE q[i]
<1>1. DOMAIN q = 1 .. Len(q) /\ Len(q) \in Nat /\ \A i \in 1 .. Len(q) : q[i] \in OscRequest
  OBVIOUS
<1>2. \A i \in 1 .. Len(q) :
          e(i) \in OscRequest /\ e(i).kind = q[i].kind
          /\ e(i).of = IF q[i].of = s THEN Nobody ELSE q[i].of
  BY <1>1 DEF OscRequest
<1>3. Orphaned(q, s) = [i \in 1 .. Len(q) |-> e(i)]
  BY <1>1 DEF Orphaned
<1> HIDE DEF e
<1>4. Orphaned(q, s) \in [1 .. Len(q) -> OscRequest]
  BY <1>2, <1>3
<1>5. Orphaned(q, s) \in Seq(OscRequest) /\ Len(Orphaned(q, s)) = Len(q)
  BY <1>1, <1>4, SeqDef
<1>6. QED
  BY <1>2, <1>3, <1>5

\* What is left of a put-off prompt is still a queue of requests.
LEMMA RequeuedIs ==
    ASSUME NEW q \in Seq(OscRequest), NEW p \in Seq(OscRequest)
    PROVE  Requeued(q, p) \in Seq(OscRequest)
BY ClipboardAssumption DEF Requeued

\* One queue after the other.
LEMMA QueueConcat ==
    ASSUME NEW q \in Seq(OscRequest), NEW w \in Seq(OscRequest)
    PROVE  /\ q \o w \in Seq(OscRequest) /\ Len(q \o w) = Len(q) + Len(w)
           /\ \A i \in 1 .. Len(q) + Len(w) :
                 (q \o w)[i] = IF i <= Len(q) THEN q[i] ELSE w[i - Len(q)]
OBVIOUS

\* The answered requests, marked, follow what was ready.
LEMMA SaidSound ==
    ASSUME NEW s, NEW q \in Seq(OscRequest), NEW w \in Seq(OscRequest), NEW said,
           NEW p, NEW yes, Sound(s, q, p, yes),
           said = [i \in DOMAIN w |-> [w[i] EXCEPT !.kind = "asked"]]
    PROVE  /\ q \o said \in Seq(OscRequest) /\ Sound(s, q \o said, p, yes)
           /\ NoneLeft(q) => NoneLeft(q \o said)
<1>1. DOMAIN w = 1 .. Len(w) /\ Len(w) \in Nat /\ \A i \in 1 .. Len(w) : w[i] \in OscRequest
  OBVIOUS
<1>2. said \in [1 .. Len(w) -> OscRequest] /\ \A i \in 1 .. Len(w) : said[i].kind = "asked"
  BY <1>1 DEF OscRequest
<1>3. said \in Seq(OscRequest) /\ Len(said) = Len(w)
  BY <1>1, <1>2, SeqDef
<1>4. /\ q \o said \in Seq(OscRequest) /\ Len(q \o said) = Len(q) + Len(w) /\ Len(q) \in Nat
      /\ \A i \in 1 .. Len(q) + Len(w) :
            (q \o said)[i] = IF i <= Len(q) THEN q[i] ELSE said[i - Len(q)]
  <2>1. /\ q \o said \in Seq(OscRequest) /\ Len(q \o said) = Len(q) + Len(said)
        /\ \A i \in 1 .. Len(q) + Len(said) :
              (q \o said)[i] = IF i <= Len(q) THEN q[i] ELSE said[i - Len(q)]
    BY <1>3, QueueConcat, Zenon
  <2>2. Len(q) \in Nat
    OBVIOUS
  <2>3. QED
    BY <1>3, <2>1, <2>2, Zenon
<1>5. ASSUME NEW i \in 1 .. Len(q) + Len(w)
      PROVE  (i \in 1 .. Len(q) /\ (q \o said)[i] = q[i]) \/ (q \o said)[i].kind = "asked"
  <2>1. CASE i <= Len(q)
    BY <1>4, <2>1
  <2>2. CASE ~(i <= Len(q))
    <3>1. i - Len(q) \in 1 .. Len(w)
      BY <1>1, <1>4, <2>2
    <3>2. QED
      BY <1>2, <1>4, <2>2, <3>1
  <2>3. QED
    BY <2>1, <2>2
<1>6. Sound(s, q \o said, p, yes)
  BY <1>4, <1>5 DEF Sound, Consented
<1>7. NoneLeft(q) => NoneLeft(q \o said)
  BY <1>4, <1>5 DEF NoneLeft
<1>8. QED
  BY <1>4, <1>6, <1>7

-----------------------------------------------------------------------------
(* The clipboard: the steps.                                               *)

\* No pane has asked for anything at first.
LEMMA ClipInitInv == ClipInit => ClipInv
<1> SUFFICES ASSUME ClipInit
             PROVE  ClipInv
  OBVIOUS
<1> USE DEF ClipInit
<1>1. ClipTypes
  <2>1. prompt \in [id : Int, queued : Seq(OscRequest)]
    BY DEF NoPrompt
  <2>2. QED
    BY <2>1 DEF ClipTypes
<1>2. AllowedByAnswer /\ ReadyIsSound /\ DrainedBeforeKeys /\ ClipboardConsent
  BY DEF AllowedByAnswer, ReadyIsSound, Sound, DrainedBeforeKeys, ClipboardConsent
<1>3. QED
  BY <1>1, <1>2 DEF ClipInv

\* handle_osc52 forwards what the policy or the user has allowed.
LEMMA EmitStep ==
    ASSUME ClipInv, Emit
    PROVE  ClipInv'
<1> USE DEF ClipInv
<1>1. /\ clipPhase = "read"
      /\ UNCHANGED <<policy, visible, decision, prompt, clipPhase, sent, agreed, mistaken>>
  BY DEF Emit
<1>2. PICK s \in Slots, kind \in {"set", "get"} : Request(s, kind)
  BY DEF Emit
<1> DEFINE r == [of |-> s, kind |-> kind]
           e == IF kind = "get" THEN policy.get ELSE Effective(policy.set, decision[s])
<1>3. r \in OscRequest
  BY DEF OscRequest
<1>4. /\ ready' = IF e = "allow" THEN [ready EXCEPT ![s] = Enqueue(@, r)] ELSE ready
      /\ held' = IF e = "confirm" THEN [held EXCEPT ![s] = Enqueue(@, r)] ELSE held
  BY <1>2 DEF Request
<1>5. e = "allow" => Consented(r, policy, Yes)
  <2>1. policy.set \in {"allow", "confirm", "deny"}
    BY DEF ClipTypes
  <2>2. CASE kind = "get"
    BY <2>2 DEF Consented
  <2>3. CASE kind = "set"
    <3>1. SUFFICES ASSUME Effective(policy.set, decision[s]) = "allow"
                   PROVE  policy.set = "allow" \/ (policy.set = "confirm" /\ s \in Yes)
      BY <2>3 DEF Consented
    <3>2. policy.set # "deny" /\ (decision[s] = "allowed" \/ policy.set = "allow")
      BY <3>1 DEF Effective
    <3>3. QED
      BY <2>1, <3>2 DEF AllowedByAnswer
  <2>4. QED
    BY <2>2, <2>3
<1>6. r.kind = "set" => r.of \in {s, Nobody}
  OBVIOUS
<1> HIDE DEF r, e
<1>7. ClipTypes'
  <2>1. Enqueue(held[s], r) \in Seq(OscRequest) /\ Enqueue(ready[s], r) \in Seq(OscRequest)
    BY <1>3 DEF ClipTypes, Enqueue
  <2>2. held' \in [Slots -> Seq(OscRequest)] /\ ready' \in [Slots -> Seq(OscRequest)]
    BY <1>4, <2>1 DEF ClipTypes
  <2>3. QED
    BY <1>1, <2>2 DEF ClipTypes
<1>8. ReadyIsSound'
  <2>1. SUFFICES ASSUME NEW t \in Slots
                 PROVE  Sound(t, ready'[t], policy, Yes)
    BY <1>1 DEF ReadyIsSound, Yes
  <2>2. Sound(t, ready[t], policy, Yes)
    BY DEF ReadyIsSound
  <2>3. CASE t = s /\ e = "allow"
    <3>1. ready'[t] = Enqueue(ready[t], r) /\ ready[t] \in Seq(OscRequest)
      BY <1>4, <2>3 DEF ClipTypes
    <3>2. QED
      BY <1>3, <1>5, <1>6, <2>2, <2>3, <3>1, EnqueueSound
  <2>4. CASE ~(t = s /\ e = "allow")
    BY <1>4, <2>2, <2>4 DEF ClipTypes
  <2>5. QED
    BY <2>3, <2>4
<1>9. AllowedByAnswer' /\ DrainedBeforeKeys' /\ ClipboardConsent'
  BY <1>1 DEF AllowedByAnswer, Yes, DrainedBeforeKeys, ClipboardConsent
<1>10. QED
  BY <1>7, <1>8, <1>9

\* What is ready stays consented when a yes is taken back from a pane, as long
\* as nothing of that pane is left to forward.
LEMMA SoundWithout ==
    ASSUME NEW t \in Slots, NEW q \in Seq(OscRequest), NEW p, NEW yes, NEW yep, NEW s,
           Sound(t, q, p, yes), yes \ {s} \subseteq yep, t # s \/ NoneLeft(q)
    PROVE  Sound(t, q, p, yep)
<1>1. SUFFICES ASSUME NEW i \in 1 .. Len(q)
               PROVE  Consented(q[i], p, yep)
  BY DEF Sound
<1>2. Consented(q[i], p, yes) /\ (q[i].kind = "set" => q[i].of \in {t, Nobody})
  BY DEF Sound
<1>3. CASE q[i].kind = "set" /\ q[i].of \in Slots
  <2>1. q[i].of = t /\ t # s
    BY <1>2, <1>3, ClipboardAssumption DEF NoneLeft
  <2>2. QED
    BY <1>2, <1>3, <2>1 DEF Consented
<1>4. CASE ~(q[i].kind = "set" /\ q[i].of \in Slots)
  BY <1>2, <1>4 DEF Consented
<1>5. QED
  BY <1>3, <1>4

\* The panes on screen hand over what is ready, and one of them is asked about.
LEMMA ForwardStep ==
    ASSUME ClipInv, Forward
    PROVE  ClipInv'
<1> USE DEF ClipInv
<1> DEFINE here == {s \in Slots : s[1] = visible}
           asking == {s \in here : held[s] # <<>>}
           first == CHOOSE s \in asking : \A t \in asking : s[2] <= t[2]
<1>1. /\ UNCHANGED <<policy, visible, decision, agreed, mistaken>>
      /\ sent' = UNION {Range(ready[s]) : s \in here}
      /\ ready' = [s \in Slots |-> IF s \in here THEN <<>> ELSE ready[s]]
      /\ IF prompt # NoPrompt \/ asking = {} THEN UNCHANGED <<prompt, held>>
         ELSE /\ prompt' = [id |-> first[2], queued |-> held[first]]
              /\ held' = [held EXCEPT ![first] = <<>>]
  BY DEF Forward
<1>2. \A s \in Slots : s[2] \in Nat
  BY ClipboardAssumption
<1>3. asking # {} => first \in asking
  <2> DEFINE T == {s[2] : s \in asking}
  <2>1. SUFFICES ASSUME asking # {}
                 PROVE  \E s \in asking : \A t \in asking : s[2] <= t[2]
    OBVIOUS
  <2>2. T \in SUBSET Nat /\ T # {}
    BY <1>2, <2>1
  <2>3. PICK x \in T : \A y \in T : x <= y
    <3> HIDE DEF T
    <3> QED
      BY <2>2, LeastNumber
  <2>4. PICK s \in asking : s[2] = x
    OBVIOUS
  <2>5. QED
    BY <2>3, <2>4
<1>4. ClipTypes'
  <2>1. ready' \in [Slots -> Seq(OscRequest)]
    BY <1>1 DEF ClipTypes
  <2>2. CASE prompt # NoPrompt \/ asking = {}
    BY <1>1, <2>1, <2>2 DEF ClipTypes
  <2>3. CASE ~(prompt # NoPrompt \/ asking = {})
    <3>1. first \in Slots /\ first[2] \in Int
      BY <1>2, <1>3, <2>3
    <3> HIDE DEF first, asking, here
    <3>2. /\ prompt' = [id |-> first[2], queued |-> held[first]]
          /\ held' = [held EXCEPT ![first] = <<>>]
      BY <1>1, <2>3
    <3>3. held[first] \in Seq(OscRequest)
      BY <3>1 DEF ClipTypes
    <3>4. prompt' \in [id : Int, queued : Seq(OscRequest)]
      BY <3>1, <3>2, <3>3
    <3>5. held' \in [Slots -> Seq(OscRequest)]
      <4>1. <<>> \in Seq(OscRequest) /\ held \in [Slots -> Seq(OscRequest)]
        BY DEF ClipTypes
      <4>2. QED
        BY <3>1, <3>2, <4>1
    <3>6. QED
      BY <1>1, <2>1, <3>4, <3>5 DEF ClipTypes
  <2>4. QED
    BY <2>2, <2>3
<1>5. AllowedByAnswer'
  BY <1>1 DEF AllowedByAnswer, Yes
<1>6. ReadyIsSound'
  <2>1. \A s \in Slots : ready'[s] = <<>> \/ ready'[s] = ready[s]
    BY <1>1
  <2>2. \A s \in Slots : Sound(s, <<>>, policy, Yes)
    BY DEF Sound
  <2>3. QED
    BY <1>1, <2>1, <2>2 DEF ReadyIsSound, Yes
<1>7. DrainedBeforeKeys'
  BY <1>1 DEF DrainedBeforeKeys, NoneLeft
<1>8. ClipboardConsent'
  <2>1. SUFFICES ASSUME NEW r \in sent'
                 PROVE  Consented(r, policy, Yes)
    BY <1>1 DEF ClipboardConsent, Consented, Yes
  <2>2. PICK s \in Slots : r \in Range(ready[s])
    BY <1>1
  <2>3. ready[s] \in Seq(OscRequest)
    BY DEF ClipTypes
  <2>4. PICK i \in 1 .. Len(ready[s]) : r = ready[s][i]
    BY <2>2, <2>3 DEF Range
  <2>5. QED
    BY <2>4 DEF ReadyIsSound, Sound
<1>9. QED
  BY <1>4, <1>5, <1>6, <1>7, <1>8

\* Her own copy needs no consent.
LEMMA CopyStep ==
    ASSUME ClipInv, CopyText
    PROVE  ClipInv'
<1> USE DEF ClipInv
<1>1. UNCHANGED <<policy, visible, decision, held, prompt, clipPhase, sent, agreed, mistaken>>
  BY DEF CopyText, Copy
<1>2. PICK s \in Slots : ready' = [ready EXCEPT ![s] = Append(@, [of |-> s, kind |-> "copy"])]
  BY DEF CopyText, Copy
<1> DEFINE r == [of |-> s, kind |-> "copy"]
<1>3. r \in OscRequest /\ Consented(r, policy, Yes) /\ r.kind = "copy"
  BY DEF OscRequest, Consented
<1>4. ready' = [ready EXCEPT ![s] = Append(@, r)]
  BY <1>2
<1> HIDE DEF r
<1>5. ready[s] \in Seq(OscRequest) /\ Sound(s, ready[s], policy, Yes)
  BY DEF ClipTypes, ReadyIsSound
<1>6. Append(ready[s], r) \in Seq(OscRequest) /\ Sound(s, Append(ready[s], r), policy, Yes)
  BY <1>3, <1>5, EnqueueSound
<1>7. \A t \in Slots : ready'[t] = IF t = s THEN Append(ready[s], r) ELSE ready[t]
  BY <1>4 DEF ClipTypes
<1>8. ClipTypes'
  <2>1. ready' \in [Slots -> Seq(OscRequest)]
    BY <1>4, <1>6 DEF ClipTypes
  <2>2. QED
    BY <1>1, <2>1 DEF ClipTypes
<1>9. ReadyIsSound'
  BY <1>1, <1>6, <1>7 DEF ReadyIsSound, Yes
<1>10. DrainedBeforeKeys'
  <2>1. NoneLeft(ready[s]) => NoneLeft(Append(ready[s], r))
    BY <1>3, <1>5 DEF NoneLeft
  <2>2. QED
    BY <1>1, <1>7, <2>1 DEF DrainedBeforeKeys
<1>11. AllowedByAnswer' /\ ClipboardConsent'
  BY <1>1 DEF AllowedByAnswer, Yes, ClipboardConsent
<1>12. QED
  BY <1>8, <1>9, <1>10, <1>11

\* y, n and Esc: the answer is recorded for the pane that got it, and what a no
\* takes back is not ready any more.
LEMMA AnswerStep ==
    ASSUME ClipInv, NEW key \in {"y", "n", "esc"}, Answer(key)
    PROVE  ClipInv'
<1> USE DEF ClipInv
<1> DEFINE to == <<visible, prompt.id>>
           said == [i \in DOMAIN prompt.queued |-> [prompt.queued[i] EXCEPT !.kind = "asked"]]
           own == \A i \in DOMAIN prompt.queued : prompt.queued[i].of = to
<1>1. /\ clipPhase = "keys" /\ prompt' = NoPrompt /\ sent' = {}
      /\ UNCHANGED <<policy, visible, clipPhase>>
      /\ \/ to \notin Slots /\ UNCHANGED <<decision, ready, held, agreed, mistaken>>
         \/ /\ to \in Slots
            /\ decision' = CASE key = "y" -> [decision EXCEPT ![to] = "allowed"]
                             [] key = "n" -> [decision EXCEPT ![to] = "denied"]
                             [] OTHER -> decision
            /\ ready' = IF key = "y" THEN [ready EXCEPT ![to] = @ \o said] ELSE ready
            /\ held' = IF key # "esc" THEN held
                       ELSE [held EXCEPT ![to] = Requeued(prompt.queued, @)]
            /\ agreed' = IF key = "y" /\ own THEN agreed \cup {to}
                         ELSE IF key = "n" THEN agreed \ {to} ELSE agreed
            /\ mistaken' = IF own THEN mistaken ELSE mistaken \cup {to}
  BY DEF Answer
<1>2. ClipboardConsent'
  BY <1>1 DEF ClipboardConsent
<1>3. prompt' \in [id : Int, queued : Seq(OscRequest)]
  BY <1>1 DEF NoPrompt
<1>4. CASE to \notin Slots
  BY <1>1, <1>2, <1>3, <1>4
     DEF ClipTypes, AllowedByAnswer, Yes, ReadyIsSound, DrainedBeforeKeys
<1>5. CASE to \in Slots
  <2>1. prompt.queued \in Seq(OscRequest) /\ ready[to] \in Seq(OscRequest)
        /\ held[to] \in Seq(OscRequest)
    BY <1>5 DEF ClipTypes
  <2>2. Sound(to, ready[to], policy, Yes) /\ NoneLeft(ready[to])
    <3>1. to[1] = visible
      OBVIOUS
    <3>2. QED
      BY <1>1, <1>5, <3>1 DEF ReadyIsSound, DrainedBeforeKeys
  <2>3. Yes \ {to} \subseteq Yes'
    BY <1>1 DEF Yes
  <2>4. key = "y" => to \in Yes'
    BY <1>1, <1>5 DEF Yes
  <2>5. key # "n" => Yes \subseteq Yes'
    BY <1>1 DEF Yes
  <2>6. /\ ready[to] \o said \in Seq(OscRequest) /\ NoneLeft(ready[to] \o said)
        /\ Sound(to, ready[to] \o said, policy, Yes)
    BY <2>1, <2>2, SaidSound
  <2>7. /\ decision' = CASE key = "y" -> [decision EXCEPT ![to] = "allowed"]
                         [] key = "n" -> [decision EXCEPT ![to] = "denied"]
                         [] OTHER -> decision
        /\ ready' = IF key = "y" THEN [ready EXCEPT ![to] = @ \o said] ELSE ready
        /\ held' = IF key # "esc" THEN held
                   ELSE [held EXCEPT ![to] = Requeued(prompt.queued, @)]
    BY <1>1, <1>5
  <2> HIDE DEF to, said, own
  <2>8. ClipTypes'
    <3>1. decision' \in [Slots -> {"pending", "allowed", "denied"}]
      BY <1>5, <2>7 DEF ClipTypes
    <3>2. ready' \in [Slots -> Seq(OscRequest)]
      BY <1>5, <2>6, <2>7 DEF ClipTypes
    <3>3. Requeued(prompt.queued, held[to]) \in Seq(OscRequest)
      BY <2>1, RequeuedIs
    <3>4. held' \in [Slots -> Seq(OscRequest)]
      BY <1>5, <2>7, <3>3 DEF ClipTypes
    <3>5. QED
      BY <1>1, <1>3, <3>1, <3>2, <3>4 DEF ClipTypes
  <2>9. AllowedByAnswer'
    <3>1. SUFFICES ASSUME NEW t \in Slots, decision'[t] = "allowed"
                   PROVE  t \in Yes'
      BY DEF AllowedByAnswer
    <3>2. CASE t = to
      <4>1. key = "y" \/ (key = "esc" /\ decision[t] = "allowed")
        BY <1>5, <2>7, <3>1, <3>2 DEF ClipTypes
      <4>2. QED
        BY <2>4, <2>5, <3>2, <4>1 DEF AllowedByAnswer
    <3>3. CASE t # to
      <4>1. decision[t] = "allowed"
        BY <1>5, <2>7, <3>1, <3>3 DEF ClipTypes
      <4>2. QED
        BY <2>3, <3>3, <4>1 DEF AllowedByAnswer
    <3>4. QED
      BY <3>2, <3>3
  <2>10. \A t \in Slots : \/ ready'[t] = ready[t]
                          \/ t = to /\ ready'[t] = ready[to] \o said
    BY <1>5, <2>7 DEF ClipTypes
  <2>11. ReadyIsSound'
    <3>1. SUFFICES ASSUME NEW t \in Slots
                   PROVE  Sound(t, ready'[t], policy, Yes')
      BY <1>1 DEF ReadyIsSound
    <3>2. ready[t] \in Seq(OscRequest) /\ Sound(t, ready[t], policy, Yes)
      BY DEF ClipTypes, ReadyIsSound
    <3>3. CASE ready'[t] = ready[t]
      <4>1. t # to \/ NoneLeft(ready[t])
        BY <2>2
      <4>2. QED
        BY <2>3, <3>2, <3>3, <4>1, SoundWithout
    <3>4. CASE t = to /\ ready'[t] = ready[to] \o said
      <4>1. Sound(to, ready[to] \o said, policy, Yes')
        BY <1>5, <2>3, <2>6, SoundWithout
      <4>2. QED
        BY <3>4, <4>1
    <3>5. QED
      BY <2>10, <3>3, <3>4
  <2>12. DrainedBeforeKeys'
    BY <1>1, <2>6, <2>10 DEF DrainedBeforeKeys
  <2>13. QED
    BY <1>2, <2>8, <2>9, <2>11, <2>12
<1>6. QED
  BY <1>4, <1>5

\* A restarted pane has no answer, and its predecessor's requests, wherever
\* they wait, are nobody's.
LEMMA ReplaceStep ==
    ASSUME ClipInv, NEW s \in Slots, Replace(s)
    PROVE  ClipInv'
<1> USE DEF ClipInv
<1>1. /\ held' = [t \in Slots |-> IF t = s THEN <<>> ELSE Orphaned(held[t], s)]
      /\ ready' = [t \in Slots |-> IF t = s THEN <<>> ELSE Orphaned(ready[t], s)]
      /\ prompt' = [prompt EXCEPT !.queued = Orphaned(@, s)]
      /\ agreed' = agreed \ {s} /\ mistaken' = mistaken \ {s} /\ sent' = {}
      /\ UNCHANGED <<policy, visible, clipPhase>>
      /\ decision' = [decision EXCEPT ![s] = "pending"]
  BY DEF Replace, Renewed
<1>2. Yes' = Yes \ {s}
  BY <1>1 DEF Yes
<1>3. \A t \in Slots : ready[t] \in Seq(OscRequest) /\ held[t] \in Seq(OscRequest)
  BY DEF ClipTypes
<1>4. ClipTypes'
  <2>1. \A t \in Slots : /\ Orphaned(ready[t], s) \in Seq(OscRequest)
                         /\ Orphaned(held[t], s) \in Seq(OscRequest)
    BY <1>3, OrphanedIs
  <2>2. <<>> \in Seq(OscRequest)
    OBVIOUS
  <2>3. held' \in [Slots -> Seq(OscRequest)] /\ ready' \in [Slots -> Seq(OscRequest)]
    BY <1>1, <2>1, <2>2
  <2>4. prompt.queued \in Seq(OscRequest) /\ prompt.id \in Int
    BY DEF ClipTypes
  <2>5. Orphaned(prompt.queued, s) \in Seq(OscRequest)
    BY <2>4, OrphanedIs
  <2>6. prompt' \in [id : Int, queued : Seq(OscRequest)]
    BY <1>1, <2>4, <2>5 DEF ClipTypes
  <2>7. decision' \in [Slots -> {"pending", "allowed", "denied"}]
    BY <1>1 DEF ClipTypes
  <2>8. QED
    BY <1>1, <2>3, <2>6, <2>7 DEF ClipTypes
<1>5. AllowedByAnswer'
  <2>1. SUFFICES ASSUME NEW t \in Slots, decision'[t] = "allowed"
                 PROVE  t \in Yes'
    BY DEF AllowedByAnswer
  <2>2. t # s /\ decision[t] = "allowed"
    BY <1>1, <2>1 DEF ClipTypes
  <2>3. QED
    BY <1>2, <2>2 DEF AllowedByAnswer
<1>6. ReadyIsSound'
  <2>1. SUFFICES ASSUME NEW t \in Slots
                 PROVE  Sound(t, ready'[t], policy, Yes \ {s})
    BY <1>1, <1>2 DEF ReadyIsSound
  <2>2. CASE t = s
    <3>1. ready'[t] = <<>>
      BY <1>1, <2>2
    <3>2. QED
      BY <3>1 DEF Sound
  <2>3. CASE t # s
    <3> DEFINE o == Orphaned(ready[t], s)
    <3>1. ready'[t] = o
      BY <1>1, <2>3
    <3>2. /\ Len(o) = Len(ready[t])
          /\ \A i \in 1 .. Len(ready[t]) :
                /\ o[i].kind = ready[t][i].kind
                /\ o[i].of = IF ready[t][i].of = s THEN Nobody ELSE ready[t][i].of
      BY <1>3, OrphanedIs
    <3>3. Sound(t, ready[t], policy, Yes)
      BY DEF ReadyIsSound
    <3> HIDE DEF o
    <3>4. SUFFICES ASSUME NEW i \in 1 .. Len(ready[t])
                   PROVE  /\ Consented(o[i], policy, Yes \ {s})
                          /\ o[i].kind = "set" => o[i].of \in {t, Nobody}
      BY <3>1, <3>2 DEF Sound
    <3>5. /\ Consented(ready[t][i], policy, Yes)
          /\ ready[t][i].kind = "set" => ready[t][i].of \in {t, Nobody}
      BY <3>3 DEF Sound
    <3>6. o[i].kind = "set" => o[i].of \in {t, Nobody}
      BY <3>2, <3>5
    <3>7. CASE ready[t][i].of = s
      <4>1. o[i].of \notin Slots
        BY <3>2, <3>7, ClipboardAssumption
      <4>2. QED
        BY <3>6, <4>1 DEF Consented
    <3>8. CASE ready[t][i].of # s
      <4>1. o[i].of = ready[t][i].of /\ o[i].kind = ready[t][i].kind
        BY <3>2, <3>8
      <4>2. QED
        BY <3>5, <3>6, <3>8, <4>1 DEF Consented
    <3>9. QED
      BY <3>7, <3>8
  <2>4. QED
    BY <2>2, <2>3
<1>7. DrainedBeforeKeys'
  <2>1. SUFFICES ASSUME clipPhase = "keys", NEW t \in Slots, t[1] = visible
                 PROVE  NoneLeft(ready'[t])
    BY <1>1 DEF DrainedBeforeKeys
  <2>2. NoneLeft(ready[t])
    BY <2>1 DEF DrainedBeforeKeys
  <2>3. ready'[t] = <<>> \/ ready'[t] = Orphaned(ready[t], s)
    BY <1>1
  <2>4. NoneLeft(<<>>)
    BY DEF NoneLeft
  <2>5. NoneLeft(Orphaned(ready[t], s))
    <3> DEFINE o == Orphaned(ready[t], s)
    <3>1. Len(o) = Len(ready[t]) /\ \A i \in 1 .. Len(ready[t]) : o[i].kind = ready[t][i].kind
      BY <1>3, OrphanedIs
    <3> HIDE DEF o
    <3>2. NoneLeft(o)
      BY <2>2, <3>1 DEF NoneLeft
    <3>3. QED
      BY <3>2 DEF o
  <2>6. QED
    BY <2>3, <2>4, <2>5
<1>8. ClipboardConsent'
  BY <1>1 DEF ClipboardConsent
<1>9. QED
  BY <1>4, <1>5, <1>6, <1>7, <1>8

\* Every step of the panes, of the user and of the main loop.
LEMMA ClipStepInv == ClipInv /\ [ClipNext]_clipVars => ClipInv'
<1> SUFFICES ASSUME ClipInv, [ClipNext]_clipVars
             PROVE  ClipInv'
  OBVIOUS
<1>1. CASE Emit
  BY <1>1, EmitStep
<1>2. CASE Forward
  BY <1>2, ForwardStep
<1>3. CASE CopyText
  BY <1>3, CopyStep
<1>4. CASE NextRound
  BY <1>4 DEF NextRound, ClipInv, ClipTypes, AllowedByAnswer, Yes, ReadyIsSound,
              DrainedBeforeKeys, ClipboardConsent
<1>5. CASE LoadWorkspace
  <2>1. ClipTypes'
    <3>1. prompt' \in [id : Int, queued : Seq(OscRequest)]
      BY <1>5 DEF LoadWorkspace, NoPrompt
    <3>2. QED
      BY <1>5, <3>1 DEF LoadWorkspace, ClipInv, ClipTypes
  <2>2. ReadyIsSound' /\ DrainedBeforeKeys'
    BY <1>5 DEF LoadWorkspace, ReadyIsSound, Sound, DrainedBeforeKeys, NoneLeft
  <2>3. AllowedByAnswer' /\ ClipboardConsent'
    BY <1>5 DEF LoadWorkspace, AllowedByAnswer, ClipboardConsent
  <2>4. QED
    BY <2>1, <2>2, <2>3 DEF ClipInv
<1>6. ASSUME NEW key \in {"y", "n", "esc"}, Answer(key)
      PROVE  ClipInv'
  BY <1>6, AnswerStep
<1>7. ASSUME NEW s \in Slots, Replace(s)
      PROVE  ClipInv'
  BY <1>7, ReplaceStep
<1>8. CASE UNCHANGED clipVars
  BY <1>8 DEF clipVars, ClipInv, ClipTypes, AllowedByAnswer, Yes, ReadyIsSound,
              DrainedBeforeKeys, ClipboardConsent
<1>9. QED
  BY <1>1, <1>2, <1>3, <1>4, <1>5, <1>6, <1>7, <1>8 DEF ClipNext

\* Whatever panes ask, however prompts are shown, answered, put off and
\* outlived: the clients only get what the user has consented to, by her
\* policy or by an answer.
THEOREM ClipboardNeedsConsent == ClipSpec => []ClipboardConsent
<1>1. ClipInv => ClipboardConsent
  BY DEF ClipInv
<1>2. QED
  BY <1>1, ClipInitInv, ClipStepInv, PTL DEF ClipSpec

-----------------------------------------------------------------------------
(* The paste buffers.                                                      *)

AllNames == Names \cup {Default}

\* The first MaxBuffers names, of which each occurs once.
Newest(s) == {j \in 1 .. Len(s) : j <= MaxBuffers}
Latest(s) == {s[i] : i \in Newest(s)}
Distinct(s) == \A i, j \in 1 .. Len(s) : s[i] = s[j] => i = j

\* The ages of those names: the later one was set, the higher its number.
Aged(st, s, top) ==
    /\ st \in [Latest(s) -> Nat]
    /\ \A n \in Latest(s) : st[n] < top
    /\ \A i, j \in Newest(s) : i < j => st[s[j]] < st[s[i]]

\* The inductive invariant of the buffer store.
BufferInv ==
    /\ recent \in Seq(AllNames) /\ Distinct(recent)
    /\ nextSeq \in Nat /\ nextSeq <= MaxSeq
    /\ Aged(store, recent, nextSeq)

\* As many names are among the latest as there are, up to the bound.
LEMMA LatestCount ==
    ASSUME NEW s \in Seq(AllNames), Distinct(s)
    PROVE  /\ IsFiniteSet(Latest(s))
           /\ Cardinality(Latest(s)) = IF Len(s) <= MaxBuffers THEN Len(s) ELSE MaxBuffers
<1> DEFINE k == IF Len(s) <= MaxBuffers THEN Len(s) ELSE MaxBuffers
           h == [i \in 1 .. k |-> s[i]]
<1>1. k \in Nat /\ k <= Len(s) /\ Newest(s) = 1 .. k
  BY BuffersAssumption DEF Newest
<1> HIDE DEF k
<1>2. h \in Bijection(1 .. k, Latest(s))
  <2>1. h \in [1 .. k -> Latest(s)]
    BY <1>1 DEF Latest
  <2>2. \A i, j \in 1 .. k : h[i] = h[j] => i = j
    BY <1>1 DEF Distinct
  <2>3. \A n \in Latest(s) : \E i \in 1 .. k : h[i] = n
    BY <1>1 DEF Latest
  <2> HIDE DEF h
  <2>4. QED
    BY <2>1, <2>2, <2>3, Fun_IsBij, Zenon DEF ExistsBijection
<1>3. IsFiniteSet(1 .. k) /\ Cardinality(1 .. k) = k
  BY <1>1, FS_Interval
<1> HIDE DEF h
<1>4. QED
  BY <1>2, <1>3, FS_Bijection, Zenon DEF ExistsBijection, k

\* Numbering anew keeps the order of the ages and starts from nought.
LEMMA RenumberedAged ==
    ASSUME NEW s \in Seq(AllNames), Distinct(s), NEW st, NEW top \in Nat, Aged(st, s, top)
    PROVE  Aged(Renumbered(st), s, Cardinality(DOMAIN st))
<1> DEFINE D == Latest(s)
           Below(n) == {m \in D : st[m] < st[n]}
           r == Renumbered(st)
<1>1. IsFiniteSet(D) /\ DOMAIN st = D /\ \A n \in D : st[n] \in Nat
  BY LatestCount DEF Aged
<1>2. r = [n \in D |-> Cardinality(Below(n))]
  BY <1>1 DEF Renumbered
<1>3. ASSUME NEW n \in D
      PROVE  /\ Cardinality(Below(n)) \in Nat /\ IsFiniteSet(Below(n))
             /\ Cardinality(Below(n)) < Cardinality(D)
  <2>1. Below(n) \in SUBSET D /\ n \notin Below(n)
    BY <1>1
  <2> HIDE DEF D
  <2>2. Below(n) # D
    BY <2>1
  <2> HIDE DEF Below
  <2>3. IsFiniteSet(Below(n)) /\ Cardinality(Below(n)) <= Cardinality(D)
        /\ Cardinality(Below(n)) # Cardinality(D)
    BY <1>1, <2>1, <2>2, FS_Subset
  <2>4. Cardinality(Below(n)) \in Nat /\ Cardinality(D) \in Nat
    BY <1>1, <2>3, FS_CardinalityType
  <2>5. QED
    BY <2>3, <2>4
<1>4. ASSUME NEW n \in D, NEW m \in D, st[m] < st[n]
      PROVE  Cardinality(Below(m)) < Cardinality(Below(n))
  <2>1. Below(m) \in SUBSET Below(n) /\ m \in Below(n) /\ m \notin Below(m)
    BY <1>1, <1>4
  <2>2. Below(m) # Below(n)
    BY <2>1
  <2> HIDE DEF D, Below
  <2>3. Cardinality(Below(m)) <= Cardinality(Below(n)) /\ Cardinality(Below(m)) # Cardinality(Below(n))
    BY <1>3, <2>1, <2>2, FS_Subset
  <2>4. QED
    BY <1>3, <2>3
<1> HIDE DEF r, Below
<1>5. r \in [D -> Nat]
  BY <1>2, <1>3
<1>6. \A n \in D : r[n] < Cardinality(D)
  BY <1>2, <1>3
<1>7. ASSUME NEW i \in Newest(s), NEW j \in Newest(s), i < j
      PROVE  r[s[j]] < r[s[i]]
  <2>1. s[i] \in D /\ s[j] \in D
    BY DEF Latest
  <2>2. st[s[j]] < st[s[i]]
    BY <1>7 DEF Aged
  <2> HIDE DEF D
  <2>3. QED
    BY <1>2, <1>4, <2>1, <2>2
<1>8. QED
  BY <1>1, <1>5, <1>6, <1>7 DEF Aged, r

\* The oldest buffer is the last of the names kept.
LEMMA OldestIsLast ==
    ASSUME NEW s \in Seq(AllNames), Distinct(s), NEW st, NEW top \in Nat, Aged(st, s, top),
           Len(s) >= MaxBuffers
    PROVE  Oldest(st) = s[MaxBuffers]
<1>1. MaxBuffers \in Newest(s) /\ \A i \in Newest(s) : i \in Nat /\ i <= MaxBuffers
  BY BuffersAssumption DEF Newest
<1>2. DOMAIN st = Latest(s) /\ \A n \in Latest(s) : st[n] \in Nat
  BY DEF Aged
<1>3. s[MaxBuffers] \in Latest(s)
  BY <1>1 DEF Latest
<1>4. ASSUME NEW n \in Latest(s), n # s[MaxBuffers]
      PROVE  st[s[MaxBuffers]] < st[n]
  <2>1. PICK i \in Newest(s) : n = s[i]
    BY DEF Latest
  <2>2. i < MaxBuffers
    BY <1>1, <1>4, <2>1, BuffersAssumption
  <2>3. QED
    BY <1>1, <2>1, <2>2 DEF Aged
<1>5. \A m \in Latest(s) : st[s[MaxBuffers]] <= st[m]
  BY <1>2, <1>3, <1>4
<1>6. \A n \in Latest(s) : (\A m \in Latest(s) : st[n] <= st[m]) => n = s[MaxBuffers]
  BY <1>2, <1>3, <1>4
<1>7. QED
  BY <1>2, <1>3, <1>5, <1>6 DEF Oldest

\* The names after one was set: it leads, and its earlier place is closed.
Leads(r, s, name, p) ==
    /\ r \in Seq(AllNames) /\ Distinct(r)
    /\ Len(r) = IF p <= Len(s) THEN Len(s) ELSE Len(s) + 1
    /\ \A i \in 1 .. Len(r) : r[i] = IF i = 1 THEN name ELSE IF i <= p THEN s[i - 1] ELSE s[i]

Place(s, name, p) ==
    /\ p \in 1 .. Len(s) + 1
    /\ p <= Len(s) => s[p] = name
    /\ \A i \in 1 .. Len(s) : i # p => s[i] # name

\* A name has a place among the recent ones, or comes after all of them.
LEMMA PlaceExists ==
    ASSUME NEW s \in Seq(AllNames), Distinct(s), NEW name \in AllNames
    PROVE  \E p : Place(s, name, p)
<1>1. Len(s) \in Nat
  OBVIOUS
<1>2. CASE \E p \in 1 .. Len(s) : s[p] = name
  <2>1. PICK p \in 1 .. Len(s) : s[p] = name
    BY <1>2
  <2>2. Place(s, name, p)
    BY <1>1, <2>1 DEF Place, Distinct
  <2>3. QED
    BY <2>2
<1>3. CASE ~ \E p \in 1 .. Len(s) : s[p] = name
  <2>1. Place(s, name, Len(s) + 1)
    BY <1>1, <1>3 DEF Place
  <2>2. QED
    BY <2>1
<1>4. QED
  BY <1>2, <1>3

\* The stored name leads; those before its old place move back by one.
LEMMA NameLeads ==
    ASSUME NEW s \in Seq(AllNames), Distinct(s), NEW name \in AllNames, NEW p, Place(s, name, p)
    PROVE  Leads(<<name>> \o Without(s, {name}), s, name, p)
<1> DEFINE q == Without(s, {name})
           r == <<name>> \o q
<1>1. Len(s) \in Nat /\ p \in 1 .. Len(s) + 1 /\ (p <= Len(s) => s[p] = name)
      /\ \A i \in 1 .. Len(s) : i # p => s[i] # name
  BY DEF Place
<1>2. /\ q \in Seq(AllNames)
      /\ Len(q) = IF p <= Len(s) THEN Len(s) - 1 ELSE Len(s)
      /\ \A i \in 1 .. Len(q) : q[i] = IF i < p THEN s[i] ELSE s[i + 1]
  BY <1>1, WithoutOne
<1> HIDE DEF q
<1>3. /\ r \in Seq(AllNames) /\ Len(r) = Len(q) + 1 /\ Len(q) \in Nat
      /\ \A i \in 1 .. Len(r) : r[i] = IF i = 1 THEN name ELSE q[i - 1]
  BY <1>2
<1> HIDE DEF r
<1>4. Len(r) = IF p <= Len(s) THEN Len(s) ELSE Len(s) + 1
  BY <1>1, <1>2, <1>3
<1>5. ASSUME NEW i \in 1 .. Len(r)
      PROVE  r[i] = IF i = 1 THEN name ELSE IF i <= p THEN s[i - 1] ELSE s[i]
  <2>1. CASE i = 1
    BY <1>3, <2>1
  <2>2. CASE i # 1
    <3>1. i - 1 \in 1 .. Len(q) /\ (i - 1) + 1 = i /\ (i - 1 < p <=> i <= p)
      BY <1>1, <1>3, <2>2
    <3>2. r[i] = q[i - 1]
      BY <1>3, <2>2
    <3>3. q[i - 1] = IF i - 1 < p THEN s[i - 1] ELSE s[(i - 1) + 1]
      BY <1>2, <3>1
    <3>4. QED
      BY <2>2, <3>1, <3>2, <3>3
  <2>3. QED
    BY <2>1, <2>2
<1> DEFINE g(i) == IF i <= p THEN i - 1 ELSE i
<1>6. ASSUME NEW i \in 1 .. Len(r), i # 1
      PROVE  r[i] = s[g(i)] /\ g(i) \in 1 .. Len(s) /\ g(i) # p
  BY <1>1, <1>4, <1>5, <1>6
<1>7. ASSUME NEW i \in 1 .. Len(r), NEW j \in 1 .. Len(r), r[i] = r[j]
      PROVE  i = j
  <2>1. CASE i = 1 \/ j = 1
    <3>1. \A m \in 1 .. Len(r) : m # 1 => r[m] # name
      <4> HIDE DEF g
      <4> QED
        BY <1>1, <1>6
    <3>2. QED
      BY <1>5, <1>7, <2>1, <3>1
  <2>2. CASE i # 1 /\ j # 1
    <3>1. g(i) = g(j)
      <4> HIDE DEF g
      <4> QED
        BY <1>6, <1>7, <2>2 DEF Distinct
    <3>2. QED
      BY <1>1, <3>1
  <2>3. QED
    BY <2>1, <2>2
<1>8. QED
  BY <1>3, <1>4, <1>5, <1>7 DEF Leads, Distinct, r, q

\* The store after a name was set.
Stored(st, name, seq) ==
    LET evicts == name \notin DOMAIN st /\ Cardinality(DOMAIN st) >= MaxBuffers
        kept == IF evicts THEN DOMAIN st \ {Oldest(st)} ELSE DOMAIN st
    IN  [n \in kept \cup {name} |-> IF n = name THEN seq ELSE st[n]]

\* Giving a name the highest number keeps the names' order of age.
LEMMA StoredAged ==
    ASSUME NEW s \in Seq(AllNames), Distinct(s), NEW name \in AllNames, NEW p, Place(s, name, p),
           NEW r, Leads(r, s, name, p), NEW st, NEW top \in Nat, Aged(st, s, top)
    PROVE  Aged(Stored(st, name, top), r, top + 1)
<1> DEFINE g(i) == IF i <= p THEN i - 1 ELSE i
           evicts == name \notin DOMAIN st /\ Cardinality(DOMAIN st) >= MaxBuffers
           kept == IF evicts THEN DOMAIN st \ {Oldest(st)} ELSE DOMAIN st
           st2 == [n \in kept \cup {name} |-> IF n = name THEN top ELSE st[n]]
<1>1. Len(s) \in Nat /\ p \in 1 .. Len(s) + 1 /\ (p <= Len(s) => s[p] = name)
      /\ \A i \in 1 .. Len(s) : i # p => s[i] # name
  BY DEF Place
<1>2. /\ Len(r) \in Nat /\ r[1] = name /\ 1 \in 1 .. Len(r)
      /\ Len(r) = IF p <= Len(s) THEN Len(s) ELSE Len(s) + 1
  BY <1>1 DEF Leads
<1>3. ASSUME NEW i \in 1 .. Len(r), i # 1
      PROVE  r[i] = s[g(i)] /\ g(i) \in 1 .. Len(s) /\ g(i) # p /\ r[i] # name
  BY <1>1, <1>2, <1>3 DEF Leads
<1>4. DOMAIN st = Latest(s) /\ \A n \in Latest(s) : st[n] \in Nat /\ st[n] < top
  BY DEF Aged
<1>5. evicts <=> name \notin Latest(s) /\ Len(s) >= MaxBuffers
  BY <1>1, <1>4, LatestCount, BuffersAssumption
<1>6. evicts => Oldest(st) = s[MaxBuffers] /\ p > MaxBuffers
  <2>1. ASSUME evicts
        PROVE  p > MaxBuffers
    <3>1. p <= MaxBuffers => p \in Newest(s)
      BY <1>1, <1>5, <2>1, BuffersAssumption DEF Newest
    <3>2. p <= MaxBuffers => name \in Latest(s)
      BY <1>1, <1>5, <2>1, <3>1, BuffersAssumption DEF Latest
    <3>3. QED
      BY <1>1, <1>5, <2>1, <3>2, BuffersAssumption
  <2>2. QED
    BY <1>5, <2>1, OldestIsLast
<1>7. \A i \in 1 .. Len(r) : i # 1 /\ i <= MaxBuffers => g(i) \in Newest(s)
  <2>1. SUFFICES ASSUME NEW i \in 1 .. Len(r), i # 1, i <= MaxBuffers
                 PROVE  g(i) \in Newest(s)
    OBVIOUS
  <2>2. g(i) \in 1 .. Len(s) /\ g(i) <= i
    BY <1>1, <1>3, <2>1
  <2>3. QED
    BY <2>1, <2>2, BuffersAssumption DEF Newest
<1> HIDE DEF evicts
<1>8. \A n \in Latest(r) : n \in kept \cup {name}
  <2>1. SUFFICES ASSUME NEW i \in 1 .. Len(r), i <= MaxBuffers, i # 1
                 PROVE  r[i] \in kept
    BY <1>2 DEF Latest, Newest
  <2>2. r[i] = s[g(i)] /\ g(i) \in Newest(s)
    BY <1>3, <1>7, <2>1
  <2>3. r[i] \in Latest(s)
    <3> HIDE DEF g
    <3> QED
      BY <2>2 DEF Latest
  <2>4. ASSUME evicts
        PROVE  r[i] # Oldest(st)
    <3>1. g(i) \in 1 .. Len(s) /\ g(i) # MaxBuffers /\ MaxBuffers \in 1 .. Len(s)
      BY <1>1, <1>3, <1>5, <1>6, <2>1, <2>4, BuffersAssumption
    <3> HIDE DEF g
    <3>2. QED
      BY <1>6, <2>2, <2>4, <3>1 DEF Distinct
  <2>5. QED
    BY <1>4, <2>3, <2>4
<1>9. \A n \in kept \cup {name} : n \in Latest(r)
  <2>1. name \in Latest(r)
    <3>1. 1 \in Newest(r)
      BY <1>2, BuffersAssumption DEF Newest
    <3>2. QED
      BY <1>2, <3>1 DEF Latest
  <2>2. ASSUME NEW n \in kept, n # name
        PROVE  n \in Latest(r)
    <3>1. n \in Latest(s) /\ (evicts => n # Oldest(st))
      BY <1>4, <2>2
    <3>2. PICK j \in 1 .. Len(s) : j <= MaxBuffers /\ n = s[j]
      BY <3>1 DEF Latest, Newest
    <3>3. j # p
      BY <1>1, <2>2, <3>2
    <3>4. CASE j > p
      <4>1. j \in 1 .. Len(r) /\ r[j] = s[j]
        BY <1>1, <1>2, <3>4 DEF Leads
      <4>2. j \in Newest(r)
        BY <3>2, <4>1 DEF Newest
      <4>3. QED
        BY <3>2, <4>1, <4>2 DEF Latest
    <3>5. CASE j < p
      <4>1. j + 1 \in 1 .. Len(r) /\ r[j + 1] = s[j]
        <5>1. j + 1 \in 1 .. Len(r) /\ j + 1 # 1 /\ g(j + 1) = j
          BY <1>1, <1>2, <3>5
        <5> HIDE DEF g
        <5>2. QED
          BY <1>3, <5>1
      <4>2. j # MaxBuffers
        <5>1. SUFFICES ASSUME j = MaxBuffers PROVE FALSE
          OBVIOUS
        <5>2. p > MaxBuffers /\ Len(s) >= MaxBuffers
          BY <1>1, <3>5, <5>1, BuffersAssumption
        <5>3. name \notin Latest(s)
          BY <1>1, <5>2, BuffersAssumption DEF Latest, Newest
        <5>4. QED
          BY <1>5, <1>6, <3>1, <3>2, <5>1, <5>2, <5>3
      <4>3. j + 1 \in Newest(r)
        BY <3>2, <4>1, <4>2, BuffersAssumption DEF Newest
      <4>4. QED
        BY <3>2, <4>1, <4>3 DEF Latest
    <3>6. QED
      BY <1>1, <3>3, <3>4, <3>5
  <2>3. QED
    BY <2>1, <2>2
<1>10. kept \subseteq Latest(s)
  BY <1>4
<1> HIDE DEF kept
<1>11. kept \cup {name} = Latest(r)
  BY <1>8, <1>9
<1>12. st2 \in [Latest(r) -> Nat] /\ \A n \in Latest(r) : st2[n] < top + 1
  BY <1>4, <1>10, <1>11
<1>13. ASSUME NEW i \in Newest(r), NEW j \in Newest(r), i < j
       PROVE  st2[r[j]] < st2[r[i]]
  <2>1. i \in 1 .. Len(r) /\ j \in 1 .. Len(r) /\ j # 1 /\ i <= MaxBuffers /\ j <= MaxBuffers
        /\ r[i] \in Latest(r) /\ r[j] \in Latest(r)
    BY <1>2, <1>13 DEF Newest, Latest
  <2>2. r[j] = s[g(j)] /\ g(j) \in Newest(s) /\ r[j] # name
    BY <1>3, <1>7, <2>1
  <2>3. st2[r[j]] = st[s[g(j)]] /\ st[s[g(j)]] < top
    <3>1. s[g(j)] \in Latest(s)
      <4> HIDE DEF g
      <4> QED
        BY <2>2 DEF Latest
    <3> HIDE DEF g
    <3>2. QED
      BY <1>4, <1>11, <2>1, <2>2, <3>1
  <2>4. CASE i = 1
    <3>1. st2[r[i]] = top
      BY <1>2, <1>11, <2>1, <2>4
    <3>2. QED
      BY <2>3, <3>1
  <2>5. CASE i # 1
    <3>1. r[i] = s[g(i)] /\ g(i) \in Newest(s) /\ r[i] # name
      BY <1>3, <1>7, <2>1, <2>5
    <3>2. g(i) < g(j)
      BY <1>1, <1>13, <2>1
    <3> HIDE DEF g
    <3>3. st2[r[i]] = st[s[g(i)]]
      BY <1>11, <2>1, <3>1
    <3>4. QED
      BY <2>2, <2>3, <3>1, <3>2, <3>3 DEF Aged
  <2>6. QED
    BY <2>4, <2>5
<1>14. Stored(st, name, top) = st2
  BY DEF Stored, kept, evicts
<1>15. QED
  BY <1>12, <1>13, <1>14 DEF Aged

\* The empty store satisfies the invariant.
LEMMA BufferInitInv == BufferInit => BufferInv
<1>1. SUFFICES ASSUME BufferInit
               PROVE  BufferInv
  OBVIOUS
<1>2. recent = <<>> /\ store = <<>> /\ nextSeq = 0
  BY <1>1 DEF BufferInit
<1>3. Len(<<>>) = 0 /\ <<>> \in Seq(AllNames)
  OBVIOUS
<1>4. Newest(<<>>) = {} /\ Distinct(<<>>)
  BY <1>3 DEF Newest, Distinct
<1>5. Latest(<<>>) = {}
  BY <1>4 DEF Latest
<1>6. <<>> \in [{} -> Nat]
  OBVIOUS
<1>7. Aged(<<>>, <<>>, 0)
  BY <1>4, <1>5, <1>6 DEF Aged
<1>8. QED
  BY <1>2, <1>3, <1>4, <1>7, BuffersAssumption DEF BufferInv

\* Setting a buffer keeps it.
LEMMA BufferSetInv ==
    ASSUME BufferInv, NEW name \in AllNames, BufferSet(name)
    PROVE  BufferInv'
<1> DEFINE wraps == nextSeq = MaxSeq
           st == IF wraps THEN Renumbered(store) ELSE store
           seq == IF wraps THEN Cardinality(DOMAIN store) ELSE nextSeq
<1>1. recent \in Seq(AllNames) /\ Distinct(recent) /\ nextSeq \in Nat /\ nextSeq <= MaxSeq
      /\ Aged(store, recent, nextSeq)
  BY DEF BufferInv
<1>2. store' = Stored(st, name, seq) /\ nextSeq' = seq + 1
      /\ recent' = <<name>> \o Without(recent, {name})
  BY DEF BufferSet, Stored
<1>3. Cardinality(DOMAIN store) \in Nat /\ Cardinality(DOMAIN store) <= MaxBuffers
  <2>1. DOMAIN store = Latest(recent)
    BY <1>1 DEF Aged
  <2>2. Cardinality(Latest(recent)) = IF Len(recent) <= MaxBuffers THEN Len(recent) ELSE MaxBuffers
    BY <1>1, LatestCount
  <2>3. Len(recent) \in Nat
    BY <1>1
  <2>4. QED
    BY <2>1, <2>2, <2>3, BuffersAssumption
<1>4. seq \in Nat /\ seq + 1 \in Nat /\ seq + 1 <= MaxSeq
  BY <1>1, <1>3, BuffersAssumption
<1>5. Aged(st, recent, seq)
  BY <1>1, RenumberedAged
<1> HIDE DEF st, seq
<1>6. PICK p : Place(recent, name, p)
  BY <1>1, PlaceExists
<1>7. Leads(recent', recent, name, p)
  BY <1>1, <1>2, <1>6, NameLeads
<1>8. Aged(Stored(st, name, seq), recent', seq + 1)
  BY <1>1, <1>4, <1>5, <1>6, <1>7, StoredAged
<1>9. recent' \in Seq(AllNames) /\ Distinct(recent')
  BY <1>7 DEF Leads
<1>10. BufferInv' <=> /\ recent' \in Seq(AllNames) /\ Distinct(recent')
                      /\ nextSeq' \in Nat /\ nextSeq' <= MaxSeq
                      /\ Aged(store', recent', nextSeq')
  BY DEF BufferInv, AllNames, Aged, Distinct, Latest, Newest
<1>11. QED
  BY <1>2, <1>4, <1>8, <1>9, <1>10

\* The store keeps the buffers set last, for every limit and every number of
\* yanks, also when the sequence numbers run out and are given out anew.
THEOREM BuffersStayLatest == BufferSpec => []BuffersAreLatest
<1>1. BufferInv => BuffersAreLatest
  BY DEF BufferInv, Aged, BuffersAreLatest, Latest, Newest
<1>2. BufferInv /\ [\E name \in AllNames : BufferSet(name)]_bufferVars => BufferInv'
  <2>1. BufferInv /\ UNCHANGED bufferVars => BufferInv'
    BY DEF BufferInv, bufferVars, Aged, Distinct, Latest, Newest
  <2>2. QED
    BY <2>1, BufferSetInv
<1>3. QED
  BY <1>1, <1>2, BufferInitInv, PTL DEF BufferSpec, AllNames

-----------------------------------------------------------------------------
(* The tabs.                                                               *)

\* A manager whose storage and gap add up.
WellFormed(m) ==
    /\ m \in Manager
    /\ m.count = Len(m.tabs) + 1
    /\ m.active_idx < m.count

\* The logical list of a manager and the tab unpacked from it.
ListOf(m, cur) == VecInsert(m.tabs, m.active_idx, cur)

\* List t is list s followed by the tab x.
IsAppend(t, s, x) ==
    /\ t \in Seq(Tab) /\ Len(t) = Len(s) + 1
    /\ \A j \in 1 .. Len(s) : t[j] = s[j]
    /\ t[Len(s) + 1] = x

\* Lists t and s of tabs differ at most at position i.
DifferAt(t, s, i, y, x) ==
    /\ t \in Seq(Tab) /\ Len(t) = Len(s)
    /\ t[i] = y /\ s[i] = x
    /\ \A j \in 1 .. Len(s) : j # i => t[j] = s[j]

-----------------------------------------------------------------------------
(* Vec::insert and Vec::remove.                                            *)

\* Vec::insert: the element is at its index, what was there moves up.
LEMMA InsertProperties ==
  ASSUME NEW S, NEW s \in Seq(S), NEW i \in 0 .. Len(s), NEW x \in S
  PROVE  /\ VecInsert(s, i, x) \in Seq(S)
         /\ Len(VecInsert(s, i, x)) = Len(s) + 1
         /\ \A j \in 1 .. i : VecInsert(s, i, x)[j] = s[j]
         /\ VecInsert(s, i, x)[i + 1] = x
         /\ \A j \in i + 2 .. Len(s) + 1 : VecInsert(s, i, x)[j] = s[j - 1]
<1> DEFINE e(j) == IF j <= i THEN s[j] ELSE IF j = i + 1 THEN x ELSE s[j - 1]
           t == [j \in 1 .. Len(s) + 1 |-> e(j)]
<1>1. VecInsert(s, i, x) = t
  BY DEF VecInsert
<1>2. Len(s) + 1 \in Nat
  BY LenProperties
<1>3. \A j \in 1 .. Len(s) + 1 : e(j) \in S
  BY ElementOfSeq, LenProperties
<1> HIDE DEF e
<1>4. t \in [1 .. Len(s) + 1 -> S]
  BY <1>3
<1>5. t \in Seq(S) /\ Len(t) = Len(s) + 1
  BY <1>2, <1>4
<1>6. Len(s) \in Nat
  BY LenProperties
<1> QED
  BY <1>1, <1>5, <1>6 DEF e

\* At the end it appends.
LEMMA InsertAtEnd ==
  ASSUME NEW s \in Seq(Tab), NEW x \in Tab
  PROVE  IsAppend(VecInsert(s, Len(s), x), s, x)
<1> DEFINE t == [j \in 1 .. Len(s) + 1 |-> IF j <= Len(s) THEN s[j] ELSE x]
<1>1. Len(s) \in Nat
  BY LenProperties
<1>2. VecInsert(s, Len(s), x) = t
  BY <1>1 DEF VecInsert
<1>3. t \in [1 .. Len(s) + 1 -> Tab]
  BY <1>1, ElementOfSeq
<1>4. t \in Seq(Tab) /\ Len(t) = Len(s) + 1
  BY <1>1, <1>3
<1>5. (\A j \in 1 .. Len(s) : t[j] = s[j]) /\ t[Len(s) + 1] = x
  BY <1>1
<1> HIDE DEF t
<1> QED
  BY <1>2, <1>4, <1>5, Zenon DEF IsAppend

\* Vec::remove: what was above the index moves down.
LEMMA RemoveProperties ==
  ASSUME NEW S, NEW s \in Seq(S), NEW i \in 0 .. Len(s) - 1
  PROVE  /\ VecRemove(s, i) \in Seq(S)
         /\ Len(VecRemove(s, i)) = Len(s) - 1
         /\ \A j \in 1 .. i : VecRemove(s, i)[j] = s[j]
         /\ \A j \in i + 1 .. Len(s) - 1 : VecRemove(s, i)[j] = s[j + 1]
<1> DEFINE e(j) == IF j <= i THEN s[j] ELSE s[j + 1]
           t == [j \in 1 .. Len(s) - 1 |-> e(j)]
<1>1. VecRemove(s, i) = t
  BY DEF VecRemove
<1>2. Len(s) - 1 \in Nat
  BY LenProperties
<1>3. \A j \in 1 .. Len(s) - 1 : e(j) \in S
  BY ElementOfSeq, LenProperties
<1> HIDE DEF e
<1>4. t \in [1 .. Len(s) - 1 -> S]
  BY <1>3
<1>5. t \in Seq(S) /\ Len(t) = Len(s) - 1
  BY <1>2, <1>4
<1>6. Len(s) \in Nat
  BY LenProperties
<1> QED
  BY <1>1, <1>5, <1>6 DEF e

\* Taking the element at i out and putting it back gives the same Vec.
LEMMA InsertAfterRemove ==
  ASSUME NEW S, NEW s \in Seq(S), NEW i \in 0 .. Len(s) - 1
  PROVE  VecInsert(VecRemove(s, i), i, s[i + 1]) = s
<1> DEFINE r == VecRemove(s, i)
           x == s[i + 1]
           t == VecInsert(r, i, x)
<1>1. /\ Len(s) \in Nat \ {0} /\ i \in Nat /\ x \in S
  BY LenProperties, ElementOfSeq
<1>2. r \in Seq(S) /\ Len(r) = Len(s) - 1 /\ i \in 0 .. Len(r)
  BY <1>1, RemoveProperties
<1>3. /\ t \in Seq(S) /\ Len(t) = Len(r) + 1
      /\ \A j \in 1 .. i : t[j] = r[j]
      /\ t[i + 1] = x
      /\ \A j \in i + 2 .. Len(r) + 1 : t[j] = r[j - 1]
  <2> HIDE DEF r, x
  <2>1. i \in 0 .. Len(r) /\ r \in Seq(S) /\ x \in S
    BY <1>1, <1>2
  <2>2. t \in Seq(S) /\ Len(t) = Len(r) + 1
    BY <2>1, InsertProperties
  <2>3. \A j \in 1 .. i : t[j] = r[j]
    BY <2>1, InsertProperties
  <2>4. t[i + 1] = x
    BY <2>1, InsertProperties
  <2>5. \A j \in i + 2 .. Len(r) + 1 : t[j] = r[j - 1]
    BY <2>1, InsertProperties
  <2> QED
    BY <2>2, <2>3, <2>4, <2>5
<1>4. /\ \A j \in 1 .. i : r[j] = s[j]
      /\ \A j \in i + 1 .. Len(s) - 1 : r[j] = s[j + 1]
  BY RemoveProperties
<1> HIDE DEF r, t
<1>5. ASSUME NEW j \in 1 .. Len(s) PROVE t[j] = s[j]
  <2>1. CASE j <= i
    BY <1>1, <1>3, <1>4, <2>1
  <2>2. CASE j = i + 1
    BY <1>1, <1>3, <2>2
  <2>3. CASE j > i + 1
    <3>1. j - 1 \in i + 1 .. Len(s) - 1 /\ (j - 1) + 1 = j
      BY <1>1, <2>3
    <3>2. t[j] = r[j - 1]
      BY <1>1, <1>2, <1>3, <2>3
    <3> QED
      BY <1>4, <3>1, <3>2
  <2> QED
    BY <1>1, <2>1, <2>2, <2>3
<1>6. t = s
  <2>1. Len(t) = Len(s)
    BY <1>1, <1>2, <1>3
  <2> QED
    BY <1>3, <1>5, <2>1, SeqEqual
<1> QED
  BY <1>6 DEF r, t

\* Dropping the tab in the gap leaves the stored tabs.
LEMMA WithoutInserted ==
  ASSUME NEW S, NEW s \in Seq(S), NEW i \in 0 .. Len(s), NEW x \in S
  PROVE  TL!Without(VecInsert(s, i, x), i + 1) = s
<1> DEFINE t == VecInsert(s, i, x)
           w == TL!Without(t, i + 1)
<1>1. Len(s) \in Nat /\ i \in Nat /\ i <= Len(s)
  BY LenProperties
<1>2. Len(t) = Len(s) + 1 /\ \A j \in 1 .. i : t[j] = s[j]
  BY InsertProperties
<1>3. \A j \in i + 2 .. Len(s) + 1 : t[j] = s[j - 1]
  BY InsertProperties
<1> HIDE DEF t
<1>4. w = [j \in 1 .. Len(s) |-> IF j < i + 1 THEN t[j] ELSE t[j + 1]]
  BY <1>1, <1>2 DEF TL!Without
<1> HIDE DEF w
<1>5. ASSUME NEW j \in 1 .. Len(s) PROVE w[j] = s[j]
  <2>1. CASE j < i + 1
    BY <1>1, <1>2, <1>4, <2>1
  <2>2. CASE ~(j < i + 1)
    <3>1. j + 1 \in i + 2 .. Len(s) + 1 /\ (j + 1) - 1 = j
      BY <1>1, <2>2
    <3> QED
      BY <1>3, <1>4, <2>2, <3>1
  <2> QED
    BY <2>1, <2>2
<1>6. w = s
  <2>1. s = [j \in 1 .. Len(s) |-> s[j]]
    BY LenProperties
  <2>2. w = [j \in 1 .. Len(s) |-> w[j]]
    BY <1>4
  <2> QED
    BY <1>5, <2>1, <2>2
<1> QED
  BY <1>6 DEF w, t

\* Inserting another element at the same place changes just that place.
LEMMA ReplaceInserted ==
  ASSUME NEW s \in Seq(Tab), NEW i \in 0 .. Len(s), NEW x \in Tab, NEW y \in Tab
  PROVE  DifferAt(VecInsert(s, i, y), VecInsert(s, i, x), i + 1, y, x)
<1> DEFINE a == VecInsert(s, i, x)
           b == VecInsert(s, i, y)
<1>1. Len(s) \in Nat /\ i \in Nat
  BY LenProperties
<1>2. a \in Seq(Tab) /\ Len(a) = Len(s) + 1 /\ a[i + 1] = x
  BY InsertProperties
<1>3. b \in Seq(Tab) /\ Len(b) = Len(s) + 1 /\ b[i + 1] = y
  BY InsertProperties
<1>4. ASSUME NEW j \in 1 .. Len(s) + 1, j # i + 1 PROVE b[j] = a[j]
  BY <1>1, <1>4 DEF VecInsert
<1> HIDE DEF a, b
<1>5. DifferAt(b, a, i + 1, y, x)
  BY <1>2, <1>3, <1>4 DEF DifferAt
<1> QED
  BY <1>5 DEF a, b

-----------------------------------------------------------------------------
(* The methods of TabManager, on the logical list.                         *)

\* The list of all tabs: the stored ones with the active one in its place.
LEMMA ListProperties ==
  ASSUME NEW m, WellFormed(m), NEW cur \in Tab
  PROVE  /\ ListOf(m, cur) \in Seq(Tab)
         /\ Len(ListOf(m, cur)) = m.count
         /\ m.count \in Nat \ {0} /\ m.active_idx \in Nat /\ m.active_idx \in 0 .. Len(m.tabs)
         /\ m.tabs \in Seq(Tab) /\ Len(m.tabs) = m.count - 1 /\ m.next_id \in Nat
         /\ Filled(m, cur) = ListOf(m, cur)
<1>1. /\ m.tabs \in Seq(Tab) /\ m.active_idx \in Nat /\ m.count \in Nat /\ m.next_id \in Nat
      /\ m.count = Len(m.tabs) + 1 /\ m.active_idx < m.count
  BY DEF WellFormed, Manager
<1>2. Len(m.tabs) \in Nat /\ Len(m.tabs) = m.count - 1 /\ m.active_idx \in 0 .. Len(m.tabs)
  BY <1>1, LenProperties
<1>3. MinOf(m.active_idx, Len(m.tabs)) = m.active_idx
  BY <1>1, <1>2 DEF MinOf
<1>4. ListOf(m, cur) \in Seq(Tab) /\ Len(ListOf(m, cur)) = Len(m.tabs) + 1
  <2> DEFINE ts == m.tabs
             i == m.active_idx
  <2>1. ts \in Seq(Tab) /\ i \in 0 .. Len(ts)
    BY <1>1, <1>2
  <2>2. ListOf(m, cur) = VecInsert(ts, i, cur)
    BY DEF ListOf
  <2> HIDE DEF ts, i
  <2>3. ListOf(m, cur) \in Seq(Tab) /\ Len(ListOf(m, cur)) = Len(ts) + 1
    BY <2>1, <2>2, InsertProperties
  <2> QED
    BY <2>3 DEF ts
<1>5. Filled(m, cur) = ListOf(m, cur)
  BY <1>3, Zenon DEF ListOf, Filled
<1> QED
  BY <1>1, <1>2, <1>4, <1>5

\* Every method that returns a tab to unpack removes it at the new gap.
LEMMA UnpackProperties ==
  ASSUME NEW list \in Seq(Tab), NEW i \in 0 .. Len(list) - 1, NEW n \in Nat,
         NEW m, m = [tabs |-> VecRemove(list, i), active_idx |-> i, count |-> Len(list), next_id |-> n]
  PROVE  WellFormed(m) /\ list[i + 1] \in Tab /\ ListOf(m, list[i + 1]) = list
<1>1. Len(list) \in Nat \ {0} /\ i \in Nat /\ i < Len(list)
  BY LenProperties
<1>2. VecRemove(list, i) \in Seq(Tab) /\ Len(VecRemove(list, i)) = Len(list) - 1
  BY RemoveProperties
<1>3. list[i + 1] \in Tab
  BY <1>1, ElementOfSeq
<1>4. WellFormed(m)
  BY <1>1, <1>2 DEF WellFormed, Manager
<1> QED
  BY <1>3, <1>4, InsertAfterRemove DEF ListOf

\* switch_to changes which tab is active and not the list.
LEMMA SwitchProperties ==
  ASSUME NEW m, WellFormed(m), NEW cur \in Tab, NEW target \in Nat, ~SwitchRefused(m, target),
         NEW r, r = SwitchTo(m, target, cur)
  PROVE  WellFormed(r.mgr) /\ r.tab \in Tab /\ ListOf(r.mgr, r.tab) = ListOf(m, cur)
<1> DEFINE list == ListOf(m, cur)
<1>1. list \in Seq(Tab) /\ Len(list) = m.count /\ Filled(m, cur) = list /\ m.next_id \in Nat
  BY ListProperties
<1> HIDE DEF list
<1>2. target \in 0 .. Len(list) - 1
  BY <1>1, ListProperties DEF SwitchRefused
<1>3. r = [mgr |-> [m EXCEPT !.tabs = VecRemove(list, target), !.active_idx = target],
           tab |-> list[target + 1]]
  BY <1>1, Zenon DEF SwitchTo
<1>4. r.mgr = [tabs |-> VecRemove(list, target), active_idx |-> target,
               count |-> Len(list), next_id |-> m.next_id]
  <2>1. m = [tabs |-> m.tabs, active_idx |-> m.active_idx, count |-> m.count, next_id |-> m.next_id]
    BY DEF WellFormed, Manager
  <2>2. r.mgr = [m EXCEPT !.tabs = VecRemove(list, target), !.active_idx = target]
    BY <1>3
  <2> QED
    BY <1>1, <2>1, <2>2
<1>5. r.tab = list[target + 1]
  BY <1>3
<1> QED
  BY <1>1, <1>2, <1>4, <1>5, UnpackProperties DEF list

\* close_active removes the active tab from the list and nothing else.
LEMMA CloseProperties ==
  ASSUME NEW m, WellFormed(m), m.count > 1, NEW r, r = CloseActive(m)
  PROVE  /\ WellFormed(r.mgr) /\ r.tab \in Tab
         /\ ListOf(r.mgr, r.tab) = m.tabs
         /\ r.mgr.active_idx = NewActive(m) /\ r.mgr.count = m.count - 1
<1>1. /\ m.tabs \in Seq(Tab) /\ m.active_idx \in Nat /\ m.count \in Nat /\ m.next_id \in Nat
      /\ m.count = Len(m.tabs) + 1 /\ m.active_idx < m.count /\ Len(m.tabs) \in Nat
  BY LenProperties DEF WellFormed, Manager
<1>2. NewActive(m) \in 0 .. Len(m.tabs) - 1
  BY <1>1 DEF NewActive
<1>3. r.mgr = [tabs |-> VecRemove(m.tabs, NewActive(m)), active_idx |-> NewActive(m),
               count |-> Len(m.tabs), next_id |-> m.next_id]
  <2>1. m.count - 1 = Len(m.tabs)
    BY <1>1
  <2>2. r.mgr = [m EXCEPT !.tabs = VecRemove(m.tabs, NewActive(m)), !.count = m.count - 1,
                          !.active_idx = NewActive(m)]
    BY DEF CloseActive
  <2> QED
    BY <2>1, <2>2 DEF WellFormed, Manager
<1>4. r.tab = m.tabs[NewActive(m) + 1]
  BY DEF CloseActive
<1>5. WellFormed(r.mgr) /\ r.tab \in Tab /\ ListOf(r.mgr, r.tab) = m.tabs
  BY <1>1, <1>2, <1>3, <1>4, UnpackProperties
<1>6. Len(m.tabs) = m.count - 1
  BY <1>1
<1> QED
  BY <1>3, <1>5, <1>6

\* create_tab puts the new tab at the end of the list.
LEMMA CreateProperties ==
  ASSUME NEW m, WellFormed(m), NEW cur \in Tab, NEW t \in Tab
  PROVE  /\ WellFormed(CreateTab(m, cur))
         /\ CreateTab(m, cur).tabs = ListOf(m, cur)
         /\ CreateTab(m, cur).count = m.count + 1 /\ CreateTab(m, cur).active_idx = m.count
         /\ IsAppend(ListOf(CreateTab(m, cur), t), ListOf(m, cur), t)
<1> DEFINE list == ListOf(m, cur)
           c == CreateTab(m, cur)
<1>1. /\ list \in Seq(Tab) /\ Len(list) = m.count /\ Filled(m, cur) = list
      /\ m.next_id \in Nat /\ m.count \in Nat \ {0}
  BY ListProperties
<1>2. c = [tabs |-> list, active_idx |-> m.count, count |-> m.count + 1, next_id |-> m.next_id + 1]
  BY <1>1, Zenon DEF CreateTab
<1> HIDE DEF list, c
<1>3. WellFormed(c) /\ c.tabs = list /\ c.count = m.count + 1 /\ c.active_idx = m.count
  BY <1>1, <1>2 DEF WellFormed, Manager
<1>4. ListOf(c, t) = VecInsert(list, Len(list), t)
  BY <1>1, <1>3 DEF ListOf
<1>5. IsAppend(VecInsert(list, Len(list), t), list, t)
  BY <1>1, InsertAtEnd, Zenon
<1>6. IsAppend(ListOf(c, t), list, t)
  BY <1>4, <1>5, Zenon
<1> QED
  BY <1>3, <1>6, Zenon DEF list, c

\* from_tabs makes a manager of exactly the tabs given.
LEMMA FromTabsProperties ==
  ASSUME NEW list \in Seq(Tab), list # <<>>, NEW which \in Nat, NEW r, r = FromTabs(list, which)
  PROVE  WellFormed(r.mgr) /\ r.tab \in Tab /\ ListOf(r.mgr, r.tab) = list
<1> DEFINE i == MinOf(which, Len(list) - 1)
<1>1. Len(list) \in Nat \ {0}
  BY LenProperties, EmptySeq
<1>2. i \in 0 .. Len(list) - 1
  BY <1>1 DEF MinOf
<1>3. /\ r.mgr = [tabs |-> VecRemove(list, i), active_idx |-> i,
                  count |-> Len(list), next_id |-> Len(list) + 1]
      /\ r.tab = list[i + 1]
  BY DEF FromTabs
<1> HIDE DEF i
<1> QED
  BY <1>1, <1>2, <1>3, UnpackProperties

-----------------------------------------------------------------------------
(* The shape of a step, seen on the logical list.                          *)

\* The inductive invariant.
IdsBounded == \A j \in 1 .. Len(Logical) : Logical[j].id <= opened

Inv == TypeOK /\ GapConsistent /\ IdsBounded /\ NoDuplicateTab

\* What every reachable state gives the steps to compute with.
LEMMA StateFacts ==
  ASSUME TypeOK, GapConsistent
  PROVE  /\ WellFormed(mgr) /\ current \in Tab /\ opened \in Nat
         /\ Logical = ListOf(mgr, current) /\ Logical \in Seq(Tab) /\ Len(Logical) = mgr.count
         /\ mgr.count \in Nat \ {0} /\ mgr.active_idx \in Nat /\ mgr.active_idx < mgr.count
         /\ mgr.tabs \in Seq(Tab) /\ mgr.active_idx \in 0 .. Len(mgr.tabs)
         /\ Len(mgr.tabs) = mgr.count - 1 /\ mgr.next_id \in Nat
<1>1. WellFormed(mgr) /\ current \in Tab /\ opened \in Nat /\ mgr.active_idx < mgr.count
  BY DEF TypeOK, GapConsistent, WellFormed
<1>2. Logical = ListOf(mgr, current)
  BY DEF Logical, ListOf
<1> QED
  BY <1>1, <1>2, ListProperties

KeepsList ==
    /\ Logical' = Logical /\ UNCHANGED opened

OpensTab ==
    /\ Logical' \in Seq(Tab) /\ Len(Logical') = Len(Logical) + 1
    /\ \A j \in 1 .. Len(Logical) : Logical'[j] = Logical[j]
    /\ Logical'[Len(Logical) + 1].id = opened + 1
    /\ mgr'.active_idx = Len(Logical) /\ opened' = opened + 1

ClosesTab ==
    /\ mgr.count > 1 /\ Logical' = mgr.tabs
    /\ mgr'.active_idx = NewActive(mgr) /\ UNCHANGED opened

RenamesTab ==
    /\ Logical' \in Seq(Tab) /\ Len(Logical') = Len(Logical)
    /\ \A j \in 1 .. Len(Logical) :
        Logical'[j].id = Logical[j].id /\ (j # mgr.active_idx + 1 => Logical'[j] = Logical[j])
    /\ UNCHANGED <<mgr, opened>>

LoadsTabs ==
    \E n \in Nat \ {0} : Logical' = Fresh(n) /\ opened' = opened + n

Stays ==
    WellFormed(mgr') /\ current' \in Tab /\ tab_count' = mgr'.count

\* The tabs of a loaded workspace are new and numbered in order.
LEMMA FreshProperties ==
  ASSUME NEW n \in Nat \ {0}, opened \in Nat
  PROVE  /\ Fresh(n) \in Seq(Tab) /\ Len(Fresh(n)) = n /\ Fresh(n) # <<>>
         /\ \A j \in 1 .. n : Fresh(n)[j].id = opened + j
<1>1. Fresh(n) \in [1 .. n -> Tab]
  BY DEF Fresh, Tab
<1>2. Fresh(n) \in Seq(Tab) /\ Len(Fresh(n)) = n
  BY <1>1
<1> QED
  BY <1>2 DEF Fresh

\* Every step does one of five things to the list of tabs.
LEMMA StepShape ==
  ASSUME TypeOK, GapConsistent, [TabNext]_tabVars
  PROVE  Stays /\ (KeepsList \/ OpensTab \/ ClosesTab \/ RenamesTab \/ LoadsTabs)
<1>0. /\ WellFormed(mgr) /\ current \in Tab /\ opened \in Nat
      /\ Logical = ListOf(mgr, current) /\ Logical \in Seq(Tab) /\ Len(Logical) = mgr.count
      /\ mgr.count \in Nat \ {0} /\ mgr.next_id \in Nat
  BY StateFacts
<1>l. Logical' = ListOf(mgr', current')
  BY DEF Logical, ListOf
<1> USE BoundsAssumption
<1>1. CASE NewTab
  <2>1. PICK name \in {mgr.next_id} \cup Titles :
          Unpack([mgr |-> CreateTab(mgr, current), tab |-> [id |-> opened + 1, name |-> name]])
    BY <1>1 DEF NewTab
  <2> DEFINE t == [id |-> opened + 1, name |-> name]
  <2>2. t \in Tab
    <3>1. name \in Nat
      BY <1>0, <2>1
    <3> QED
      BY <1>0, <3>1 DEF Tab
  <2>3. mgr' = CreateTab(mgr, current) /\ current' = t /\ tab_count' = mgr'.count
    BY <2>1 DEF Unpack
  <2>4. opened' = opened + 1 /\ t.id = opened + 1
    BY <1>1 DEF NewTab
  <2> HIDE DEF t
  <2>5. Stays
    BY <1>0, <2>2, <2>3, CreateProperties DEF Stays
  <2> DEFINE new == ListOf(CreateTab(mgr, current), t)
  <2>6. IsAppend(new, Logical, t) /\ mgr'.active_idx = mgr.count
    BY <1>0, <2>2, <2>3, CreateProperties
  <2>8. Logical' = new
    BY <1>l, <2>3
  <2> HIDE DEF new
  <2>9. OpensTab
    BY <1>0, <2>4, <2>6, <2>8 DEF OpensTab, IsAppend
  <2> QED
    BY <2>5, <2>9
<1>2. CASE NewTabFails
  <2> DEFINE c == CreateTab(mgr, current)
             r == CloseActive(c)
  <2>1. mgr' = r.mgr /\ current' = r.tab /\ tab_count' = r.mgr.count /\ UNCHANGED opened
    BY <1>2 DEF NewTabFails, Unpack
  <2>2. WellFormed(c) /\ c.tabs = Logical /\ c.count = mgr.count + 1
    BY <1>0, CreateProperties
  <2>c. c.count > 1
    BY <1>0, <2>2
  <2> HIDE DEF c
  <2>3. WellFormed(r.mgr) /\ r.tab \in Tab /\ ListOf(r.mgr, r.tab) = Logical
    BY <2>2, <2>c, CloseProperties
  <2> QED
    BY <1>l, <2>1, <2>3 DEF Stays, KeepsList
<1>3. CASE SwitchTab
  <2>1. PICK target \in {NextIdx(mgr), PrevIdx(mgr)} \cup 0 .. MaxTabs :
          ~SwitchRefused(mgr, target) /\ Unpack(SwitchTo(mgr, target, current))
    BY <1>3 DEF SwitchTab
  <2>2. target \in Nat
    <3>1. mgr.active_idx \in Nat /\ mgr.count \in Nat \ {0}
      BY StateFacts
    <3>2. NextIdx(mgr) \in Nat /\ PrevIdx(mgr) \in Nat
      BY <3>1 DEF NextIdx, PrevIdx
    <3> QED
      BY <3>2
  <2> DEFINE r == SwitchTo(mgr, target, current)
  <2>3. mgr' = r.mgr /\ current' = r.tab /\ tab_count' = r.mgr.count /\ UNCHANGED opened
    BY <1>3, <2>1 DEF SwitchTab, Unpack
  <2>4. WellFormed(r.mgr) /\ r.tab \in Tab /\ ListOf(r.mgr, r.tab) = ListOf(mgr, current)
    BY <1>0, <2>1, <2>2, SwitchProperties
  <2> QED
    BY <1>0, <1>l, <2>3, <2>4 DEF Stays, KeepsList
<1>4. CASE mgr.count > 1 /\ Unpack(CloseActive(mgr)) /\ UNCHANGED opened
  <2> DEFINE r == CloseActive(mgr)
  <2>1. mgr' = r.mgr /\ current' = r.tab /\ tab_count' = r.mgr.count
    BY <1>4 DEF Unpack
  <2>2. /\ WellFormed(r.mgr) /\ r.tab \in Tab /\ ListOf(r.mgr, r.tab) = mgr.tabs
        /\ r.mgr.active_idx = NewActive(mgr)
    BY <1>0, <1>4, CloseProperties
  <2> QED
    BY <1>4, <1>l, <2>1, <2>2 DEF Stays, ClosesTab
<1>5. CASE UNCHANGED <<mgr, current, tab_count, opened>>
  BY <1>0, <1>5 DEF Stays, KeepsList, Logical, GapConsistent
<1>6. CASE Rename
  <2>1. PICK name \in Titles : current' = [current EXCEPT !.name = name]
    BY <1>6 DEF Rename
  <2>2. mgr' = mgr /\ tab_count' = tab_count /\ opened' = opened
    BY <1>6 DEF Rename
  <2>3. current' \in Tab /\ current'.id = current.id
    BY <1>0, <2>1 DEF Tab
  <2>4. Stays
    BY <1>0, <2>2, <2>3 DEF Stays, GapConsistent
  <2> DEFINE ts == mgr.tabs
             i == mgr.active_idx
             cur == current'
             new == VecInsert(ts, i, cur)
  <2>5. ts \in Seq(Tab) /\ i \in 0 .. Len(ts) /\ Len(Logical) = Len(ts) + 1 /\ i \in Nat /\ Len(ts) \in Nat
    BY StateFacts, LenProperties
  <2>6. Logical = VecInsert(ts, i, current) /\ Logical' = new /\ cur \in Tab
    BY <2>2, <2>3 DEF Logical
  <2>7. DifferAt(new, Logical, i + 1, cur, current)
    <3> HIDE DEF ts, i, cur
    <3> QED
      BY <1>0, <2>5, <2>6, ReplaceInserted
  <2>9. RenamesTab
    <3> HIDE DEF new
    <3> QED
      BY <2>2, <2>3, <2>6, <2>7 DEF RenamesTab, DifferAt
  <2> QED
    BY <2>4, <2>9
<1>7. CASE Load
  <2>1. PICK n \in 1 .. MaxTabs, which \in 0 .. MaxTabs :
          opened' = opened + n /\ Unpack(FromTabs(Fresh(n), which))
    BY <1>7 DEF Load
  <2> DEFINE r == FromTabs(Fresh(n), which)
  <2>2. n \in Nat \ {0} /\ which \in Nat
    OBVIOUS
  <2>3. mgr' = r.mgr /\ current' = r.tab /\ tab_count' = r.mgr.count
    BY <2>1 DEF Unpack
  <2>4. WellFormed(r.mgr) /\ r.tab \in Tab /\ ListOf(r.mgr, r.tab) = Fresh(n)
    BY <1>0, <2>2, FreshProperties, FromTabsProperties
  <2> QED
    BY <1>l, <2>1, <2>2, <2>3, <2>4 DEF Stays, LoadsTabs
<1>8. CASE CloseTab \/ ActiveTabDead
  BY <1>4, <1>5, <1>8, <1>0 DEF CloseTab, ActiveTabDead
<1>9. CASE KillSession \/ RenderTabs \/ TabsStopped \/ UNCHANGED tabVars
  BY <1>5, <1>9 DEF KillSession, RenderTabs, TabsStopped, tabVars
<1> QED
  BY <1>1, <1>2, <1>3, <1>6, <1>7, <1>8, <1>9 DEF TabNext

-----------------------------------------------------------------------------
(* The inductive invariant, and what follows from it.                      *)

\* The initial state satisfies the invariant.
LEMMA InvInit == TabInit => Inv
<1> SUFFICES ASSUME TabInit PROVE Inv
  OBVIOUS
<1> USE BoundsAssumption
<1>1. PICK n \in Nat \ {0} :
        /\ WellFormed(mgr) /\ current \in Tab /\ opened = n
        /\ ListOf(mgr, current) = [j \in 1 .. n |-> [id |-> j, name |-> j]]
  <2>1. CASE mgr = NewManager /\ current = [id |-> 1, name |-> 1] /\ opened = 1
    <3>1. WellFormed(mgr) /\ current \in Tab
      BY <2>1 DEF WellFormed, NewManager, Manager, Tab
    <3>2. ListOf(mgr, current) = [j \in 1 .. 1 |-> [id |-> j, name |-> j]]
      <4>1. mgr.tabs = <<>> /\ mgr.active_idx = 0
        BY <2>1 DEF NewManager
      <4>2. ListOf(mgr, current) = [j \in 1 .. 0 + 1 |-> IF j <= 0 THEN <<>>[j] ELSE IF j = 0 + 1 THEN current ELSE <<>>[j - 1]]
        BY <4>1 DEF ListOf, VecInsert
      <4> QED
        BY <2>1, <4>2
    <3> QED
      BY <2>1, <3>1, <3>2
  <2>2. ASSUME NEW n \in 2 .. MaxTabs, NEW which \in 0 .. MaxTabs, opened = n,
               mgr = FromTabs([j \in 1 .. n |-> [id |-> j, name |-> j]], which).mgr,
               current = FromTabs([j \in 1 .. n |-> [id |-> j, name |-> j]], which).tab
        PROVE  /\ n \in Nat \ {0} /\ WellFormed(mgr) /\ current \in Tab /\ opened = n
               /\ ListOf(mgr, current) = [j \in 1 .. n |-> [id |-> j, name |-> j]]
    <3> DEFINE list == [j \in 1 .. n |-> [id |-> j, name |-> j]]
    <3>1. n \in Nat \ {0} /\ which \in Nat
      OBVIOUS
    <3>2. list \in [1 .. n -> Tab]
      BY DEF Tab
    <3>3. list \in Seq(Tab) /\ list # <<>>
      BY <3>1, <3>2
    <3> HIDE DEF list
    <3>4. mgr = FromTabs(list, which).mgr /\ current = FromTabs(list, which).tab
      BY <2>2 DEF list
    <3>5. WellFormed(mgr) /\ current \in Tab /\ ListOf(mgr, current) = list
      BY <3>1, <3>3, <3>4, FromTabsProperties
    <3> QED
      BY <2>2, <3>1, <3>5 DEF list
  <2> QED
    BY <2>1, <2>2 DEF TabInit
<1>2. GapConsistent
  BY <1>1 DEF GapConsistent, WellFormed, TabInit
<1>3. TypeOK
  <2>1. mgr \in Manager /\ current \in Tab /\ opened \in Nat
    BY <1>1 DEF WellFormed
  <2>2. tab_count \in Nat
    BY <2>1 DEF TabInit, Manager
  <2>3. {tab_names_dirty, serving, auto_closed} \subseteq BOOLEAN
    BY Zenon DEF TabInit
  <2> QED
    BY <2>1, <2>2, <2>3 DEF TypeOK
<1>4. IdsBounded /\ NoDuplicateTab
  <2>1. Logical = [j \in 1 .. n |-> [id |-> j, name |-> j]]
    BY <1>1 DEF Logical, ListOf
  <2>2. Len(Logical) = n /\ \A j \in 1 .. n : Logical[j].id = j
    BY <2>1
  <2> QED
    BY <1>1, <2>2 DEF IdsBounded, NoDuplicateTab
<1> QED
  BY <1>2, <1>3, <1>4 DEF Inv

\* A step of any shape keeps the identities distinct and bounded.
LEMMA IdsStep ==
  ASSUME Inv, KeepsList \/ OpensTab \/ ClosesTab \/ RenamesTab \/ LoadsTabs
  PROVE  opened' \in Nat /\ IdsBounded' /\ NoDuplicateTab'
<1>0. /\ TypeOK /\ GapConsistent /\ IdsBounded /\ NoDuplicateTab /\ opened \in Nat
      /\ Logical \in Seq(Tab) /\ Len(Logical) \in Nat
      /\ \A j \in 1 .. Len(Logical) : Logical[j].id \in Nat
  <2>1. Logical \in Seq(Tab) /\ opened \in Nat
    BY StateFacts DEF Inv
  <2>2. \A j \in 1 .. Len(Logical) : Logical[j] \in Tab
    BY <2>1
  <2> QED
    BY <2>1, <2>2 DEF Inv, Tab
<1>1. CASE KeepsList
  BY <1>0, <1>1 DEF KeepsList, IdsBounded, NoDuplicateTab
<1>2. CASE OpensTab
  <2>1. ASSUME NEW j \in 1 .. Len(Logical') PROVE Logical'[j].id \in Nat /\ Logical'[j].id <= opened + 1
    BY <1>0, <1>2 DEF OpensTab, IdsBounded
  <2>2. ASSUME NEW j \in 1 .. Len(Logical'), NEW k \in 1 .. Len(Logical'), j # k
        PROVE  Logical'[j].id # Logical'[k].id
    BY <1>0, <1>2, <2>2 DEF OpensTab, IdsBounded, NoDuplicateTab
  <2>3. opened' = opened + 1
    BY <1>2 DEF OpensTab
  <2> QED
    BY <1>0, <2>1, <2>2, <2>3 DEF IdsBounded, NoDuplicateTab
<1>3. CASE ClosesTab
  <2> DEFINE ts == mgr.tabs
             i == mgr.active_idx
             at(j) == IF j <= i THEN j ELSE j + 1
  <2>1. /\ ts \in Seq(Tab) /\ Len(ts) \in Nat /\ i \in 0 .. Len(ts) /\ current \in Tab
        /\ Logical' = ts /\ opened' = opened /\ Len(Logical) = Len(ts) + 1
    BY <1>0, <1>3, StateFacts, LenProperties DEF ClosesTab
  <2>2. Logical = VecInsert(ts, i, current)
    BY DEF Logical
  <2> HIDE DEF ts, i
  <2>3. ASSUME NEW j \in 1 .. Len(ts)
        PROVE  at(j) \in 1 .. Len(Logical) /\ ts[j] = Logical[at(j)]
    BY <2>1, <2>2 DEF VecInsert
  <2>4. \A j, k \in 1 .. Len(ts) : j # k => at(j) # at(k)
    BY <2>1
  <2> HIDE DEF at
  <2> QED
    BY <1>0, <2>1, <2>3, <2>4 DEF IdsBounded, NoDuplicateTab
<1>4. CASE RenamesTab
  <2>1. /\ Len(Logical') = Len(Logical) /\ opened' = opened
        /\ \A j \in 1 .. Len(Logical) : Logical'[j].id = Logical[j].id
    BY <1>4 DEF RenamesTab
  <2> QED
    BY <1>0, <2>1 DEF IdsBounded, NoDuplicateTab
<1>5. CASE LoadsTabs
  <2>1. PICK n \in Nat \ {0} : Logical' = Fresh(n) /\ opened' = opened + n
    BY <1>5 DEF LoadsTabs
  <2>2. Len(Logical') = n /\ \A j \in 1 .. n : Logical'[j].id = opened + j
    BY <1>0, <2>1, FreshProperties
  <2> QED
    BY <1>0, <2>1, <2>2 DEF IdsBounded, NoDuplicateTab
<1> QED
  BY <1>1, <1>2, <1>3, <1>4, <1>5

\* The flags of the loop stay flags.
LEMMA FlagsStep ==
  ASSUME TypeOK, [TabNext]_tabVars
  PROVE  ({tab_names_dirty, serving, auto_closed} \subseteq BOOLEAN)'
<1>1. tab_names_dirty \in BOOLEAN /\ serving \in BOOLEAN /\ auto_closed \in BOOLEAN
  BY DEF TypeOK
<1> DEFINE OK == tab_names_dirty' \in BOOLEAN /\ serving' \in BOOLEAN /\ auto_closed' \in BOOLEAN
<1>2. CASE NewTab \/ NewTabFails \/ SwitchTab \/ Rename \/ Load
  <2>1. tab_names_dirty' = TRUE /\ auto_closed' = FALSE
    BY <1>2, Zenon DEF NewTab, NewTabFails, SwitchTab, Rename, Load
  <2>2. serving' = serving
    BY <1>2, Zenon DEF NewTab, NewTabFails, SwitchTab, Rename, Load, Unpack
  <2> QED
    BY <1>1, <2>1, <2>2, Zenon
<1>3. CASE CloseTab \/ ActiveTabDead
  <2>1. CASE UNCHANGED <<tab_names_dirty, auto_closed>> /\ serving' = FALSE
    BY <1>1, <2>1, Zenon
  <2>2. CASE tab_names_dirty' = TRUE /\ auto_closed' = FALSE /\ serving' = serving
    BY <1>1, <2>2, Zenon
  <2>3. CASE tab_names_dirty' = tab_names_dirty /\ auto_closed' = TRUE /\ serving' = serving
    BY <1>1, <2>3, Zenon
  <2> QED
    BY <1>3, <2>1, <2>2, <2>3 DEF CloseTab, ActiveTabDead, Unpack
<1>4. CASE KillSession \/ RenderTabs \/ TabsStopped \/ UNCHANGED tabVars
  <2>1. /\ tab_names_dirty' = FALSE \/ tab_names_dirty' = tab_names_dirty
        /\ serving' = FALSE \/ serving' = serving
        /\ auto_closed' = auto_closed
    BY <1>4, Zenon DEF KillSession, RenderTabs, TabsStopped, tabVars
  <2> QED
    BY <1>1, <2>1, Zenon
<1>5. OK
  BY <1>2, <1>3, <1>4 DEF TabNext
<1> QED
  BY <1>5, Zenon

\* Every step keeps the invariant.
LEMMA InvNext ==
  ASSUME Inv, [TabNext]_tabVars
  PROVE  Inv'
<1>1. TypeOK /\ GapConsistent
  BY DEF Inv
<1>2. Stays /\ (KeepsList \/ OpensTab \/ ClosesTab \/ RenamesTab \/ LoadsTabs)
  BY <1>1, StepShape
<1>3. opened' \in Nat /\ IdsBounded' /\ NoDuplicateTab'
  BY <1>2, IdsStep
<1>4. GapConsistent' /\ mgr' \in Manager /\ current' \in Tab /\ tab_count' \in Nat
  BY <1>2 DEF Stays, WellFormed, GapConsistent, Manager
<1>5. TypeOK'
  BY <1>1, <1>3, <1>4, FlagsStep DEF TypeOK
<1> QED
  BY <1>3, <1>4, <1>5 DEF Inv

\* The inductive invariant of the tab manager.
THEOREM InvHolds == TabSpec => []Inv
  BY InvInit, InvNext, PTL DEF TabSpec

\* Storage, gap and tab count always add up: no index of tab.rs is out of range.
THEOREM GapIsConsistent == TabSpec => [](TypeOK /\ GapConsistent)
<1>1. Inv => TypeOK /\ GapConsistent
  BY DEF Inv
<1> QED
  BY <1>1, InvHolds, PTL

\* Switching, opening, closing and loading never duplicate a tab.
THEOREM TabsAreDistinct == TabSpec => []NoDuplicateTab
<1>1. Inv => NoDuplicateTab
  BY DEF Inv
<1> QED
  BY <1>1, InvHolds, PTL

\* get_inactive and tab_names read the list that the gap representation means.
THEOREM TabViewsAgree == TabSpec => []IndexViewsAgree
<1>1. ASSUME Inv PROVE IndexViewsAgree
  <2> DEFINE ts == mgr.tabs
             a == mgr.active_idx
             c == mgr.count
  <2>1. ts \in Seq(Tab) /\ Len(ts) \in Nat /\ a \in Nat /\ a <= Len(ts) /\ c = Len(ts) + 1
    BY <1>1, StateFacts, LenProperties DEF Inv
  <2>2. Logical = VecInsert(ts, a, current)
    BY DEF Logical
  <2>3. ASSUME NEW i \in 0 .. c - 1, i # a PROVE GetInactive(mgr, i) = Logical[i + 1]
    <3>1. GetInactive(mgr, i) = ts[(IF i < a THEN i ELSE i - 1) + 1]
      BY DEF GetInactive, StorageIdx
    <3> HIDE DEF ts, a, c
    <3> QED
      BY <2>1, <2>2, <2>3, <3>1 DEF VecInsert
  <2>4. ASSUME NEW i \in 0 .. c - 1
        PROVE  TabNames(mgr, current)[i + 1] = [name |-> Logical[i + 1].name, active |-> i = a]
    <3>1. TabNames(mgr, current) =
            [k \in 1 .. c |-> IF k - 1 = a THEN [name |-> current.name, active |-> TRUE]
                               ELSE [name |-> ts[IF k - 1 < a THEN k ELSE k - 1].name, active |-> FALSE]]
      BY DEF TabNames
    <3> HIDE DEF ts, a, c
    <3>2. i + 1 \in 1 .. c /\ (i + 1) - 1 = i
      BY <2>1
    <3>3. CASE i = a
      <4>1. Logical[i + 1] = current
        BY <2>1, <2>2, <3>2, <3>3 DEF VecInsert
      <4>2. TabNames(mgr, current)[i + 1] = [name |-> current.name, active |-> TRUE]
        BY <3>1, <3>2, <3>3
      <4>3. (i = a) = TRUE
        BY <3>3
      <4> QED
        BY <4>1, <4>2, <4>3, Zenon
    <3>4. CASE i # a
      <4> DEFINE t == ts[IF i < a THEN i + 1 ELSE i]
      <4>1. Logical[i + 1] = t
        BY <2>1, <2>2, <3>2, <3>4 DEF VecInsert
      <4>2. TabNames(mgr, current)[i + 1] = [name |-> t.name, active |-> FALSE]
        BY <3>1, <3>2, <3>4
      <4>3. (i = a) = FALSE
        BY <3>4
      <4> QED
        BY <4>1, <4>2, <4>3, Zenon
    <3> QED
      BY <3>3, <3>4
  <2> QED
    BY <2>3, <2>4 DEF IndexViewsAgree
<1> QED
  BY <1>1, InvHolds, PTL

\* Every change of the tabs marks the renderer's cached names, but for the
\* automatic close of a dead tab.
THEOREM BarIsFresh == TabSpec => []BarFreshUnlessAutoClosed
<1>1. TabInit => BarFreshUnlessAutoClosed
  BY Zenon DEF TabInit, BarFreshUnlessAutoClosed
<1>2. ASSUME BarFreshUnlessAutoClosed, [TabNext]_tabVars
      PROVE  BarFreshUnlessAutoClosed'
  <2>1. CASE NewTab \/ NewTabFails \/ SwitchTab \/ Rename \/ Load
    <3>1. tab_names_dirty'
      BY <2>1, Zenon DEF NewTab, NewTabFails, SwitchTab, Rename, Load
    <3>2. QED
      BY <3>1, Zenon DEF BarFreshUnlessAutoClosed
  <2>2. CASE UNCHANGED <<mgr, current, tab_names_cache, tab_names_dirty, auto_closed>>
    <3>1. TabNames(mgr, current)' = TabNames(mgr, current)
      BY <2>2 DEF TabNames
    <3>2. /\ tab_names_cache' = tab_names_cache /\ tab_names_dirty' = tab_names_dirty
          /\ auto_closed' = auto_closed
      BY <2>2, Zenon
    <3>3. QED
      BY <1>2, <3>1, <3>2, Zenon DEF BarFreshUnlessAutoClosed
  <2>3. CASE CloseTab \/ ActiveTabDead
    <3>1. \/ tab_names_dirty' \/ auto_closed'
          \/ UNCHANGED <<mgr, current, tab_names_cache, tab_names_dirty, auto_closed>>
      BY <2>3, Zenon DEF CloseTab, ActiveTabDead
    <3>2. QED
      BY <2>2, <3>1, Zenon DEF BarFreshUnlessAutoClosed
  <2>4. CASE RenderTabs
    <3>1. /\ mgr' = mgr /\ current' = current /\ auto_closed' = auto_closed
          /\ tab_names_cache' = IF tab_names_dirty THEN TabNames(mgr, current) ELSE tab_names_cache
      BY <2>4, Zenon DEF RenderTabs
    <3>2. TabNames(mgr, current)' = TabNames(mgr, current)
      BY <3>1 DEF TabNames
    <3>3. QED
      BY <1>2, <3>1, <3>2, Zenon DEF BarFreshUnlessAutoClosed
  <2>5. CASE KillSession \/ TabsStopped \/ UNCHANGED tabVars
    <3>1. UNCHANGED <<mgr, current, tab_names_cache, tab_names_dirty, auto_closed>>
      BY <2>5, Zenon DEF KillSession, TabsStopped, tabVars
    <3>2. QED
      BY <2>2, <3>1, Zenon
  <2>6. QED
    BY <1>2, <2>1, <2>3, <2>4, <2>5, Zenon DEF TabNext
<1>3. QED
  BY <1>1, <1>2, PTL DEF TabSpec

\* The gap representation implements the user's list of tabs.
THEOREM ImplementsTabList == TabSpec => RefinesTabList
<1>1. TabInit => TL!Init
  <2> SUFFICES ASSUME TabInit PROVE TL!Init
    OBVIOUS
  <2>1. /\ Logical \in Seq(Tab) /\ Len(Logical) = mgr.count /\ mgr.count \in Nat \ {0}
        /\ mgr.active_idx \in Nat /\ mgr.active_idx < mgr.count
    BY InvInit, StateFacts DEF Inv
  <2> QED
    BY <2>1 DEF TL!Init
<1>2. ASSUME Inv, Inv', [TabNext]_tabVars PROVE [TL!Next]_(TL!vars)
  <2>0. /\ TypeOK /\ GapConsistent /\ IdsBounded /\ opened \in Nat
        /\ Logical \in Seq(Tab) /\ Len(Logical) = mgr.count /\ mgr.count \in Nat \ {0}
        /\ mgr.active_idx \in Nat /\ mgr.active_idx < mgr.count
    BY <1>2, StateFacts DEF Inv
  <2>1. /\ Logical' \in Seq(Tab) /\ Len(Logical') = mgr'.count /\ mgr'.count \in Nat \ {0}
        /\ mgr'.active_idx \in Nat /\ mgr'.active_idx < mgr'.count
    BY <1>2, StateFacts, ListProperties DEF Inv, TypeOK, GapConsistent, WellFormed, Logical, ListOf
  <2>2. KeepsList \/ OpensTab \/ ClosesTab \/ RenamesTab \/ LoadsTabs
    BY <1>2, <2>0, StepShape
  <2>3. CASE KeepsList
    BY <2>0, <2>1, <2>3 DEF KeepsList, TL!Next, TL!Select
  <2>4. CASE OpensTab
    <3>1. opened + 1 \notin TL!Ids(Logical)
      BY <2>0 DEF TL!Ids, IdsBounded
    <3> QED
      BY <2>0, <2>1, <2>4, <3>1 DEF OpensTab, TL!Next, TL!Open
  <2>5. CASE ClosesTab
    <3>1. TL!Without(Logical, mgr.active_idx + 1) = mgr.tabs
      <4> DEFINE ts == mgr.tabs
                 i == mgr.active_idx
      <4>1. ts \in Seq(Tab) /\ i \in 0 .. Len(ts) /\ current \in Tab
        BY <2>0, StateFacts
      <4>2. Logical = VecInsert(ts, i, current)
        BY DEF Logical
      <4> HIDE DEF ts, i
      <4>3. TL!Without(Logical, i + 1) = ts
        BY <4>1, <4>2, WithoutInserted
      <4> QED
        BY <4>3 DEF ts, i
    <3>2. mgr'.active_idx + 1 = IF mgr.active_idx + 1 = Len(Logical)
                                THEN (mgr.active_idx + 1) - 1 ELSE mgr.active_idx + 1
      BY <2>0, <2>5 DEF ClosesTab, NewActive
    <3> QED
      BY <2>0, <2>5, <3>1, <3>2 DEF ClosesTab, TL!Next, TL!Close
  <2>6. CASE RenamesTab
    <3>1. mgr'.active_idx + 1 = mgr.active_idx + 1
      BY <2>6 DEF RenamesTab
    <3>2. \A j \in 1 .. Len(Logical) :
            Logical'[j].id = Logical[j].id /\ (j # mgr.active_idx + 1 => Logical'[j] = Logical[j])
      BY <2>6 DEF RenamesTab
    <3>3. Logical' \in Seq(Tab) /\ Len(Logical') = Len(Logical)
      BY <2>6 DEF RenamesTab
    <3> QED
      BY <3>1, <3>2, <3>3 DEF TL!Next, TL!Rename
  <2>7. CASE LoadsTabs
    <3>1. PICK n \in Nat \ {0} : Logical' = Fresh(n)
      BY <2>7 DEF LoadsTabs
    <3>2. Len(Logical') = n /\ Logical' # <<>> /\ \A j \in 1 .. n : Logical'[j].id = opened + j
      BY <2>0, <3>1, FreshProperties
    <3>3. TL!Ids(Logical') \cap TL!Ids(Logical) = {}
      BY <2>0, <3>2 DEF TL!Ids, IdsBounded
    <3> QED
      BY <2>1, <3>2, <3>3 DEF TL!Next, TL!Replace
  <2> QED
    BY <2>2, <2>3, <2>4, <2>5, <2>6, <2>7
<1> QED
  BY <1>1, <1>2, InvHolds, PTL DEF TabSpec, RefinesTabList, TL!Spec

=============================================================================
