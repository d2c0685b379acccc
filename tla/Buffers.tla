------------------------------ MODULE Buffers ------------------------------
(***************************************************************************)
(* BufferStore of src/src/buffers.rs: named texts, at most MaxBuffers of   *)
(* them, of which the oldest is evicted.  Of a text only its age is kept.  *)
(***************************************************************************)
EXTENDS Integers, FiniteSets, SeqOps

CONSTANTS
    Names,         \* buffer names a key binding may set
    MaxBuffers,    \* BufferStore::MAX_BUFFERS
    MaxSeq         \* u64::MAX: the sequence number that is never given out

Default == ""      \* the buffer of a yank

ASSUME BuffersAssumption ==
    MaxBuffers \in Nat \ {0} /\ MaxSeq \in Nat /\ MaxBuffers < MaxSeq

VARIABLES
    store,     \* BufferStore.buffers: name -> created_at
    nextSeq,   \* BufferStore.next_seq
    recent     \* history: the names set, the latest first

bufferVars == <<store, nextSeq, recent>>

BufferInit == store = <<>> /\ nextSeq = 0 /\ recent = <<>>

\* next_seq: at the end of the numbers the entries are numbered anew.
Renumbered(st) == [n \in DOMAIN st |-> Cardinality({m \in DOMAIN st : st[m] < st[n]})]
Oldest(st) == CHOOSE n \in DOMAIN st : \A m \in DOMAIN st : st[n] <= st[m]

\* Mutant of BufferSet: replacing a text does not make its buffer younger.
BufferSetOld(name) ==
    /\ store' = IF name \in DOMAIN store THEN store
                ELSE LET kept == IF Cardinality(DOMAIN store) < MaxBuffers THEN DOMAIN store
                                 ELSE DOMAIN store \ {Oldest(store)}
                     IN  [n \in kept \cup {name} |-> IF n = name THEN nextSeq ELSE store[n]]
    /\ nextSeq' = nextSeq + 1
    /\ recent' = <<name>> \o Without(recent, {name})

\* BufferStore::set, for a text within the byte limit.
BufferSet(name) ==
    LET wraps == nextSeq = MaxSeq
        st == IF wraps THEN Renumbered(store) ELSE store
        seq == IF wraps THEN Cardinality(DOMAIN store) ELSE nextSeq
        full == name \notin DOMAIN st /\ Cardinality(DOMAIN st) >= MaxBuffers
        kept == IF full THEN DOMAIN st \ {Oldest(st)} ELSE DOMAIN st
    IN  /\ store' = [n \in kept \cup {name} |-> IF n = name THEN seq ELSE st[n]]
        /\ nextSeq' = seq + 1
        /\ recent' = <<name>> \o Without(recent, {name})

\* What yanks and key bindings do to the store; copy mode adds when.
BufferSpec == BufferInit /\ [][\E name \in Names \cup {Default} : BufferSet(name)]_bufferVars

-----------------------------------------------------------------------------
\* The store keeps the buffers set last, also when the sequence numbers have
\* been used up ("the oldest entry is evicted", buffers.rs).
BuffersAreLatest ==
    DOMAIN store = {recent[i] : i \in {j \in 1 .. Len(recent) : j <= MaxBuffers}}
=============================================================================
