---------------------------- MODULE FrameStream ----------------------------
(***************************************************************************)
(* What the daemon promises an attached client about its output: the       *)
(* peer receives, in order and without gaps, a prefix of the frames the    *)
(* daemon accepted for it.  A frame is seen whole, except that the         *)
(* transport may break once, in the middle of a frame, after which nothing *)
(* more is delivered.                                                      *)
(*                                                                         *)
(* A byte is named by its position in the stream of accepted bytes, so     *)
(* "the first n bytes, in order" is just the number n.                     *)
(***************************************************************************)
EXTENDS Naturals

VARIABLES
    accepted,     \* bytes the daemon has accepted for this client
    frame_ends,   \* positions at which an accepted frame ends
    delivered,    \* bytes that have reached the peer
    broken        \* the transport reported a write error

vars == <<accepted, frame_ends, delivered, broken>>

Init ==
    /\ accepted = 0
    /\ frame_ends = {0}
    /\ delivered = 0
    /\ broken = FALSE

\* One more whole, non-empty frame is accepted.
Accept ==
    /\ accepted' \in Nat
    /\ accepted < accepted'
    /\ frame_ends' = frame_ends \cup {accepted'}
    /\ UNCHANGED <<delivered, broken>>

\* The peer receives some whole frames.
Deliver ==
    /\ ~broken
    /\ \E p \in frame_ends :
        /\ delivered < p
        /\ p <= accepted
        /\ delivered' = p
    /\ UNCHANGED <<accepted, frame_ends, broken>>

\* The transport breaks; part of what was accepted may still have arrived.
Break ==
    /\ ~broken
    /\ broken' = TRUE
    /\ delivered' \in Nat
    /\ delivered <= delivered'
    /\ delivered' <= accepted
    /\ UNCHANGED <<accepted, frame_ends>>

Next == Accept \/ Deliver \/ Break

Spec == Init /\ [][Next]_vars

=============================================================================
