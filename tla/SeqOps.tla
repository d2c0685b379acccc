------------------------------- MODULE SeqOps -------------------------------
(***************************************************************************)
(* Operators on sequences as recursive functions, which the proofs can     *)
(* unfold.                                                                 *)
(***************************************************************************)
EXTENDS Integers, Sequences

\* The sum of a sequence of numbers.
Total(w) ==
    LET upto[n \in 0 .. Len(w)] == IF n = 0 THEN 0 ELSE upto[n - 1] + w[n]
    IN  upto[Len(w)]

\* The elements of a sequence that are not in a set, in their order.
Without(s, gone) ==
    LET upto[n \in 0 .. Len(s)] ==
            IF n = 0 THEN <<>>
            ELSE IF s[n] \in gone THEN upto[n - 1] ELSE Append(upto[n - 1], s[n])
    IN  upto[Len(s)]
=============================================================================
