-------------------------- MODULE CommandSequences --------------------------
(***************************************************************************)
(* What the store of pending MAC commands and its abstract specification   *)
(* share: picking the elements of a sequence, and the lowest of a set of   *)
(* indices.                                                                *)
(***************************************************************************)
EXTENDS Naturals, Sequences, SequencesExt

(* The elements of s that are in S, in their order.                        *)
Selected(s, S) ==
    LET picked[n \in 0..Len(s)] ==
            IF n = 0 THEN << >>
            ELSE IF s[n] \in S THEN Append(picked[n - 1], s[n]) ELSE picked[n - 1]
    IN picked[Len(s)]

Lowest(S) == CHOOSE n \in S : \A m \in S : n <= m
=============================================================================
