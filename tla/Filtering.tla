----------------------------- MODULE Filtering -----------------------------
(***************************************************************************)
(* Filtering a sequence, as a recursive function so that it can be         *)
(* reasoned about (SequenceLemmas): VecDeque::retain, extract_if and       *)
(* Iterator::filter in the code.                                           *)
(***************************************************************************)
EXTENDS Naturals, Sequences

\* The elements of s that are not in S, in their order.
Without(s, S) ==
    LET kept[n \in 0 .. Len(s)] ==
            IF n = 0 THEN <<>>
            ELSE IF s[n] \in S THEN kept[n - 1] ELSE Append(kept[n - 1], s[n])
    IN  kept[Len(s)]
============================================================================
