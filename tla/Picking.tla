------------------------------- MODULE Picking -------------------------------
(* The part of a list that a comprehension with a condition keeps: as a      *)
(* recursive function, which proofs can be about.                            *)
EXTENDS Naturals, Sequences

\* The elements of seq that are wanted, in their order.
Picked(seq, wanted) ==
  LET upTo[n \in 0 .. Len(seq)] ==
        IF n = 0 THEN <<>>
        ELSE IF seq[n] \in wanted THEN Append(upTo[n - 1], seq[n])
        ELSE upTo[n - 1]
  IN  upTo[Len(seq)]
=============================================================================
