---------------------------- MODULE SequenceRemoval ----------------------------
(* A sequence without the occurrences of one element.                      *)
EXTENDS Naturals, Sequences

\* The elements of s other than x, in their order.
Without(s, x) ==
  LET kept[i \in 0 .. Len(s)] ==
        IF i = 0 THEN <<>> ELSE IF s[i] = x THEN kept[i - 1] ELSE Append(kept[i - 1], s[i])
  IN kept[Len(s)]
================================================================================
