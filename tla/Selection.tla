----------------------------- MODULE Selection -----------------------------
(***************************************************************************)
(* The subsequence of the elements of s that are in the set K: SelectSeq   *)
(* with a set for the test.                                                *)
(***************************************************************************)
EXTENDS Naturals, Sequences

Select(s, K) ==
  LET F[i \in 0..Len(s)] ==
        IF i = 0 THEN <<>>
        ELSE IF s[i] \in K THEN Append(F[i - 1], s[i]) ELSE F[i - 1]
  IN F[Len(s)]
============================================================================
