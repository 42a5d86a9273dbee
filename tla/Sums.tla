-------------------------------- MODULE Sums --------------------------------
(***************************************************************************)
(* Python's sum over a sequence of integers.  The recursion is a function  *)
(* over the prefixes, so that what it computes can be proved.              *)
(***************************************************************************)
EXTENDS Integers, Sequences

\* The sum of the first n elements of s, for each n.
Sums(s) ==
  LET sum[n \in 0..Len(s)] == IF n = 0 THEN 0 ELSE sum[n - 1] + s[n] IN sum

Total(s) == Sums(s)[Len(s)]
=============================================================================
