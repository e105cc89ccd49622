------------------------------ MODULE MCNextScan ------------------------------
(***************************************************************************)
(* NextScan on the tests of MCPermutation.                                 *)
(***************************************************************************)
EXTENDS MCPermutation, NextScan

\* The number that a mask is.
Value(S) == FoldSet(LAMBDA b, n : 2 ^ b + n, 0, S)

\* Exceeds() is the order of numbers, which is what the code compares.
ASSUME ExceedsIsGreater == \A A, B \in SUBSET Bits : Exceeds(A, B) <=> Value(A) > Value(B)
=============================================================================
