---------------------------- MODULE Subsequences ----------------------------
(* Picking the elements of a sequence, with the test given as a set: the      *)
(* comprehensions over a list in the scripts of Reconcile and GoldenSuite.    *)
(* What is said here once of every set, SelectSeq would have said of each     *)
(* test again.                                                                *)
EXTENDS Sequences, SequencesExt

(* The elements of s that are in S, in their order.                           *)
Within(s, S) == FoldLeft(LAMBDA kept, x : IF x \in S THEN Append(kept, x) ELSE kept, <<>>, s)
=============================================================================
