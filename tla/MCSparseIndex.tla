---------------------------- MODULE MCSparseIndex ----------------------------
(* Values of the constants of SparseIndex for TLC. *)
EXTENDS SparseIndex, TLC

\* The rank of the second term depends on whether some document says the first,
\* and a vocabulary built from the one text lacks a term of the other.
TwoTexts == {{1, 2}, {2}}
\* Operators differ in nothing but name.
Symmetry == Permutations(Operators)

OneSample == [d \in {"d1"} |-> {2}]
=============================================================================
