----------------------------- MODULE MCHistory -----------------------------
(* Instances of History for TLC. *)
EXTENDS History, TLC

\* The contexts of a station are interchangeable.
Symmetry == Permutations(Contexts)
=============================================================================
