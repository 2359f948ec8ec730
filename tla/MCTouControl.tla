---------------------------- MODULE MCTouControl ----------------------------
(* Instances of TouControl for TLC. *)
EXTENDS TouControl, TLC

\* The reserves are interchangeable, and so are the protected settings.
Symmetry == Permutations(Reserves) \cup Permutations(Kepts)
=============================================================================
