-------------------------- MODULE MCNativeSettings --------------------------
(* Instances of NativeSettings for TLC. *)
EXTENDS NativeSettings, TLC

\* The protected settings are interchangeable.
Symmetry == Permutations(Kepts)
=============================================================================
