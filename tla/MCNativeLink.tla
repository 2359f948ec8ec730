---------------------------- MODULE MCNativeLink ----------------------------
(* Instances of NativeLink for TLC. *)
EXTENDS NativeLink, TLC

\* Connections and callers are interchangeable in the safety properties.
Symmetry == Permutations(Conns) \cup Permutations(Callers)
=============================================================================
