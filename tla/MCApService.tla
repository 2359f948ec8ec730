---------------------------- MODULE MCApService ----------------------------
(* Instance for TLC; the bounds are in the configuration. *)
EXTENDS ApService
=============================================================================
