------------------------------ MODULE MCBridge ------------------------------
(* Small instances of RuntimeBridge for TLC. *)
EXTENDS RuntimeBridge
Alike == Permutations(Sidecar)
=============================================================================
