---------------------------- MODULE MCDisconnect ----------------------------
(* Disconnect with a few operations and generations. *)
EXTENDS Disconnect, TLC

Symmetric == Permutations(Ops)
=============================================================================
