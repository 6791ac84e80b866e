---------------------------- MODULE MCAuthzGate ----------------------------
(* Small instances of the authorization gate for TLC. *)
EXTENDS AuthzGate, TLC

Symmetry == Permutations(Calls) \cup Permutations(RequestIds) \cup Permutations(Digests)
=============================================================================
