----------------------------- MODULE MCGateway -----------------------------
(* The composed gateway on small sets of ids, keys, handlers and callers. *)
EXTENDS Gateway, TLC

Symmetric == Permutations(Ids) \cup Permutations(Threads) \cup Permutations(Workers)
=============================================================================
