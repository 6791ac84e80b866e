----------------------------- MODULE MCSendFSM -----------------------------
(* SendFSM on small sets of proposals and callers. *)
EXTENDS SendFSM, TLC

Symmetric == Permutations(Ids) \cup Permutations(Workers)
=============================================================================
