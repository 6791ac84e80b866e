----------------------------- MODULE MCConnect -----------------------------
(* Two connecting processes on one port, so that the second may be bound to *)
(* the port the first has given back.                                       *)
EXTENDS Connect
=============================================================================
