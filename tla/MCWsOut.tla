------------------------------ MODULE MCWsOut ------------------------------
(* Small instances of WsOut. *)
EXTENDS WsOut, TLC

CONSTANTS t1, f1, f2

Symmetric == Permutations(Fds)
=============================================================================
