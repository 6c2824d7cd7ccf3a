------------------------------ MODULE MCRepeat ------------------------------
(* Senders of which two fit into the table, whose packets differ or not.   *)
EXTENDS Repeat, TLC

Interchangeable == Permutations(Senders)
=============================================================================
