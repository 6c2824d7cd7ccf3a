------------------------------ MODULE MCUplink ------------------------------
(* The uplink with a queue for two payloads.                               *)
EXTENDS Uplink
=============================================================================
