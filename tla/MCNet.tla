------------------------------ MODULE MCNet ------------------------------
(* The rules of the access point, and what may happen. *)
EXTENDS Net

TwoRules == {"apAutoOff", "fallback"}
AllKinds == {"scan", "save", "button", "serial", "upload", "outage", "abort"}
SerialKind == {"serial"}
AutoOff == {"apAutoOff"}
=============================================================================
