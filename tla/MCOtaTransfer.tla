--------------------------- MODULE MCOtaTransfer ---------------------------
(* Instances of OtaTransfer for TLC. *)
EXTENDS OtaTransfer, TLC

CONSTANTS n1, n2, n3

(* n3 announces a protocol the station does not speak. *)
MCProtoOf == [n \in Nonces |-> IF n = n3 THEN 2 ELSE 4]

Lost(ops) == {<<"lose", op>> : op \in ops}
AckLost(ops) == {<<"ack", op>> : op \in ops}
Refused(ops) == {<<"tx", op>> : op \in ops}
SensorFaults == {<<"refuse", "START">>, <<"refuse", "CHUNK">>, <<"quit">>, <<"late">>}

AllFaults ==
  Lost({"FANET_ACK", "START", "CHUNK", "FINISH", "ABORT"})
    \cup AckLost({"START", "CHUNK", "FINISH"})
    \cup Refused({"FANET_ACK", "START", "CHUNK", "FINISH", "ABORT"})
    \cup SensorFaults \cup {<<"read">>}

(* Losses during the chunk transfer only, and of aborts. *)
ChunkLosses == Lost({"CHUNK", "ABORT"}) \cup AckLost({"CHUNK"}) \cup Refused({"CHUNK"})

(* The sensors n1 and n2 are interchangeable. *)
SensorSymmetry == Permutations({n1, n2})

NoFaults == {}
ReadFaults == {<<"read">>}
=============================================================================
