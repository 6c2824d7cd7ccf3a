---------------------------- MODULE MCFwStore ----------------------------
(* Small stores: partitions of 1 and 2 sectors. *)
EXTENDS FwStore, TLC, FiniteSets

CONSTANTS i1, i2, i3, i4

MCSectorsOf == i1 :> 1 @@ i2 :> 1 @@ i3 :> 2 @@ i4 :> 3
MCRegion == [s \in 0..2 |-> IF s < 1 THEN 1 ELSE 2]

AllFaults == {"reset", "rot", "garbled", "download", "erase", "header", "nvs"}
NoFaults == {}
=============================================================================
