---------------------------- MODULE MCSelfUpdate ----------------------------
(* Versions that do not start, and what goes wrong. *)
EXTENDS SelfUpdate

TwoBad == {2}
AllBad == {2, 3}
AllUis == {1, 2, 3}
AllFaults == {"reset", "net", "abort", "tail", "sleep", "lowBattery"}
NetFault == {"net"}
LowBatteryFault == {"lowBattery"}
NoFaults == {}
=============================================================================
