---------------------------- MODULE MCRadioTask ----------------------------
(* A second of five units with the windows in the order of the code's, the *)
(* settings and the failures.                                              *)
EXTENDS RadioTask

MCPeriods == [i \in 0..2 |-> IF i = 0 THEN 1 ELSE 2]

Setting(protocols, withFanet, debug) ==
  [want |-> protocols, fanet |-> withFanet, verbose |-> debug]

Both == {"flarm", "adsl"}
SomeSettings ==
  {Setting({}, TRUE, "off"), Setting(Both, TRUE, "off"), Setting(Both, FALSE, "off"),
   Setting(Both, TRUE, "adsl")}
Parked == {Setting({}, TRUE, "off")}
BothProtocols == {Setting(Both, TRUE, "off")}

=============================================================================
