----------------------------- MODULE TrialBoot -----------------------------
(***************************************************************************)
(* What the ground station's updates promise, however many are under way   *)
(* and whenever it is reset: it always runs a firmware; a new one is tried *)
(* once, and unless it has confirmed itself by the next reset the station  *)
(* is back at the one it came from.                                        *)
(*                                                                         *)
(* SelfUpdate (components/bdgs/ota/bd_fwupdate.cpp and others) is shown to *)
(* implement it.                                                           *)
(***************************************************************************)
CONSTANT Firmwares

VARIABLES
  runs,   \* the firmware that runs
  home,   \* the one confirmed last
  trial   \* {the one installed and not tried yet}, or {}

Init == runs \in Firmwares /\ home = runs /\ trial = {}

(* An update is complete: only from a firmware that has been confirmed. *)
Installed(v) ==
  /\ runs = home
  /\ trial' = {v}
  /\ UNCHANGED <<runs, home>>

(* Another update has begun in its place. *)
Dropped == trial' = {} /\ UNCHANGED <<runs, home>>

Confirmed == home' = runs /\ UNCHANGED <<runs, trial>>

(* A reset, some of them after the firmware has been confirmed. *)
Restarted ==
  /\ trial' = {}
  /\ home' \in {home, runs}
  /\ IF trial = {} THEN runs' = home' ELSE trial = {runs'}

Next ==
  \/ \E v \in Firmwares : Installed(v)
  \/ Dropped \/ Confirmed \/ Restarted

Spec == Init /\ [][Next]_<<runs, home, trial>>
=============================================================================
