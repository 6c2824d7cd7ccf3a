------------------------------- MODULE Uplink -------------------------------
(***************************************************************************)
(* What the station passes on of the packets it receives.  The radio task  *)
(* (handle_fanet and handle_flarm of components/bdgs/radio/bd_radio.cpp)   *)
(* puts weather into the queue to the backend (ForwardQueue) and weather   *)
(* and positions on the APRS connection (Aprs), if that is connected when  *)
(* it looks; it then waits for the lock, and looks no more.                *)
(***************************************************************************)
EXTENDS Aprs, ForwardQueue

CONSTANTS
  MaxPayloads   \* bound: how many payloads are forwarded

ASSUME UplinkAssumption == MaxPayloads \in Nat

VARIABLES
  radio,        \* the radio task: "idle", "weather" was forwarded, "send" wants the lock
  forwarding    \* the net task is in the loop of process_forward_queue

uplinkVars == <<vars, queueVars, radio, forwarding>>

UplinkInit == Init /\ QueueInit /\ radio = "idle" /\ forwarding = FALSE

UplinkTypeOK ==
  /\ TypeOK /\ QueueTypeOK /\ radio \in {"idle", "weather", "send"}
  /\ forwarding \in BOOLEAN

-----------------------------------------------------------------------------
(* A weather packet that is published: sendBreezedude is set or not.  The  *)
(* flag wifiConnected, which is asked, follows the network some time later.*)
Weather ==
  /\ radio = "idle" /\ radio' = "weather"
  /\ \/ last < MaxPayloads /\ Enqueue
     \/ UNCHANGED queueVars
  /\ UNCHANGED vars

LookAtAprs ==
  /\ radio = "weather" /\ radio' = IF sendAPRS /\ connected THEN "send" ELSE "idle"
  /\ UNCHANGED <<vars, queueVars>>

(* A position: not asked whether APRS is switched on.                      *)
Tracking ==
  /\ radio = "idle" /\ connected /\ radio' = "send"
  /\ UNCHANGED <<vars, queueVars>>

Sends == radio = "send" /\ radio' = "idle" /\ SendData /\ UNCHANGED queueVars

RadioTask == (Weather \/ LookAtAprs \/ Tracking \/ Sends) /\ UNCHANGED forwarding

(* The net task, process_forward_queue: the network is asked for once, and *)
(* then all is posted that is there, and added meanwhile.                  *)
ForwardBegins == ~forwarding /\ network /\ forwarding' = TRUE /\ UNCHANGED queueVars

Forwards == forwarding /\ (Pop \/ Post) /\ UNCHANGED forwarding

ForwardEnds ==
  /\ forwarding /\ posting = 0 /\ qcount = 0 /\ forwarding' = FALSE
  /\ UNCHANGED queueVars

NetTask == (ForwardBegins \/ Forwards \/ ForwardEnds) /\ UNCHANGED <<vars, radio>>

-----------------------------------------------------------------------------
Alone == UNCHANGED <<queueVars, radio, forwarding>>

Next ==
  \/ RadioTask \/ NetTask
  \/ (AprsTask \/ UpdateSettings \/ Outside) /\ Alone

Spec == UplinkInit /\ [][Next]_uplinkVars

(* The tasks run, the timers run out, the network comes back, NTP and the  *)
(* server answer.                                                          *)
Fairness ==
  /\ WF_uplinkVars(AprsTask /\ Alone)
  /\ WF_uplinkVars((LookAtAprs \/ Sends) /\ UNCHANGED forwarding)
  /\ WF_uplinkVars(NetTask)
  /\ \A timer \in Timers : SF_uplinkVars(RunsOut(timer) /\ Alone)
  /\ WF_uplinkVars(NetworkUp /\ Alone) /\ WF_uplinkVars(ClockSet /\ Alone)
  /\ SF_uplinkVars(Answers /\ Alone)

FairSpec == Spec /\ Fairness

-----------------------------------------------------------------------------
(* The server gets no data on a connection before the station's status,    *)
(* whatever the radio task saw before it had the lock: not even when the   *)
(* connection it saw was lost and made again meanwhile.                    *)
StatusBeforeData == "data" \in wire => "status" \in wire

(* A station with a network and APRS switched on, which no upload holds,   *)
(* registers again and again, after every loss; but one whose server       *)
(* answered in two halves waits for as long as that connection lasts.      *)
Registers ==
  <>[](network /\ sendAPRS /\ ~otaUploadInProgress) =>
    []<>(connected /\ link = "up" /\ (initOk = "full" \/ deaf))

(* The same of every station: an upload whose client is gone holds it.     *)
RegistersAlways ==
  <>[](network /\ sendAPRS) => []<>(connected /\ link = "up" /\ (initOk = "full" \/ deaf))

(* The queue holds the newest payloads in their order, and the backend     *)
(* gets none twice nor an older one after a newer.                         *)
LatestKept ==
  /\ \A i \in 0..(qcount - 1) : items[(qhead + i) % Capacity] = last - qcount + 1 + i
  /\ posting # 0 => posting \in (posted + 1)..(last - qcount)
  /\ posted <= last - qcount

(* What a comment of sendStatus says: the beacon is always first, and only *)
(* then status and data.  A status whose beacon found no time of day is    *)
(* sent without it.                                                        *)
BeaconFirst == wire \cap {"status", "data"} # {} => "beacon" \in wire
=============================================================================
