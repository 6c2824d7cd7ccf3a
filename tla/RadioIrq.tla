------------------------------ MODULE RadioIrq ------------------------------
(***************************************************************************)
(* The transceiver and its interrupt line (components/bdgs/radio/          *)
(* bd_radio.cpp, RadioIrqFlag in include/helper.h).  DIO1 is level         *)
(* triggered, as only a level wakes the chip from light sleep: the         *)
(* interrupt masks itself, sets the flag and notifies the radio task, and  *)
(* has to be armed again once the packet has been read out.                *)
(*                                                                         *)
(* A packet that arrives while another one waits in the transceiver is not *)
(* modelled: one of the two is lost.  A packet is its kind: "other",       *)
(* "hwinfo" (an announcement of a sensor that listens now), "ack" and      *)
(* "nack" (its answer to a configuration), "foreign" (the acknowledgement  *)
(* of another sensor to another station).                                  *)
(*                                                                         *)
(* A definition named ...Mutant is what a slip in the code would make of   *)
(* the one after it; it is used nowhere.                                   *)
(***************************************************************************)
EXTENDS Naturals

CONSTANTS
  Kinds,       \* what may happen, of Events
  MaxEvents    \* bound: how often

Modes == {"FANET", "FLARM_LOW", "FLARM_HIGH", "ADSL_LOW", "ADSL_HIGH"}
Packets == {"other", "hwinfo", "ack", "nack", "foreign"}

(* A modem that does not take an FSK mode or frequency, or LoRa, or either *)
(* for a while, a transmission that fails, a configuration or its          *)
(* acknowledgement lost or refused, a request or its answer lost; the      *)
(* settings change.                                                        *)
Events == {"fsk", "lora", "modem", "tx", "config", "ack", "refuse", "query", "confirm", "reply",
           "settings"}

ASSUME RadioAssumption == Kinds \subseteq Events /\ MaxEvents \in Nat

VARIABLES
  mode,        \* radio_mode
  receiving,   \* the transceiver is in receive mode
  inbox,       \* the packet that waits in it, or "none": DIO1 is high
  flag,        \* receivedFlag: flag_
  rearm,       \* receivedFlag: rearm_pending_
  enabled,     \* the interrupt is not masked
  notified,    \* the radio task has a notification it has not taken
  events       \* how many of the events there were

irqVars == <<flag, rearm, enabled, notified>>
radioVars == <<mode, receiving, inbox>>

(* bd_radio_start: receiving in FANET mode, the interrupt enabled.         *)
RadioInit ==
  /\ mode = "FANET" /\ receiving = TRUE /\ inbox = "none"
  /\ flag = FALSE /\ rearm = FALSE /\ enabled = TRUE /\ notified = FALSE
  /\ events = 0

RadioTypeOK ==
  /\ mode \in Modes /\ receiving \in BOOLEAN /\ inbox \in Packets \cup {"none"}
  /\ flag \in BOOLEAN /\ rearm \in BOOLEAN /\ enabled \in BOOLEAN /\ notified \in BOOLEAN
  /\ events \in Nat

Event(kind) == kind \in Kinds /\ events < MaxEvents /\ events' = events + 1

Pin == inbox # "none"

(* dio1_isr *)
Interrupt == enabled /\ Pin

Dio1Isr ==
  /\ Interrupt
  /\ enabled' = FALSE /\ flag' = TRUE /\ notified' = TRUE
  /\ UNCHANGED <<radioVars, rearm, events>>

(* RadioIrqFlag::arm                                                       *)
ArmMutant ==
  /\ rearm' = FALSE
  /\ flag' = (flag \/ Pin)
  /\ UNCHANGED enabled

Arm ==
  /\ rearm' = FALSE /\ enabled' = TRUE
  /\ flag' = (flag \/ Pin)

(* RadioIrqFlag::operator=(false): not armed until the packet is read.     *)
ClearFlagMutant == flag' = FALSE /\ UNCHANGED rearm

ClearFlag == flag' = FALSE /\ rearm' = TRUE

(* RadioIrqFlag::operator bool, which arms the interrupt when the flag is  *)
(* clear and a packet has been read since; and what follows when it is     *)
(* true, receivedFlag = false.                                             *)
Seen == flag \/ (rearm /\ Pin)
LookAgain == IF ~flag /\ rearm THEN Arm ELSE UNCHANGED <<flag, rearm, enabled>>

TakeFlag ==
  IF Seen THEN ClearFlag /\ enabled' = (enabled \/ ~flag) ELSE LookAgain

(* PhysicalLayer::startReceive clears what was received before.            *)
StartReceive == receiving' = TRUE /\ inbox' = "none"

-----------------------------------------------------------------------------
(* radio_set_mode and radio_apply_mode.  Every successful change clears    *)
(* the flag and starts the reception; one that fails leaves the modem in   *)
(* standby, in the mode it was in.                                         *)
Applied(m) == mode' = m /\ StartReceive /\ ClearFlag /\ UNCHANGED <<enabled, notified>>
NotApplied ==
  /\ receiving' = FALSE /\ inbox' = "none"
  /\ UNCHANGED <<mode, irqVars>>

Kind(m) == IF m = "FANET" THEN "lora" ELSE "fsk"

(* On a failure the radio is put on FANET, which may fail as well.         *)
SetMode(m) ==
  \/ m = mode /\ UNCHANGED <<radioVars, irqVars, events>>
  \/ m # mode /\ Applied(m) /\ UNCHANGED events
  \/ m # mode /\ Event(Kind(m)) /\ IF m = "FANET" THEN NotApplied ELSE Applied("FANET")
  \/ m \notin {mode, "FANET"} /\ Event("modem") /\ NotApplied

-----------------------------------------------------------------------------
(* What arrives through the air, on the channel of the current mode.       *)
Arrive(p) ==
  /\ receiving /\ ~Pin /\ inbox' = p
  /\ p # "other" => mode = "FANET"
  /\ UNCHANGED <<mode, receiving, irqVars>>
=============================================================================
