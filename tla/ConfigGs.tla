------------------------------ MODULE ConfigGs ------------------------------
(***************************************************************************)
(* Configurations for sensors (components/bdgs/ota/config_gs.cpp): when a  *)
(* sensor announces itself, the radio task asks the backend what is        *)
(* pending for it, transmits it, waits for the sensor's acknowledgement    *)
(* and only then confirms it to the backend.  It does so in the middle of  *)
(* handling the announcement, with the same flag and transceiver.          *)
(*                                                                         *)
(* One sensor and its configurations, which the backend hands out in       *)
(* order.  The sensor applies what reaches it and acknowledges with the    *)
(* nonce of its announcement.                                              *)
(*                                                                         *)
(* A definition named ...Mutant is what a slip in the code would make of   *)
(* the one after it; it is used nowhere.                                   *)
(***************************************************************************)
EXTENDS RadioIrq, FiniteSets

CONSTANTS
  Configs,     \* how many configurations are pending at first: they are 1..Configs
  MaxRounds    \* 16, the rounds of processConfigUpdate

ASSUME ConfigAssumption == Configs \in Nat /\ MaxRounds \in Nat \ {0}

VARIABLES
  call,        \* "none"; "own" from config_gs_check_device, with the sensor's nonce;
               \* "any" from config_gs_try_update, without one
  step,        \* where processConfigUpdate is
  round,
  current,     \* the configuration in hand
  recent,      \* config_gs_try_update asked less than 30 s ago
  pending,     \* backend: configurations not confirmed
  applied,     \* sensor: configurations it has applied
  answer,      \* its acknowledgement in the air, or "none"
  listening,   \* it receives on FANET, until it is told that there is no update
  mistaken     \* history variable: another sensor's acknowledgement was accepted where
               \* none was told from another

backend == <<pending>>
sensor == <<applied, answer, listening>>
exchange == <<call, step, round, current, recent, mistaken>>
configVars == <<exchange, backend, sensor>>

ConfigInit ==
  /\ call = "none" /\ step = "idle" /\ round = 0 /\ current = 0 /\ recent = FALSE
  /\ pending = 1..Configs /\ applied = {} /\ answer = "none" /\ mistaken = FALSE
  /\ listening = FALSE

Steps == {"idle", "query", "transmit", "await", "read", "confirm", "pause"}

ConfigTypeOK ==
  /\ call \in {"none", "own", "any"} /\ step \in Steps
  /\ round \in 0..MaxRounds /\ current \in 0..Configs /\ recent \in BOOLEAN
  /\ pending \subseteq 1..Configs /\ applied \subseteq 1..Configs
  /\ answer \in {"none", "ack", "nack"} /\ listening \in BOOLEAN /\ mistaken \in BOOLEAN

(* processConfigUpdate begins; the sensor's answer to an earlier exchange  *)
(* does not reach this one.                                                *)
Call(kind) == call' = kind /\ step' = "query" /\ round' = 0 /\ answer' = "none"

(* It returns.                                                             *)
Leave == step' = "idle" /\ UNCHANGED <<call, round, current, recent, mistaken>>

(* queryPendingConfigs: refused or unreadable, nothing, or a configuration *)
Query ==
  /\ step = "query" /\ round' = round + 1
  /\ \/ pending # {} /\ step' = "transmit" /\ UNCHANGED events
        /\ current' = CHOOSE c \in pending : \A d \in pending : c <= d
     \/ /\ pending = {} \/ Event("query")
        /\ pending = {} => UNCHANGED events
        /\ step' = "idle" /\ UNCHANGED current
  /\ UNCHANGED <<call, recent, mistaken, backend, sensor, radioVars, irqVars>>

(* The end of a transmission raises DIO1 as well.                          *)
TxDone ==
  /\ notified' = (notified \/ enabled) /\ enabled' = FALSE
  /\ ClearFlag /\ StartReceive

(* transmitConfigPacket, and the sensor that receives it.  A transmission  *)
(* that fails is not followed by startReceive.                             *)
TransmitFailed ==
  /\ Event("tx") /\ receiving' = FALSE /\ inbox' = "none" /\ step' = "idle"
  /\ UNCHANGED <<mode, irqVars, sensor>>

Reaches ==
  \/ /\ listening /\ applied' = applied \cup {current}
     /\ \/ answer' = "ack" /\ UNCHANGED events
        \/ answer' = "none" /\ Event("ack")
  \/ listening /\ answer' = "nack" /\ Event("refuse") /\ UNCHANGED applied
  \/ listening /\ answer' = "none" /\ Event("config") /\ UNCHANGED applied
  \/ ~listening /\ answer' = "none" /\ UNCHANGED <<applied, events>>

Transmitted == TxDone /\ Reaches /\ step' = "await" /\ UNCHANGED <<mode, listening>>

Transmit ==
  /\ step = "transmit"
  /\ Transmitted \/ TransmitFailed
  /\ UNCHANGED <<call, round, current, recent, mistaken, backend>>

(* waitForConfigAck: the flag, the packet behind it, whether it is one.    *)
AwaitFlag ==
  /\ step = "await" /\ TakeFlag
  /\ step' = IF Seen THEN "read" ELSE "await"
  /\ UNCHANGED <<call, round, current, recent, mistaken, backend, sensor, radioVars, notified,
                 events>>

AwaitedMutant == {"ack", "nack", "foreign"}

Awaited == {"ack", "nack"} \cup (IF call = "any" THEN {"foreign"} ELSE {})

(* With a nonce, only the acknowledgement that carries it.  After another  *)
(* packet the reception is started again, after this one it just goes on.  *)
AwaitRead ==
  /\ step = "read"
  /\ step' = IF inbox \in {"ack", "foreign"} \cap Awaited THEN "confirm"
             ELSE IF inbox = "nack" THEN "idle" ELSE "await"
  /\ inbox' = "none" /\ receiving' = (receiving \/ step' = "await")
  /\ UNCHANGED <<mode, irqVars, events>>
  /\ mistaken' = (mistaken \/ (step' = "confirm" /\ inbox = "foreign" /\ call = "any"))
  /\ UNCHANGED <<call, round, current, recent, backend, sensor>>

(* CONFIG_ACK_TIMEOUT_MS, longer than a sensor takes to answer.            *)
AwaitTimeout ==
  /\ step = "await" /\ answer = "none" /\ inbox \notin {"ack", "nack"}
  /\ Leave /\ UNCHANGED <<backend, sensor, radioVars, irqVars, events>>

(* confirmConfigTransmission: confirmed, or the request is lost, or its    *)
(* answer is.  With more pending it goes on after a pause.                 *)
Confirm ==
  /\ step = "confirm"
  /\ \/ /\ pending' = pending \ {current} /\ UNCHANGED events
        /\ step' = IF Cardinality(pending) > 1 THEN "pause" ELSE "idle"
     \/ Event("confirm") /\ UNCHANGED pending /\ step' = "idle"
     \/ Event("reply") /\ pending' = pending \ {current} /\ step' = "idle"
  /\ UNCHANGED <<call, round, current, recent, mistaken, sensor, radioVars, irqVars>>

Pause ==
  /\ step = "pause"
  /\ step' = IF round < MaxRounds THEN "query" ELSE "idle"
  /\ UNCHANGED <<call, round, current, recent, mistaken, backend, sensor, radioVars, irqVars,
                 events>>

(* The acknowledgement arrives.                                            *)
AnswerArrives ==
  /\ answer # "none" /\ Arrive(answer) /\ answer' = "none"
  /\ UNCHANGED <<exchange, backend, applied, listening, events>>

(* notifyNoUpdate of ota_gs, after the call with the nonce: a handshake on *)
(* FANET and, when it was sent, an abort in the transfer mode; back on     *)
(* FANET the reception is started again.                                   *)
NotifyNoUpdate ==
  \/ TxDone /\ listening' = FALSE /\ UNCHANGED <<mode, events>>
  \/ /\ Event("tx") /\ receiving' = FALSE /\ inbox' = "none"
     /\ UNCHANGED <<mode, irqVars, listening>>

ProcessConfigUpdate ==
  \/ Query \/ Transmit \/ AwaitFlag \/ AwaitRead \/ Confirm \/ Pause

=============================================================================
