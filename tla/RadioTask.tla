----------------------------- MODULE RadioTask -----------------------------
(***************************************************************************)
(* The radio task (radio_task of components/bdgs/radio/bd_radio.cpp): it   *)
(* sleeps until a packet arrives or the FSK schedule needs it, reads the   *)
(* packet, answers a sensor's announcement with what is pending for it,    *)
(* lets the schedule choose the mode and samples the noise floor.  It      *)
(* composes the interrupt and its flag (RadioIrq), the schedule            *)
(* (FskSchedule) and the exchange with a sensor (ConfigGs).                *)
(*                                                                         *)
(* Time passes while the task sleeps and while it waits inside an          *)
(* exchange; interrupts, and the task's own steps, take none.              *)
(***************************************************************************)
EXTENDS FskSchedule, ConfigGs

CONSTANTS
  IdleWait,      \* 10000 ms, the longest sleep
  CopyWindows,   \* bound: what may be left of the copy window of an open packet
  Choices,       \* settings: records of the three of them
  Changed,       \* bound: what they may change to
  Near           \* bound: the settings under which there is a sensor in reach

ASSUME TaskAssumption ==
  /\ IdleWait \in Nat \ {0} /\ IdleWait <= Unbounded /\ CopyWindows \subseteq Nat \ {0}
  /\ Choices \subseteq [want : SUBSET {"flarm", "adsl"}, fanet : BOOLEAN,
                        verbose : {"off", "flarm", "adsl"}]
  /\ Changed \subseteq Choices /\ Near \subseteq Choices

VARIABLES
  pc,            \* where the task is in its loop
  left,          \* how long it still sleeps
  quiet,         \* no packet has arrived in this unit of time
  undisturbed,   \* history variable: neither settings nor clock were set since the task
                 \* chose its sleep
  owed           \* history variable: seconds to the one the next window is promised in,
                 \* counted from the second of the last one; -1 when the radio did not
                 \* take a mode, or was on FSK for another reason since

taskVars == <<pc, left, quiet>>
vars == <<radioVars, irqVars, events, settings, clock, cycle, configVars, taskVars,
          undisturbed, owed>>

Current == [want |-> want, fanet |-> fanet, verbose |-> verbose]

Init ==
  /\ RadioInit /\ ScheduleInit /\ ConfigInit
  /\ \E c \in Choices : want = c.want /\ fanet = c.fanet /\ verbose = c.verbose
  /\ pc = "arm" /\ left = 0 /\ quiet = TRUE /\ undisturbed = TRUE /\ owed = 0

TypeOK ==
  /\ RadioTypeOK /\ ScheduleTypeOK /\ ConfigTypeOK
  /\ pc \in {"arm", "sleep", "look", "read", "own", "any", "tick", "noise"}
  /\ left \in Nat /\ quiet \in BOOLEAN /\ undisturbed \in BOOLEAN
  /\ owed \in -1..LongestPeriod

-----------------------------------------------------------------------------
(* The loop.  It sleeps less when the copy window of a packet ends before  *)
(* (bd_repeat_next_delay_ms).                                              *)
LongestSleep == IF NextDelay = Unbounded THEN IdleWait ELSE NextDelay

ChooseSleep ==
  /\ pc = "arm" /\ pc' = "sleep"
  /\ left' \in {LongestSleep} \cup {n \in CopyWindows : n < LongestSleep}
  /\ undisturbed' = TRUE
  /\ Arm
  /\ UNCHANGED <<radioVars, notified, events, settings, clock, cycle, configVars, quiet,
                 owed>>

Wake ==
  /\ pc = "sleep" /\ (notified \/ left = 0)
  /\ pc' = "look" /\ notified' = FALSE /\ left' = 0
  /\ UNCHANGED <<radioVars, flag, rearm, enabled, events, settings, clock, cycle, configVars,
                 quiet, undisturbed, owed>>

(* handle_fanet, handle_flarm and handle_adsl: the flag, then the packet.  *)
Look ==
  /\ pc = "look" /\ TakeFlag
  /\ pc' = IF Seen THEN "read" ELSE "tick"
  /\ UNCHANGED <<radioVars, notified, events, settings, clock, cycle, configVars, left, quiet,
                 undisturbed, owed>>

(* An announcement is offered to ota_gs, which calls config_gs when there  *)
(* is no update, and then to config_gs; or neither, when it is a repeated  *)
(* one or of the last seconds.                                             *)
Read ==
  /\ pc = "read" /\ StartReceive /\ UNCHANGED mode
  /\ \/ inbox = "hwinfo" /\ pc' = "own" /\ Call("own") /\ listening' = TRUE
        /\ UNCHANGED <<current, recent, mistaken>>
     \/ inbox = "hwinfo" /\ pc' = "any" /\ call' = "none" /\ listening' = TRUE
        /\ UNCHANGED <<step, round, current, recent, mistaken, answer>>
     \/ inbox # "hwinfo" /\ pc' = "tick" /\ UNCHANGED <<exchange, answer, listening>>
  /\ UNCHANGED <<irqVars, events, settings, clock, cycle, backend, applied, left, quiet,
                 undisturbed, owed>>

Exchange ==
  /\ pc \in {"own", "any"} /\ ProcessConfigUpdate
  /\ UNCHANGED <<settings, clock, cycle, taskVars, undisturbed, owed>>

NoAnswer ==
  /\ pc \in {"own", "any"} /\ AwaitTimeout
  /\ UNCHANGED <<settings, clock, cycle, taskVars, undisturbed, owed>>

OwnDone ==
  /\ pc = "own" /\ step = "idle" /\ NotifyNoUpdate
  /\ pc' = "any" /\ call' = "none" /\ round' = 0 /\ current' = 0 /\ answer' = "none"
  /\ UNCHANGED <<step, recent, mistaken, backend, applied, settings, clock, cycle, left, quiet,
                 undisturbed, owed>>

(* config_gs_try_update, unless it was asked for this sensor a while ago.  *)
TryUpdate ==
  /\ pc = "any" /\ call = "none" /\ ~recent
  /\ Call("any") /\ recent' = TRUE
  /\ UNCHANGED <<current, mistaken, backend, applied, listening, radioVars, irqVars, events,
                 settings, clock, cycle, taskVars, undisturbed, owed>>

AnyDone ==
  /\ pc = "any" /\ step = "idle" /\ (call = "any" \/ recent)
  /\ pc' = "tick" /\ call' = "none" /\ round' = 0 /\ current' = 0
  /\ answer' = "none" /\ listening' = FALSE
  /\ UNCHANGED <<step, recent, mistaken, backend, applied, radioVars, irqVars,
                 events, settings, clock, cycle, left, quiet, undisturbed, owed>>

(* flarm_scheduler_tick                                                    *)
Schedule ==
  /\ pc = "tick" /\ pc' = "noise"
  /\ \E target \in Modes :
       /\ Tick(target) /\ SetMode(target)
       /\ owed' = CASE mode' # target \/ Situation \in {"debug", "fsk only"} -> -1
                   [] mode' = target /\ Situation = "windows" /\ Opens -> Periods[idx]
                   [] OTHER -> owed
  /\ UNCHANGED <<settings, clock, configVars, left, quiet, undisturbed>>

(* sample_noise_floor, of which the look at the flag matters.              *)
Noise ==
  /\ pc = "noise" /\ pc' = "arm"
  /\ IF mode = "FANET" THEN LookAgain ELSE UNCHANGED <<flag, rearm, enabled>>
  /\ UNCHANGED <<radioVars, notified, events, settings, clock, cycle, configVars, left, quiet,
                 undisturbed, owed>>

-----------------------------------------------------------------------------
(* What happens meanwhile.                                                 *)
PassesAsleep == pc = "sleep" /\ left > 0 /\ ~notified /\ ~Interrupt /\ left' = left - 1
PassesInExchange ==
  /\ pc \in {"own", "any"} /\ step \in {"query", "await", "confirm", "pause"}
  /\ ~Interrupt /\ answer = "none"
  /\ UNCHANGED left

Passes ==
  /\ PassesAsleep \/ PassesInExchange
  /\ TimePasses /\ quiet' = TRUE
  /\ owed' = IF want # {} /\ ms + 1 = Second /\ owed > 0 THEN owed - 1 ELSE owed
  /\ UNCHANGED <<radioVars, irqVars, events, configVars, pc, undisturbed>>

Elsewhere == UNCHANGED <<settings, clock, cycle, taskVars, undisturbed, owed>>

Isr == Dio1Isr /\ UNCHANGED configVars /\ Elsewhere

(* Of others, at most one in a unit of time.  Another sensor's             *)
(* acknowledgement is any packet, but to a task that awaits one.           *)
OtherArrives ==
  /\ quiet /\ quiet' = FALSE
  /\ Arrive(IF step = "await" THEN "foreign" ELSE "other")
  /\ UNCHANGED <<configVars, events, settings, clock, cycle, pc, left, undisturbed, owed>>
AnswerReceived == AnswerArrives /\ Elsewhere

Announce ==
  /\ Current \in Near /\ ~listening /\ Arrive("hwinfo")
  /\ UNCHANGED <<configVars, events>> /\ Elsewhere

(* The 30 s of config_gs_try_update are over.                              *)
Forget ==
  /\ recent /\ pc = "sleep" /\ recent' = FALSE
  /\ UNCHANGED <<call, step, round, current, mistaken, backend, sensor, radioVars, irqVars,
                 events>>
  /\ Elsewhere

(* save_settings and the debug commands of bd_ws_api, which notify the     *)
(* task.                                                                   *)
ChangeSettings ==
  /\ Event("settings")
  /\ \E c \in Changed : SetSettings(c)
  /\ notified' = TRUE /\ undisturbed' = FALSE
  /\ owed' = IF want = {} THEN -1 ELSE owed
  /\ UNCHANGED <<radioVars, flag, rearm, enabled, configVars, taskVars>>

(* The last page is closed: the debug modes end, and nobody notifies.      *)
LastPageCloses ==
  /\ verbose # "off" /\ SetSettings([Current EXCEPT !.verbose = "off"])
  /\ undisturbed' = FALSE
  /\ owed' = IF want = {} THEN -1 ELSE owed
  /\ UNCHANGED <<radioVars, irqVars, events, configVars, taskVars>>

Synchronise ==
  /\ ClockSet /\ undisturbed' = FALSE
  /\ UNCHANGED <<radioVars, irqVars, events, configVars, taskVars, owed>>

Next ==
  \/ ChooseSleep \/ Wake \/ Look \/ Read \/ Exchange \/ NoAnswer \/ OwnDone \/ TryUpdate
  \/ AnyDone \/ Schedule \/ Noise
  \/ Passes \/ Isr \/ OtherArrives \/ AnswerReceived \/ Announce \/ Forget
  \/ ChangeSettings \/ LastPageCloses \/ Synchronise

Spec == Init /\ [][Next]_vars

(* The task runs and time passes, interrupts are served, an answer that is *)
(* sent arrives, and sensors go on announcing themselves while the station *)
(* can hear them.                                                          *)
Fairness ==
  /\ WF_vars(ChooseSleep \/ Wake \/ Look \/ Read \/ Exchange \/ OwnDone \/ TryUpdate \/ AnyDone
              \/ Schedule \/ Noise)
  /\ WF_vars(Isr) /\ WF_vars(AnswerReceived)
  /\ SF_vars(Passes) /\ SF_vars(NoAnswer) /\ SF_vars(Announce) /\ SF_vars(Forget)

FairSpec == Spec /\ Fairness

-----------------------------------------------------------------------------
Asleep == pc = "sleep" /\ ~notified

(* The wake-up of a packet is not lost in the masking and arming: when the *)
(* task sleeps on a packet, the interrupt will tell it.                    *)
NoLostWakeup == Asleep /\ Pin => enabled

(* The sleep the task chose is never longer than what the schedule would   *)
(* ask for at any moment of it.                                            *)
NeverOversleeps == Asleep /\ undisturbed => left <= NextDelay

(* A FLARM window is listened to in the very second it was promised for:   *)
(* the task does not sleep through its low slot on FANET, but for a unit   *)
(* when the clock was set or the settings changed after its last tick.     *)
WindowHeard ==
  Asleep /\ undisturbed /\ Situation = "windows" /\ Coming = "flarm" /\ owed = 0
    => ~(mode = "FANET" /\ InLowWindow /\ left > 1)

(* A configuration the backend was told is done was applied by the sensor, *)
(* unless the call had no nonce to tell another sensor's acknowledgement   *)
(* by.                                                                     *)
ConfirmedIsApplied == ~mistaken => 1..Configs \subseteq pending \cup applied

(* A pending configuration is applied in the end, whatever is lost on the  *)
(* way, as long as the sensor and the station go on hearing each other.    *)
ConfigDelivered ==
  []<>(mode = "FANET" /\ receiving /\ Current \in Near)
    => <>(applied = 1..Configs \/ mistaken)

=============================================================================
