---------------------------- MODULE FskSchedule ----------------------------
(***************************************************************************)
(* How the radio divides its time between FANET and the FSK protocols      *)
(* FLARM and ADS-L (flarm_scheduler_tick and flarm_scheduler_next_delay_ms *)
(* of components/bdgs/radio/bd_radio.cpp).  FLARM transmits in fixed       *)
(* windows of the UTC second, so with a valid clock a window begins at a   *)
(* moment of the second; ADS-L may be listened to at any time.             *)
(*                                                                         *)
(* Time is counted in units; the code's are milliseconds.  What the code   *)
(* keeps as moments, of millis() or of UTC, is kept here as the time since *)
(* or until then, up to a cap that no comparison tells from more.          *)
(*                                                                         *)
(* A definition named ...Mutant is what a slip in the code would make of   *)
(* the one after it; it is used nowhere.                                   *)
(***************************************************************************)
EXTENDS RadioIrq, Integers

CONSTANTS
  Second,        \* 1000 ms
  LowBegin,      \* FLARM_LOW_BEGIN_MS, 340
  HighBegin,     \* FLARM_HIGH_BEGIN_MS, 790
  WindowEnd,     \* FLARM_WINDOW_END_MS, 1260
  AdslChannel,   \* ADSL_CHANNEL_MS, 460; a window is two of them
  BlindLora,     \* FSK_BLIND_LORA_MS of the profile, 18000, 8000 or 200
  Periods,       \* the FSK_PERIOD_ array of the profile: three numbers of seconds
  Unbounded      \* UINT32_MAX

ASSUME ScheduleAssumption ==
  /\ {Second, LowBegin, HighBegin, WindowEnd, AdslChannel, BlindLora, Unbounded} \subseteq Nat \ {0}
  /\ LowBegin < HighBegin /\ HighBegin < Second
  /\ Second < WindowEnd /\ WindowEnd - Second < LowBegin
  /\ Periods \in [0..2 -> Nat \ {0}]
  /\ Unbounded > 2 * Second + BlindLora + AdslChannel

VARIABLES
  want,          \* the FSK protocols that are enabled, of "flarm" and "adsl"
  fanet,         \* fanet_enabled
  verbose,       \* "off", "flarm" or "adsl": the debug mode of flarm_ or adsl_verbose_ws
  valid,         \* the clock has seen NTP
  ms,            \* tv_usec / 1000; of millis() while the clock is not valid
  sec,           \* tv_sec modulo 4; not counted with FANET, when nothing looks at it
  toCycle,       \* fsk_next_cycle - tv_sec, 0 when that is past
  sinceAnchor,   \* millis() - fsk_anchor_ms
  anchorSecs,    \* tv_sec - fsk_anchor_sec
  sinceSwitch,   \* millis() - fsk_blind_switch_ms
  idx,           \* fsk_period_idx
  nextIsAdsl     \* fsk_next_is_adsl

settings == <<want, fanet, verbose>>
clock == <<valid, ms, sec>>
cycle == <<toCycle, sinceAnchor, anchorSecs, sinceSwitch, idx, nextIsAdsl>>

Least(a, b) == IF a < b THEN a ELSE b
Most(a, b) == IF a < b THEN b ELSE a
AnchorCap == Most(WindowEnd, 2 * AdslChannel)
SwitchCap == Most(BlindLora, Most(Second, AdslChannel))
LongestPeriod == Most(Periods[0], Most(Periods[1], Periods[2]))

ScheduleInit ==
  /\ valid = FALSE /\ ms = 0 /\ sec = 0
  /\ toCycle = 0 /\ idx = 0 /\ nextIsAdsl = FALSE
  /\ sinceAnchor = AnchorCap /\ anchorSecs = LongestPeriod /\ sinceSwitch = 0

ScheduleTypeOK ==
  /\ want \subseteq {"flarm", "adsl"} /\ fanet \in BOOLEAN /\ verbose \in {"off", "flarm", "adsl"}
  /\ valid \in BOOLEAN /\ ms \in 0..(Second - 1) /\ sec \in 0..3
  /\ toCycle \in 0..LongestPeriod /\ anchorSecs \in 0..LongestPeriod
  /\ sinceAnchor \in 0..AnchorCap /\ sinceSwitch \in 0..SwitchCap
  /\ idx \in 0..2 /\ nextIsAdsl \in BOOLEAN

(* One unit of time.                                                       *)
Unit ==
  /\ sinceAnchor' = Least(sinceAnchor + 1, AnchorCap)
  /\ sinceSwitch' = Least(sinceSwitch + 1, SwitchCap)
  /\ IF ms + 1 < Second
       THEN ms' = ms + 1 /\ UNCHANGED <<sec, toCycle, anchorSecs>>
       ELSE /\ ms' = 0 /\ sec' = IF fanet THEN sec ELSE (sec + 1) % 4
            /\ toCycle' = IF toCycle > 0 THEN toCycle - 1 ELSE 0
            /\ anchorSecs' = Least(anchorSecs + 1, LongestPeriod)
  /\ UNCHANGED <<settings, valid, idx, nextIsAdsl>>

(* Without an FSK protocol nothing looks at these times: they are not      *)
(* counted then, and are anything they may have become once one is wanted. *)
TimePasses == IF want = {} THEN UNCHANGED <<settings, clock, cycle>> ELSE Unit

AnyTime ==
  /\ ms' \in 0..(Second - 1) /\ sec' \in (IF fanet' THEN {0} ELSE 0..3)
  /\ toCycle' \in 0..toCycle /\ anchorSecs' \in anchorSecs..LongestPeriod
  /\ sinceAnchor' \in sinceAnchor..AnchorCap /\ sinceSwitch' \in sinceSwitch..SwitchCap
  /\ UNCHANGED <<valid, idx, nextIsAdsl>>

SetSettings(choice) ==
  /\ want' = choice.want /\ fanet' = choice.fanet /\ verbose' = choice.verbose
  /\ IF want = {} THEN AnyTime
     ELSE sec' \in (IF fanet' THEN {0} ELSE 0..3) /\ UNCHANGED <<valid, ms, cycle>>

(* The first answer of an NTP server, at any moment of the UTC second.     *)
ClockSet ==
  /\ ~valid /\ valid' = TRUE
  /\ IF want = {} THEN UNCHANGED <<ms, sec>>
     ELSE ms' \in 0..(Second - 1) /\ sec' \in (IF fanet THEN {0} ELSE 0..3)
  /\ UNCHANGED <<settings, cycle>>

-----------------------------------------------------------------------------
Flarm == {"FLARM_LOW", "FLARM_HIGH"}
Adsl == {"ADSL_LOW", "ADSL_HIGH"}
Low(protocol) == IF protocol = "adsl" THEN "ADSL_LOW" ELSE "FLARM_LOW"
High(protocol) == IF protocol = "adsl" THEN "ADSL_HIGH" ELSE "FLARM_HIGH"

(* The protocol the debug mode shows.                                      *)
Debugged == IF verbose = "adsl" /\ "adsl" \in want THEN "adsl" ELSE "flarm"

(* useAdsl: the protocol of the next window; with both they alternate.     *)
Coming == IF "adsl" \in want /\ ("flarm" \in want => nextIsAdsl) THEN "adsl" ELSE "flarm"

(* pickAdsl: without FANET each protocol has two seconds of four.          *)
Turn == IF want = {"flarm", "adsl"} THEN IF sec < 2 THEN "flarm" ELSE "adsl"
        ELSE IF "adsl" \in want THEN "adsl" ELSE "flarm"

HighSlot == ms >= HighBegin \/ ms < WindowEnd - Second
InLowWindow == LowBegin <= ms /\ ms < HighBegin
EndOf(m) == IF m \in Adsl THEN 2 * AdslChannel ELSE WindowEnd

Situation ==
  CASE want = {} -> "parked"
    [] want # {} /\ verbose # "off" -> "debug"
    [] want # {} /\ verbose = "off" /\ ~fanet -> "fsk only"
    [] want # {} /\ verbose = "off" /\ fanet /\ ~valid -> "blind"
    [] OTHER -> "windows"

-----------------------------------------------------------------------------
(* flarm_scheduler_tick: the mode it asks radio_set_mode for, and what it  *)
(* notes.  It notes it whether or not the radio takes the mode.            *)
Switched == sinceSwitch' = 0 /\ UNCHANGED <<toCycle, sinceAnchor, anchorSecs, idx, nextIsAdsl>>
Stay(target) == target = mode /\ UNCHANGED cycle

TickDebug(target) ==
  LET low == Low(Debugged)
      high == High(Debugged)
  IN  \/ mode \notin {low, high} /\ target = low /\ Switched
      \/ mode = low /\ sinceSwitch >= Second /\ target = high /\ Switched
      \/ mode = high /\ sinceSwitch >= Second /\ target = low /\ Switched
      \/ mode \in {low, high} /\ sinceSwitch < Second /\ Stay(target)

(* The two channels in turn, each for a time.                              *)
Sweep(protocol, length, target) ==
  IF sinceSwitch >= length \/ mode \notin {Low(protocol), High(protocol)}
    THEN target = (IF mode = Low(protocol) THEN High(protocol) ELSE Low(protocol)) /\ Switched
    ELSE Stay(target)

TickFskOnly(target) ==
  \/ Turn = "adsl" /\ Sweep("adsl", AdslChannel, target)
  \/ Turn = "flarm" /\ ~valid /\ Sweep("flarm", Second, target)
  \/ /\ Turn = "flarm" /\ valid /\ UNCHANGED cycle
     /\ target = IF HighSlot THEN "FLARM_HIGH" ELSE "FLARM_LOW"

TickBlind(target) ==
  \/ /\ mode = "FANET" /\ sinceSwitch >= BlindLora
     /\ target = Low(Coming) /\ Switched
  \/ /\ mode = Low(Coming) /\ sinceSwitch >= Second
     /\ target = High(Coming) /\ Switched
  \/ /\ mode \notin {"FANET", Low(Coming)} /\ sinceSwitch >= Second
     /\ target = "FANET" /\ nextIsAdsl' = ~nextIsAdsl
     /\ sinceSwitch' = 0 /\ UNCHANGED <<toCycle, sinceAnchor, anchorSecs, idx>>
  \/ /\ sinceSwitch < (IF mode = "FANET" THEN BlindLora ELSE Second)
     /\ Stay(target)

(* With a valid clock.  A FLARM window begins inside its low slot only.    *)
Opens == mode = "FANET" /\ toCycle = 0 /\ (Coming = "adsl" \/ InLowWindow)

OpenWindow(target) ==
  /\ Opens /\ target = Low(Coming)
  /\ sinceAnchor' = (IF Coming = "adsl" THEN 0 ELSE ms) /\ anchorSecs' = 0
  /\ UNCHANGED <<toCycle, sinceSwitch, idx, nextIsAdsl>>

HighDue == sinceAnchor >= (IF mode = "ADSL_LOW" THEN AdslChannel ELSE HighBegin)

GoHigh(target) ==
  /\ mode \in {"FLARM_LOW", "ADSL_LOW"} /\ HighDue
  /\ target = (IF mode = "ADSL_LOW" THEN "ADSL_HIGH" ELSE "FLARM_HIGH") /\ UNCHANGED cycle

EndDue == sinceAnchor >= EndOf(mode)

(* The next window counts from the second of this one, not from now.       *)
CloseWindowMutant(target) ==
  /\ mode \in {"FLARM_HIGH", "ADSL_HIGH"} /\ EndDue /\ target = "FANET"
  /\ toCycle' = Periods[idx]
  /\ idx' = (idx + 1) % 3 /\ nextIsAdsl' = ~nextIsAdsl
  /\ UNCHANGED <<sinceAnchor, anchorSecs, sinceSwitch>>

CloseWindow(target) ==
  /\ mode \in {"FLARM_HIGH", "ADSL_HIGH"} /\ EndDue /\ target = "FANET"
  /\ toCycle' = IF Periods[idx] > anchorSecs THEN Periods[idx] - anchorSecs ELSE 0
  /\ idx' = (idx + 1) % 3 /\ nextIsAdsl' = ~nextIsAdsl
  /\ UNCHANGED <<sinceAnchor, anchorSecs, sinceSwitch>>

TickWindows(target) ==
  \/ OpenWindow(target) \/ GoHigh(target) \/ CloseWindow(target)
  \/ mode = "FANET" /\ ~Opens /\ Stay(target)
  \/ mode \in {"FLARM_LOW", "ADSL_LOW"} /\ ~HighDue /\ Stay(target)
  \/ mode \in {"FLARM_HIGH", "ADSL_HIGH"} /\ ~EndDue /\ Stay(target)

Tick(target) ==
  \/ Situation = "parked" /\ target = "FANET" /\ UNCHANGED cycle
  \/ Situation = "debug" /\ TickDebug(target)
  \/ Situation = "fsk only" /\ TickFskOnly(target)
  \/ Situation = "blind" /\ TickBlind(target)
  \/ Situation = "windows" /\ TickWindows(target)

-----------------------------------------------------------------------------
(* flarm_scheduler_next_delay_ms                                           *)
Remaining(since, length) == IF since < length THEN length - since ELSE 1

DelayFskOnly ==
  IF mode \in Adsl THEN Remaining(sinceSwitch, AdslChannel)
  ELSE IF ~valid THEN Remaining(sinceSwitch, Second)
  ELSE IF ms < WindowEnd - Second THEN WindowEnd - Second - ms
  ELSE IF ms < HighBegin THEN HighBegin - ms
  ELSE WindowEnd - ms

DelayBlind == Remaining(sinceSwitch, IF mode = "FANET" THEN BlindLora ELSE Second)

(* Until the low slot opens, of the second the next window is due in; at   *)
(* least every second it looks again.                                      *)
DelayToWindowMutant ==
  IF toCycle > 0 THEN Least(toCycle * Second + LowBegin - ms, Second)
  ELSE IF InLowWindow THEN 1
  ELSE Second - ms + LowBegin

DelayToWindow ==
  IF toCycle > 0 THEN Least(toCycle * Second + LowBegin - ms, Second)
  ELSE IF ms < LowBegin THEN LowBegin - ms
  ELSE IF ms < HighBegin THEN 1
  ELSE Second - ms + LowBegin

DelayWindows ==
  CASE mode = "FANET" -> DelayToWindow
    [] mode = "FLARM_LOW" -> Remaining(sinceAnchor, HighBegin)
    [] mode = "ADSL_LOW" -> Remaining(sinceAnchor, AdslChannel)
    [] OTHER -> Remaining(sinceAnchor, EndOf(mode))

NextDelay ==
  CASE Situation = "parked" -> Unbounded
    [] Situation = "debug" -> Remaining(sinceSwitch, Second)
    [] Situation = "fsk only" -> DelayFskOnly
    [] Situation = "blind" -> DelayBlind
    [] OTHER -> DelayWindows
=============================================================================
