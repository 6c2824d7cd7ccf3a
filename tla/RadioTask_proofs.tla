-------------------------- MODULE RadioTask_proofs --------------------------
(***************************************************************************)
(* Proofs about RadioTask, for any lengths of the second and its windows,  *)
(* any settings and any number of configurations and events.               *)
(***************************************************************************)
EXTENDS RadioTask, WellFoundedInduction, TLAPS

(* Only the interrupt and a transmission mask the line, and both leave a   *)
(* notification behind.                                                    *)
Armed == pc = "sleep" => enabled \/ notified

LEMMA ArmedStep ==
  ASSUME Armed, [Next]_vars
  PROVE  Armed'
<1> USE DEF Armed
<1>1. CASE ChooseSleep
  BY <1>1 DEF ChooseSleep, Arm
<1>2. CASE Wake \/ Look \/ Read \/ OwnDone \/ AnyDone \/ Schedule \/ Noise
  BY <1>2 DEF Wake, Look, Read, OwnDone, AnyDone, Schedule, Noise
<1>3. CASE Exchange \/ NoAnswer \/ TryUpdate
  BY <1>3 DEF Exchange, NoAnswer, TryUpdate, taskVars
<1>4. CASE Isr
  BY <1>4 DEF Isr, Dio1Isr, Elsewhere, taskVars
<1>5. CASE OtherArrives \/ AnswerReceived \/ Announce
  BY <1>5 DEF OtherArrives, AnswerReceived, AnswerArrives, Announce, Arrive, Elsewhere, taskVars,
    irqVars
<1>6. CASE \/ Passes \/ Forget \/ ChangeSettings \/ LastPageCloses \/ Synchronise
           \/ UNCHANGED vars
  BY <1>6 DEF Passes, Forget, ChangeSettings, LastPageCloses, Synchronise, Elsewhere, taskVars,
    irqVars, vars
<1>7. QED
  BY <1>1, <1>2, <1>3, <1>4, <1>5, <1>6 DEF Next

(* A task that sleeps on a packet will be told of it (dio1_isr and         *)
(* RadioIrqFlag).                                                          *)
THEOREM PacketWakes == Spec => []NoLostWakeup
<1>1. Init => Armed
  BY DEF Init, Armed
<1>2. Armed /\ [Next]_vars => Armed'
  BY ArmedStep
<1>3. Armed => NoLostWakeup
  BY DEF Armed, NoLostWakeup, Asleep
<1>4. QED BY <1>1, <1>2, <1>3, PTL DEF Spec

-----------------------------------------------------------------------------
(* The acknowledgement that is awaited, in the air or in the transceiver,  *)
(* is for the configuration in hand; what is confirmed was applied.        *)
Acknowledged ==
  /\ step \in {"await", "read"} /\ "ack" \in {answer, inbox} => current \in applied
  /\ step = "confirm" => current \in applied \/ mistaken

Confirmed == ConfirmedIsApplied /\ Acknowledged

(* Each step of the exchange keeps this.                                   *)
LEMMA ExchangeStep ==
  ASSUME Confirmed, ProcessConfigUpdate
  PROVE  Confirmed'
<1> USE DEF Confirmed, ConfirmedIsApplied, Acknowledged
<1>1. CASE Query
  BY <1>1 DEF Query, backend, sensor
<1>2. CASE Transmit
  <2>1. CASE Transmitted
    <3>1. /\ inbox' = "none" /\ step' = "await" /\ applied \subseteq applied'
          /\ answer' = "ack" => current \in applied'
      BY <2>1 DEF Transmitted, TxDone, StartReceive, Reaches
    <3>2. UNCHANGED <<current, mistaken, pending>>
      BY <1>2 DEF Transmit, backend
    <3>3. QED BY <3>1, <3>2
  <2>2. CASE TransmitFailed
    BY <1>2, <2>2 DEF Transmit, TransmitFailed, backend, sensor
  <2>3. QED BY <1>2, <2>1, <2>2 DEF Transmit
<1>3. CASE AwaitFlag
  BY <1>3 DEF AwaitFlag, backend, sensor, radioVars
<1>4. CASE AwaitRead
  <2>1. /\ step = "read" /\ inbox' = "none"
        /\ UNCHANGED <<current, pending, applied, answer>>
        /\ step' = IF inbox \in {"ack", "foreign"} \cap Awaited THEN "confirm"
                   ELSE IF inbox = "nack" THEN "idle" ELSE "await"
        /\ mistaken' = (mistaken \/ (step' = "confirm" /\ inbox = "foreign" /\ call = "any"))
    BY <1>4 DEF AwaitRead, backend, sensor
  <2>2. CASE inbox = "ack"
    BY <2>1, <2>2
  <2>3. CASE inbox = "foreign" /\ call = "any"
    BY <2>1, <2>3
  <2>4. CASE inbox # "ack" /\ ~(inbox = "foreign" /\ call = "any")
    <3>1. inbox \notin {"ack", "foreign"} \cap Awaited
      BY <2>4 DEF Awaited
    <3>2. QED BY <2>1, <3>1
  <2>5. QED BY <2>2, <2>3, <2>4
<1>5. CASE Confirm
  BY <1>5 DEF Confirm, sensor
<1>6. CASE Pause
  BY <1>6 DEF Pause, backend, sensor
<1>7. QED
  BY <1>1, <1>2, <1>3, <1>4, <1>5, <1>6 DEF ProcessConfigUpdate

LEMMA ConfirmedStep ==
  ASSUME Confirmed, [Next]_vars
  PROVE  Confirmed'
<1>1. CASE Exchange
  BY <1>1, ExchangeStep DEF Exchange
<1> USE DEF Confirmed, ConfirmedIsApplied, Acknowledged
<1>2. CASE NoAnswer
  BY <1>2 DEF NoAnswer, AwaitTimeout, Leave, backend, sensor
<1>3. CASE Read
  BY <1>3 DEF Read, StartReceive, Call, exchange, backend
<1>4. CASE TryUpdate
  BY <1>4 DEF TryUpdate, Call, backend
<1>5. CASE OwnDone \/ AnyDone
  BY <1>5 DEF OwnDone, AnyDone, backend
<1>6. CASE AnswerReceived
  BY <1>6 DEF AnswerReceived, AnswerArrives, Arrive, exchange, backend
<1>7. CASE OtherArrives \/ Announce
  BY <1>7 DEF OtherArrives, Announce, Arrive, configVars, exchange, backend, sensor
<1>8. CASE Forget
  BY <1>8 DEF Forget, backend, sensor, radioVars
<1>9. CASE Schedule
  <2>1. UNCHANGED <<step, current, mistaken, pending, applied, answer>>
    BY <1>9 DEF Schedule, configVars, exchange, backend, sensor
  <2>2. inbox' \in {inbox, "none"}
    BY <1>9 DEF Schedule, SetMode, Applied, NotApplied, StartReceive, radioVars
  <2>3. QED BY <2>1, <2>2
<1>10. CASE ChooseSleep \/ Wake \/ Look \/ Noise \/ Passes \/ Isr
  BY <1>10 DEF ChooseSleep, Wake, Look, Noise, Passes, Isr, Dio1Isr, configVars, exchange, backend,
    sensor, radioVars
<1>11. CASE ChangeSettings \/ LastPageCloses \/ Synchronise \/ UNCHANGED vars
  BY <1>11 DEF ChangeSettings, LastPageCloses, Synchronise, vars, configVars, exchange, backend,
    sensor, radioVars
<1>12. QED
  BY <1>1, <1>2, <1>3, <1>4, <1>5, <1>6, <1>7, <1>8, <1>9, <1>10, <1>11 DEF Next

(* A configuration is confirmed to the backend only when the sensor has    *)
(* applied it (processConfigUpdate), but for an acknowledgement without a  *)
(* nonce to check.                                                         *)
THEOREM ConfirmsWhatIsApplied == Spec => []ConfirmedIsApplied
<1>1. Init => Confirmed
  BY DEF Init, ConfigInit, Confirmed, ConfirmedIsApplied, Acknowledged
<1>2. Confirmed /\ [Next]_vars => Confirmed'
  BY ConfirmedStep
<1>3. Confirmed => ConfirmedIsApplied
  BY DEF Confirmed
<1>4. QED BY <1>1, <1>2, <1>3, PTL DEF Spec
-----------------------------------------------------------------------------
(* The ranges of the times the delay is computed from.                     *)
Times ==
  /\ ms \in 0..(Second - 1) /\ idx \in 0..2
  /\ toCycle \in Nat /\ sinceAnchor \in Nat /\ anchorSecs \in Nat /\ sinceSwitch \in Nat

LEMMA Bounds == AnchorCap \in Nat /\ SwitchCap \in Nat /\ LongestPeriod \in Nat
BY ScheduleAssumption DEF AnchorCap, SwitchCap, LongestPeriod, Most

(* A length of time runs down no faster than the time passes.              *)
LEMMA RemainingFalls ==
  ASSUME NEW s \in Nat, NEW t \in Nat, NEW length \in Nat \ {0}, t <= s + 1
  PROVE  Remaining(t, length) >= Remaining(s, length) - 1
BY DEF Remaining

LEMMA UnitTimes ==
  ASSUME Times, Unit
  PROVE  /\ Times'
         /\ sinceAnchor' <= sinceAnchor + 1 /\ sinceSwitch' <= sinceSwitch + 1
         /\ \/ ms' = ms + 1 /\ toCycle' = toCycle
            \/ ms = Second - 1 /\ ms' = 0 /\ toCycle' = IF toCycle > 0 THEN toCycle - 1 ELSE 0
<1>1. /\ Second \in Nat /\ Second > 0
      /\ AnchorCap \in Nat /\ SwitchCap \in Nat /\ LongestPeriod \in Nat
  BY Bounds, ScheduleAssumption
<1>2. /\ sinceAnchor' = Least(sinceAnchor + 1, AnchorCap)
      /\ sinceSwitch' = Least(sinceSwitch + 1, SwitchCap) /\ idx' = idx
  BY DEF Unit
<1>3. /\ sinceAnchor' \in Nat /\ sinceSwitch' \in Nat
      /\ sinceAnchor' <= sinceAnchor + 1 /\ sinceSwitch' <= sinceSwitch + 1
  BY <1>1, <1>2 DEF Times, Least
<1>4. CASE ms + 1 < Second
  BY <1>1, <1>2, <1>3, <1>4 DEF Unit, Times
<1>5. CASE ~(ms + 1 < Second)
  <2>1. /\ ms = Second - 1 /\ ms' = 0 /\ toCycle' = IF toCycle > 0 THEN toCycle - 1 ELSE 0
        /\ anchorSecs' = Least(anchorSecs + 1, LongestPeriod)
    BY <1>1, <1>5 DEF Unit, Times
  <2>2. anchorSecs' \in Nat
    BY <1>1, <2>1 DEF Times, Least
  <2>3. QED BY <1>1, <1>2, <1>3, <2>1, <2>2 DEF Times
<1>6. QED BY <1>4, <1>5

LEMMA Seconds ==
  ASSUME NEW n \in Nat
  PROVE  /\ n * Second \in Nat
         /\ n > 0 => n * Second >= Second /\ (n - 1) * Second = n * Second - Second
<1>1. Second \in Nat
  BY ScheduleAssumption
<1>2. (n - 1) * Second = n * Second - Second
  BY <1>1
<1>3. n * Second \in Nat
  BY <1>1
<1>4. n > 0 => (n - 1) * Second \in Nat
  BY <1>1
<1>5. QED BY <1>1, <1>2, <1>3, <1>4

(* The time to the next window, likewise.                                  *)
LEMMA WindowNears ==
  ASSUME Times, Unit
  PROVE  /\ DelayToWindow \in Int /\ DelayToWindow' \in Int
         /\ DelayToWindow' >= DelayToWindow - 1
<1> DEFINE away == toCycle * Second
           later == toCycle' * Second
<1>1. /\ Second \in Nat /\ LowBegin \in Nat /\ HighBegin \in Nat
      /\ 0 < LowBegin /\ LowBegin < HighBegin /\ HighBegin < Second
  BY ScheduleAssumption
<1>2. /\ ms \in 0..(Second - 1) /\ ms' \in 0..(Second - 1) /\ toCycle \in Nat /\ toCycle' \in Nat
      /\ \/ ms' = ms + 1 /\ toCycle' = toCycle
         \/ ms = Second - 1 /\ ms' = 0 /\ toCycle' = IF toCycle > 0 THEN toCycle - 1 ELSE 0
  BY UnitTimes DEF Times
<1>3. /\ away \in Nat /\ later \in Nat
      /\ toCycle > 0 => away >= Second
      /\ toCycle' > 0 => later >= Second
      /\ toCycle' = toCycle => later = away
      /\ toCycle > 0 /\ toCycle' = toCycle - 1 => later = away - Second
  BY <1>1, <1>2, Seconds
<1>3a. toCycle = 1 => away = Second
  BY <1>1
<1>4. DelayToWindow = IF toCycle > 0 THEN Least(away + LowBegin - ms, Second)
                      ELSE IF ms < LowBegin THEN LowBegin - ms
                      ELSE IF ms < HighBegin THEN 1
                      ELSE Second - ms + LowBegin
  BY DEF DelayToWindow
<1>5. DelayToWindow' = IF toCycle' > 0 THEN Least(later + LowBegin - ms', Second)
                       ELSE IF ms' < LowBegin THEN LowBegin - ms'
                       ELSE IF ms' < HighBegin THEN 1
                       ELSE Second - ms' + LowBegin
  BY DEF DelayToWindow
<1> HIDE DEF away, later
<1>6. CASE ms' = ms + 1 /\ toCycle' = toCycle
  BY <1>1, <1>2, <1>3, <1>4, <1>5, <1>6 DEF Least
<1>7. CASE /\ ms = Second - 1 /\ ms' = 0
           /\ toCycle' = IF toCycle > 0 THEN toCycle - 1 ELSE 0
  BY <1>1, <1>2, <1>3, <1>3a, <1>4, <1>5, <1>7 DEF Least
<1>8. QED BY <1>2, <1>6, <1>7

(* What the schedule asks for falls no faster than the time passes.        *)
LEMMA DelayFalls ==
  ASSUME Times, Unit, mode' = mode
  PROVE  /\ NextDelay \in Int /\ NextDelay' \in Int
         /\ NextDelay' >= NextDelay - 1
<1>1. /\ Second \in Nat \ {0} /\ LowBegin \in Nat \ {0} /\ HighBegin \in Nat \ {0}
      /\ WindowEnd \in Nat \ {0} /\ AdslChannel \in Nat \ {0} /\ BlindLora \in Nat \ {0}
      /\ Unbounded \in Nat
      /\ LowBegin < HighBegin /\ HighBegin < Second /\ Second < WindowEnd
      /\ WindowEnd - Second < LowBegin
  BY ScheduleAssumption
<1>2. /\ ms \in 0..(Second - 1) /\ ms' \in 0..(Second - 1)
      /\ ms' = ms + 1 \/ (ms = Second - 1 /\ ms' = 0)
      /\ sinceAnchor \in Nat /\ sinceAnchor' \in Nat /\ sinceAnchor' <= sinceAnchor + 1
      /\ sinceSwitch \in Nat /\ sinceSwitch' \in Nat /\ sinceSwitch' <= sinceSwitch + 1
  BY UnitTimes DEF Times
<1>3. want' = want /\ fanet' = fanet /\ verbose' = verbose /\ valid' = valid
  BY DEF Unit, settings
<1>4. \A length \in Nat \ {0} :
        /\ Remaining(sinceSwitch, length) \in Int /\ Remaining(sinceSwitch', length) \in Int
        /\ Remaining(sinceSwitch', length) >= Remaining(sinceSwitch, length) - 1
        /\ Remaining(sinceAnchor, length) \in Int /\ Remaining(sinceAnchor', length) \in Int
        /\ Remaining(sinceAnchor', length) >= Remaining(sinceAnchor, length) - 1
  <2> SUFFICES ASSUME NEW length \in Nat \ {0}
               PROVE  /\ Remaining(sinceSwitch, length) \in Int
                      /\ Remaining(sinceSwitch', length) \in Int
                      /\ Remaining(sinceSwitch', length) >= Remaining(sinceSwitch, length) - 1
                      /\ Remaining(sinceAnchor, length) \in Int
                      /\ Remaining(sinceAnchor', length) \in Int
                      /\ Remaining(sinceAnchor', length) >= Remaining(sinceAnchor, length) - 1
    OBVIOUS
  <2>1. \A s \in Nat : Remaining(s, length) \in Int
    BY DEF Remaining
  <2>2. QED BY <1>2, <2>1, RemainingFalls
<1>5. /\ DelayFskOnly \in Int /\ DelayFskOnly' \in Int
      /\ DelayFskOnly' >= DelayFskOnly - 1
  <2>1. CASE mode \in Adsl
    BY <1>1, <1>4, <2>1 DEF DelayFskOnly
  <2>2. CASE mode \notin Adsl /\ ~valid
    BY <1>1, <1>3, <1>4, <2>2 DEF DelayFskOnly
  <2>3. CASE mode \notin Adsl /\ valid
    <3>1. DelayFskOnly = IF ms < WindowEnd - Second THEN WindowEnd - Second - ms
                         ELSE IF ms < HighBegin THEN HighBegin - ms
                         ELSE WindowEnd - ms
      BY <2>3 DEF DelayFskOnly
    <3>2. DelayFskOnly' = IF ms' < WindowEnd - Second THEN WindowEnd - Second - ms'
                          ELSE IF ms' < HighBegin THEN HighBegin - ms'
                          ELSE WindowEnd - ms'
      BY <1>3, <2>3 DEF DelayFskOnly
    <3>3. CASE ms' = ms + 1
      BY <1>1, <1>2, <3>1, <3>2, <3>3
    <3>4. CASE ms = Second - 1 /\ ms' = 0
      <4>1. DelayFskOnly = WindowEnd - ms /\ DelayFskOnly' = WindowEnd - Second
        BY <1>1, <1>2, <3>1, <3>2, <3>4
      <4>2. QED BY <1>1, <3>4, <4>1
    <3>5. QED BY <1>2, <3>3, <3>4
  <2>4. QED BY <2>1, <2>2, <2>3
<1>6. /\ DelayBlind \in Int /\ DelayBlind' \in Int
      /\ DelayBlind' >= DelayBlind - 1
  BY <1>1, <1>4 DEF DelayBlind
<1>7. /\ DelayWindows \in Int /\ DelayWindows' \in Int
      /\ DelayWindows' >= DelayWindows - 1
  <2>1. CASE mode = "FANET"
    BY <2>1, WindowNears DEF DelayWindows
  <2>2. CASE mode = "FLARM_LOW"
    BY <1>1, <1>4, <2>2 DEF DelayWindows
  <2>3. CASE mode = "ADSL_LOW"
    BY <1>1, <1>4, <2>3 DEF DelayWindows
  <2>4. CASE mode \notin {"FANET", "FLARM_LOW", "ADSL_LOW"}
    <3>1. EndOf(mode) \in Nat \ {0}
      BY <1>1 DEF EndOf
    <3>2. DelayWindows = Remaining(sinceAnchor, EndOf(mode))
      BY <2>4 DEF DelayWindows
    <3>3. DelayWindows' = Remaining(sinceAnchor', EndOf(mode))
      BY <2>4 DEF DelayWindows
    <3>4. QED BY <1>4, <3>1, <3>2, <3>3
  <2>5. QED BY <2>1, <2>2, <2>3, <2>4
<1>8. Situation' = Situation
  BY <1>3 DEF Situation
<1>9. CASE Situation = "parked"
  BY <1>1, <1>8, <1>9 DEF NextDelay
<1>10. CASE Situation = "debug"
  BY <1>1, <1>4, <1>8, <1>10 DEF NextDelay
<1>11. CASE Situation = "fsk only"
  BY <1>5, <1>8, <1>11 DEF NextDelay
<1>12. CASE Situation = "blind"
  BY <1>6, <1>8, <1>12 DEF NextDelay
<1>13. CASE Situation \notin {"parked", "debug", "fsk only", "blind"}
  BY <1>7, <1>8, <1>13 DEF NextDelay
<1>14. QED BY <1>9, <1>10, <1>11, <1>12, <1>13

(* The delay depends on these only.                                        *)
LEMMA DelayStays ==
  ASSUME UNCHANGED <<mode, settings, clock, cycle>>
  PROVE  NextDelay' = NextDelay
<1>1. /\ mode' = mode /\ want' = want /\ fanet' = fanet /\ verbose' = verbose /\ valid' = valid
      /\ ms' = ms /\ toCycle' = toCycle /\ sinceAnchor' = sinceAnchor /\ sinceSwitch' = sinceSwitch
  BY DEF settings, clock, cycle
<1>2. DelayToWindow' = DelayToWindow
  BY <1>1 DEF DelayToWindow, InLowWindow
<1>3. DelayWindows' = DelayWindows
  BY <1>1, <1>2 DEF DelayWindows
<1>4. DelayFskOnly' = DelayFskOnly /\ DelayBlind' = DelayBlind /\ Situation' = Situation
  BY <1>1 DEF DelayFskOnly, DelayBlind, Situation
<1>5. QED BY <1>1, <1>3, <1>4 DEF NextDelay

(* No delay is below zero.                                                 *)
LEMMA DelayIsNat ==
  ASSUME Times
  PROVE  NextDelay \in Nat
<1>1. /\ Second \in Nat \ {0} /\ LowBegin \in Nat /\ HighBegin \in Nat
      /\ WindowEnd \in Nat \ {0} /\ AdslChannel \in Nat \ {0} /\ BlindLora \in Nat \ {0}
      /\ Unbounded \in Nat
      /\ HighBegin < Second /\ Second < WindowEnd
      /\ ms \in Nat /\ ms < Second /\ sinceAnchor \in Nat /\ sinceSwitch \in Nat
      /\ toCycle \in Nat
  BY ScheduleAssumption DEF Times
<1>2. \A s, length \in Nat : Remaining(s, length) \in Nat
  BY DEF Remaining
<1>3. DelayToWindow \in Nat
  <2> DEFINE away == toCycle * Second
  <2>1. away \in Nat /\ (toCycle > 0 => away >= Second)
    BY <1>1, Seconds
  <2>2. DelayToWindow = IF toCycle > 0 THEN Least(away + LowBegin - ms, Second)
                        ELSE IF ms < LowBegin THEN LowBegin - ms
                        ELSE IF ms < HighBegin THEN 1
                        ELSE Second - ms + LowBegin
    BY DEF DelayToWindow
  <2> HIDE DEF away
  <2>3. QED BY <1>1, <2>1, <2>2 DEF Least
<1>4. DelayWindows \in Nat
  <2>1. EndOf(mode) \in Nat
    BY <1>1 DEF EndOf
  <2>2. QED BY <1>1, <1>2, <1>3, <2>1 DEF DelayWindows
<1>5. DelayFskOnly \in Nat /\ DelayBlind \in Nat
  <2>1. /\ Remaining(sinceSwitch, AdslChannel) \in Nat /\ Remaining(sinceSwitch, Second) \in Nat
        /\ Remaining(sinceSwitch, BlindLora) \in Nat
    BY <1>1, <1>2
  <2>2. /\ WindowEnd - ms \in Nat
        /\ ms < WindowEnd - Second => WindowEnd - Second - ms \in Nat
        /\ ms < HighBegin => HighBegin - ms \in Nat
    BY <1>1
  <2>3. QED BY <2>1, <2>2 DEF DelayFskOnly, DelayBlind
<1>6. CASE Situation \in {"parked", "debug", "fsk only", "blind"}
  <2>1. Remaining(sinceSwitch, Second) \in Nat /\ Unbounded \in Nat
    BY <1>1, <1>2
  <2>2. QED BY <1>5, <1>6, <2>1 DEF NextDelay
<1>7. CASE Situation \notin {"parked", "debug", "fsk only", "blind"}
  BY <1>4, <1>7 DEF NextDelay
<1>8. QED BY <1>6, <1>7

(* The tick notes only times in range.                                     *)
LEMMA TickTimes ==
  ASSUME Times, NEW target, Tick(target), UNCHANGED clock
  PROVE  Times'
<1> DEFINE Same == UNCHANGED <<toCycle, sinceAnchor, anchorSecs, idx>>
<1>1. ms' \in 0..(Second - 1) /\ ms \in Nat /\ 0 \in Nat
  BY ScheduleAssumption DEF Times, clock
<1>2. CASE Situation # "windows"
  <2>1. Same /\ sinceSwitch' \in {sinceSwitch, 0}
    BY <1>2 DEF Tick, TickDebug, TickFskOnly, TickBlind, Sweep, Switched, Stay, cycle, Situation
  <2>2. QED BY <1>1, <2>1 DEF Times
<1>3. CASE Situation = "windows"
  <2>1. TickWindows(target)
    BY <1>3 DEF Tick
  <2>2. CASE OpenWindow(target)
    BY <1>1, <2>2 DEF OpenWindow, Times
  <2>3. CASE CloseWindow(target)
    <3>1. Periods[idx] \in Nat /\ anchorSecs \in Nat
      BY ScheduleAssumption DEF Times
    <3>2. toCycle' \in Nat /\ idx' \in 0..2
      BY <2>3, <3>1 DEF CloseWindow, Times
    <3>3. QED BY <1>1, <2>3, <3>2 DEF CloseWindow, Times
  <2>4. CASE UNCHANGED cycle
    BY <1>1, <2>4 DEF Times, cycle
  <2>5. QED
    BY <2>1, <2>2, <2>3, <2>4 DEF TickWindows, GoHigh, Stay
<1>4. QED BY <1>2, <1>3

(* Settings and clock are set to times in range.                           *)
LEMMA SetTimes ==
  ASSUME Times, (\E c : SetSettings(c)) \/ ClockSet
  PROVE  Times'
<1>1. AnchorCap \in Nat /\ SwitchCap \in Nat /\ LongestPeriod \in Nat
  BY Bounds
<1>2. CASE ClockSet
  BY <1>2 DEF ClockSet, Times, cycle
<1>3. CASE \E c : SetSettings(c)
  <2>1. CASE AnyTime
    BY <1>1, <2>1 DEF AnyTime, Times
  <2>2. CASE UNCHANGED <<ms, cycle>>
    BY <2>2 DEF Times, cycle
  <2>3. QED BY <1>3, <2>1, <2>2 DEF SetSettings
<1>4. QED BY <1>2, <1>3

Punctual == Times /\ (pc = "sleep" => left \in Int) /\ NeverOversleeps

LEMMA PunctualStep ==
  ASSUME Punctual, [Next]_vars
  PROVE  Punctual'
<1>1. CASE ChooseSleep
  <2>1. /\ UNCHANGED <<mode, settings, clock, cycle>>
        /\ left' \in {LongestSleep} \cup {n \in CopyWindows : n < LongestSleep}
    BY <1>1 DEF ChooseSleep, radioVars
  <2>2. NextDelay' = NextDelay /\ NextDelay \in Int
    BY <2>1, DelayStays, DelayIsNat DEF Punctual
  <2>3. LongestSleep \in Int /\ LongestSleep <= NextDelay'
    BY <2>2, TaskAssumption, ScheduleAssumption DEF LongestSleep
  <2>4. left' \in Int /\ left' <= NextDelay'
    BY <2>1, <2>2, <2>3, TaskAssumption
  <2>5. QED BY <2>1, <2>4 DEF Punctual, Times, NeverOversleeps, clock, cycle
<1>2. CASE Passes
  <2>1. CASE want = {}
    <3>1. UNCHANGED <<mode, settings, clock, cycle>> /\ NextDelay' = NextDelay /\ NextDelay \in Int
      BY <1>2, <2>1, DelayStays, DelayIsNat DEF Punctual, Passes, TimePasses, radioVars
    <3>2. pc' = "sleep" => left' = left - 1 /\ pc = "sleep"
      BY <1>2 DEF Passes, PassesAsleep, PassesInExchange
    <3>3. QED
      BY <1>2, <3>1, <3>2 DEF Punctual, NeverOversleeps, Asleep, Times, Passes, irqVars,
        clock, cycle
  <2>2. CASE want # {}
    <3>1. Unit /\ mode' = mode /\ UNCHANGED <<notified, undisturbed>>
      BY <1>2, <2>2 DEF Passes, TimePasses, radioVars, irqVars
    <3>2. pc' = "sleep" => left' = left - 1 /\ pc = "sleep"
      BY <1>2 DEF Passes, PassesAsleep, PassesInExchange
    <3>3. NextDelay \in Int /\ NextDelay' \in Int /\ NextDelay' >= NextDelay - 1 /\ Times'
      BY <3>1, DelayFalls, UnitTimes DEF Punctual
    <3>4. QED BY <3>1, <3>2, <3>3 DEF Punctual, NeverOversleeps, Asleep
  <2>3. QED BY <2>1, <2>2
<1>3. CASE Schedule
  <2>1. PICK target \in Modes : Tick(target)
    BY <1>3 DEF Schedule
  <2>2. Times'
    BY <1>3, <2>1, TickTimes DEF Schedule, Punctual
  <2>3. pc' = "noise"
    BY <1>3 DEF Schedule
  <2>4. QED BY <2>2, <2>3 DEF Punctual, NeverOversleeps, Asleep
<1>4. CASE ChangeSettings \/ LastPageCloses \/ Synchronise
  <2>1. Times'
    BY <1>4, SetTimes DEF ChangeSettings, LastPageCloses, Synchronise, Punctual
  <2>2. undisturbed' = FALSE /\ pc' = pc /\ left' = left
    BY <1>4 DEF ChangeSettings, LastPageCloses, Synchronise, taskVars
  <2>3. QED BY <2>1, <2>2 DEF Punctual, NeverOversleeps
<1>5. CASE Wake \/ Look \/ Read \/ Exchange \/ NoAnswer \/ OwnDone \/ TryUpdate \/ AnyDone \/ Noise
  <2>1. UNCHANGED <<clock, cycle>> /\ pc' # "sleep"
    BY <1>5 DEF Wake, Look, Read, Exchange, NoAnswer, OwnDone, TryUpdate, AnyDone, Noise, taskVars
  <2>2. QED BY <2>1 DEF Punctual, NeverOversleeps, Asleep, Times, clock, cycle
<1>6. CASE Isr \/ OtherArrives \/ AnswerReceived \/ Announce \/ Forget \/ UNCHANGED vars
  <2>1. /\ UNCHANGED <<mode, settings, clock, cycle, pc, left, undisturbed>>
        /\ notified' \in {notified, TRUE}
    BY <1>6 DEF Isr, Dio1Isr, OtherArrives, AnswerReceived, AnswerArrives, Announce, Forget, Arrive,
      Elsewhere, vars, radioVars, irqVars, taskVars
  <2>2. NextDelay' = NextDelay
    BY <2>1, DelayStays
  <2>3. QED BY <2>1, <2>2 DEF Punctual, NeverOversleeps, Asleep, Times, clock, cycle
<1>7. QED
  BY <1>1, <1>2, <1>3, <1>4, <1>5, <1>6 DEF Next

(* The radio task never sleeps longer than the schedule would ask for at   *)
(* any moment of that sleep (flarm_scheduler_next_delay_ms), unless the    *)
(* clock was set meanwhile, which does not wake it.                        *)
THEOREM SleepsNoLonger == Spec => []NeverOversleeps
<1>1. Init => Punctual
  BY Bounds, ScheduleAssumption DEF Init, ScheduleInit, Punctual, Times, NeverOversleeps, Asleep
<1>2. Punctual /\ [Next]_vars => Punctual'
  BY PunctualStep
<1>3. Punctual => NeverOversleeps
  BY DEF Punctual
<1>4. QED BY <1>1, <1>2, <1>3, PTL DEF Spec
-----------------------------------------------------------------------------
(* A set of numbers has a least one.                                       *)
LEMMA HasLeast ==
  ASSUME NEW S \in SUBSET Nat, S # {}
  PROVE  \E i \in S : \A j \in S : i <= j
<1> DEFINE R == OpToRel(<, Nat)
<1>1. PICK x \in S : \A y \in S : <<y, x>> \notin R
  <2>1. IsWellFoundedOn(R, Nat)
    BY NatLessThanWellFounded
  <2> HIDE DEF R
  <2>2. QED BY <2>1, WFMin
<1>2. R = {ss \in Nat \X Nat : ss[1] < ss[2]}
  BY Zenon DEF OpToRel
<1> HIDE DEF R
<1>3. ASSUME NEW y \in S
      PROVE  x <= y
  <2>1. <<y, x>> \in Nat \X Nat /\ <<y, x>> \notin R
    BY <1>1
  <2>2. ~(y < x)
    BY <1>2, <2>1
  <2>3. QED BY <2>2
<1>4. QED BY <1>3

(* The types.  A step of the exchange keeps those of the radio and of the  *)
(* configurations.                                                         *)
LEMMA EventTypes ==
  ASSUME events \in Nat, NEW kind, Event(kind)
  PROVE  events' \in Nat
BY DEF Event

LEMMA ExchangeRadioTypes ==
  ASSUME RadioTypeOK, ProcessConfigUpdate \/ AwaitTimeout
  PROVE  RadioTypeOK'
<1>1. events' \in Nat
  BY EventTypes DEF RadioTypeOK, ProcessConfigUpdate, Query, Transmit, Transmitted, Reaches,
    TransmitFailed, AwaitFlag, AwaitRead, Confirm, Pause, AwaitTimeout
<1>2. CASE Query \/ Confirm \/ Pause \/ AwaitTimeout
  BY <1>1, <1>2 DEF Query, Confirm, Pause, AwaitTimeout, RadioTypeOK, radioVars, irqVars
<1>3. CASE Transmit
  BY <1>1, <1>3 DEF Transmit, Transmitted, TransmitFailed, TxDone, ClearFlag, StartReceive,
    RadioTypeOK, irqVars
<1>4. CASE AwaitFlag
  BY <1>1, <1>4 DEF AwaitFlag, TakeFlag, ClearFlag, LookAgain, Arm, Pin, RadioTypeOK, radioVars
<1>5. CASE AwaitRead
  BY <1>1, <1>5 DEF AwaitRead, RadioTypeOK, irqVars
<1>6. QED BY <1>2, <1>3, <1>4, <1>5 DEF ProcessConfigUpdate

(* A round begins only while some are left, and what is transmitted is one *)
(* of the configurations.                                                  *)
Rounds ==
  /\ step = "query" => round < MaxRounds
  /\ step = "transmit" => current \in 1..Configs

LEMMA ExchangeConfigTypes ==
  ASSUME ConfigTypeOK, Rounds, ProcessConfigUpdate \/ AwaitTimeout
  PROVE  ConfigTypeOK' /\ Rounds'
<1> USE DEF ConfigTypeOK, Rounds, Steps
<1>1. CASE Query
  <2>1. round' \in 0..MaxRounds
    BY <1>1, ConfigAssumption DEF Query
  <2>2. CASE pending # {} /\ step' = "transmit"
    <3>1. current' = CHOOSE c \in pending : \A d \in pending : c <= d
      BY <1>1, <2>2 DEF Query
    <3>2. 1..Configs \subseteq Nat
      BY ConfigAssumption
    <3>3. \E c \in pending : \A d \in pending : c <= d
      BY <2>2, <3>2, HasLeast
    <3>4. current' \in pending
      BY <3>1, <3>3
    <3>5. current' \in 1..Configs /\ current' \in 0..Configs
      BY <3>4, ConfigAssumption
    <3>6. QED BY <1>1, <2>1, <2>2, <3>5 DEF Query, backend, sensor
  <2>3. CASE step' = "idle" /\ UNCHANGED current
    BY <1>1, <2>1, <2>3 DEF Query, backend, sensor
  <2>4. QED BY <1>1, <2>2, <2>3 DEF Query
<1>2. CASE Transmit
  <2>1. CASE Transmitted
    BY <1>2, <2>1 DEF Transmit, Transmitted, Reaches, backend
  <2>2. CASE TransmitFailed
    BY <1>2, <2>2 DEF Transmit, TransmitFailed, backend, sensor
  <2>3. QED BY <1>2, <2>1, <2>2 DEF Transmit
<1>3. CASE AwaitFlag
  BY <1>3 DEF AwaitFlag, backend, sensor
<1>4. CASE AwaitRead
  BY <1>4 DEF AwaitRead, backend, sensor
<1>5. CASE Confirm
  BY <1>5 DEF Confirm, sensor
<1>6. CASE Pause \/ AwaitTimeout
  BY <1>6 DEF Pause, AwaitTimeout, Leave, backend, sensor
<1>7. QED BY <1>1, <1>2, <1>3, <1>4, <1>5, <1>6 DEF ProcessConfigUpdate

(* The schedule and what sets the times keep them in range.                *)
LEMMA LeastOf ==
  ASSUME NEW a \in Nat, NEW b \in Nat
  PROVE  Least(a, b) \in 0..b
BY DEF Least

LEMMA PeriodsBounded ==
  /\ \A i \in 0..2 : Periods[i] \in 1..LongestPeriod
  /\ \A m \in 0..(Second - 1) : m <= AnchorCap
<1>1. Periods[0] \in Nat \ {0} /\ Periods[1] \in Nat \ {0} /\ Periods[2] \in Nat \ {0}
  BY ScheduleAssumption
<1>2. /\ Second \in Nat \ {0} /\ WindowEnd \in Nat /\ Second < WindowEnd /\ AdslChannel \in Nat
  BY ScheduleAssumption
<1>3. \A m \in 0..(Second - 1) : m <= AnchorCap
  BY <1>2 DEF AnchorCap, Most
<1>4. QED BY <1>1, <1>3 DEF LongestPeriod, Most

LEMMA UnitTypes ==
  ASSUME ScheduleTypeOK, TimePasses
  PROVE  ScheduleTypeOK'
<1>1. CASE want = {}
  BY <1>1 DEF TimePasses, ScheduleTypeOK, settings, clock, cycle
<1>2. CASE want # {}
  <2>1. Unit
    BY <1>2 DEF TimePasses
  <2>2. /\ Second \in Nat \ {0} /\ AnchorCap \in Nat /\ SwitchCap \in Nat
        /\ LongestPeriod \in Nat
    BY Bounds, ScheduleAssumption
  <2>3. sinceAnchor' \in 0..AnchorCap /\ sinceSwitch' \in 0..SwitchCap
    BY <2>1, <2>2, LeastOf DEF Unit, ScheduleTypeOK
  <2>4. ms' \in 0..(Second - 1) /\ toCycle' \in 0..LongestPeriod
    BY <2>1, <2>2 DEF Unit, ScheduleTypeOK, cycle
  <2>5. sec' \in 0..3
    <3>1. (sec + 1) % 4 \in 0..3
      BY DEF ScheduleTypeOK
    <3>2. sec' \in {sec, (sec + 1) % 4}
      BY <2>1 DEF Unit
    <3>3. QED BY <3>1, <3>2 DEF ScheduleTypeOK
  <2>6. anchorSecs' \in 0..LongestPeriod
    <3>1. Least(anchorSecs + 1, LongestPeriod) \in 0..LongestPeriod
      BY <2>2, LeastOf DEF ScheduleTypeOK
    <3>2. anchorSecs' \in {anchorSecs, Least(anchorSecs + 1, LongestPeriod)}
      BY <2>1 DEF Unit
    <3>3. QED BY <3>1, <3>2 DEF ScheduleTypeOK
  <2>7. QED BY <2>1, <2>3, <2>4, <2>5, <2>6 DEF Unit, ScheduleTypeOK, settings
<1>3. QED BY <1>1, <1>2

LEMMA TickTypes ==
  ASSUME ScheduleTypeOK, NEW target, Tick(target), UNCHANGED <<settings, clock>>
  PROVE  ScheduleTypeOK'
<1> USE DEF ScheduleTypeOK, settings, clock
<1>1. 0 \in 0..SwitchCap /\ 0 \in 0..LongestPeriod /\ 0 \in 0..AnchorCap
  BY Bounds
<1>2. CASE Situation # "windows"
  <2>1. /\ UNCHANGED <<toCycle, sinceAnchor, anchorSecs, idx>> /\ sinceSwitch' \in {sinceSwitch, 0}
        /\ nextIsAdsl' \in {nextIsAdsl, ~nextIsAdsl}
    BY <1>2 DEF Tick, TickDebug, TickFskOnly, TickBlind, Sweep, Switched, Stay, cycle, Situation
  <2>2. QED BY <1>1, <2>1
<1>3. CASE Situation = "windows"
  <2>1. TickWindows(target)
    BY <1>3 DEF Tick
  <2>2. CASE OpenWindow(target)
    <3>1. ms \in 0..AnchorCap
      BY Bounds, PeriodsBounded, ScheduleAssumption
    <3>2. QED BY <1>1, <2>2, <3>1 DEF OpenWindow
  <2>3. CASE CloseWindow(target)
    <3>1. toCycle' \in 0..LongestPeriod
      <4>1. Periods[idx] \in 1..LongestPeriod /\ LongestPeriod \in Nat
        BY Bounds, PeriodsBounded
      <4>2. QED BY <1>1, <2>3, <4>1 DEF CloseWindow
    <3>2. idx' \in 0..2
      BY <2>3 DEF CloseWindow
    <3>3. QED BY <2>3, <3>1, <3>2 DEF CloseWindow
  <2>4. CASE UNCHANGED cycle
    BY <2>4 DEF cycle
  <2>5. QED
    BY <2>1, <2>2, <2>3, <2>4 DEF TickWindows, GoHigh, Stay
<1>4. QED BY <1>2, <1>3

(* Any new settings are of these, whoever makes them.                      *)
Possible == [want : SUBSET {"flarm", "adsl"}, fanet : BOOLEAN, verbose : {"off", "flarm", "adsl"}]

LEMMA NewSettings ==
  ASSUME ScheduleTypeOK, ChangeSettings \/ LastPageCloses
  PROVE  \E c \in Possible : SetSettings(c)
<1>1. CASE ChangeSettings
  BY <1>1, TaskAssumption DEF ChangeSettings, Possible
<1>2. CASE LastPageCloses
  <2>1. [Current EXCEPT !.verbose = "off"] \in Possible
    BY DEF Current, Possible, ScheduleTypeOK
  <2>2. QED BY <1>2, <2>1 DEF LastPageCloses
<1>3. QED BY <1>1, <1>2

LEMMA SetTypes ==
  ASSUME ScheduleTypeOK, (\E c \in Possible : SetSettings(c)) \/ ClockSet
  PROVE  ScheduleTypeOK'
<1> USE DEF ScheduleTypeOK
<1>1. CASE ClockSet
  BY <1>1 DEF ClockSet, settings, cycle
<1>2. CASE \E c \in Possible : SetSettings(c)
  <2>1. PICK c \in Possible : SetSettings(c)
    BY <1>2
  <2>2. /\ want' \subseteq {"flarm", "adsl"} /\ fanet' \in BOOLEAN
        /\ verbose' \in {"off", "flarm", "adsl"}
    BY <2>1 DEF SetSettings, Possible
  <2>3. CASE AnyTime
    <3>1. AnchorCap \in Nat /\ SwitchCap \in Nat /\ LongestPeriod \in Nat
      BY Bounds
    <3>2. sec' \in 0..3
      BY <2>3 DEF AnyTime
    <3>3. /\ toCycle' \in 0..LongestPeriod /\ anchorSecs' \in 0..LongestPeriod
          /\ sinceAnchor' \in 0..AnchorCap /\ sinceSwitch' \in 0..SwitchCap
      BY <2>3, <3>1 DEF AnyTime
    <3>4. QED BY <2>2, <2>3, <3>2, <3>3 DEF AnyTime
  <2>4. CASE sec' \in (IF fanet' THEN {0} ELSE 0..3) /\ UNCHANGED <<valid, ms, cycle>>
    BY <2>2, <2>4 DEF cycle
  <2>5. QED BY <2>1, <2>3, <2>4 DEF SetSettings
<1>3. QED BY <1>1, <1>2

LEMMA TypesOfTimes == ScheduleTypeOK => Times
BY Bounds DEF ScheduleTypeOK, Times

LEMMA RadioTypesStep ==
  ASSUME RadioTypeOK, ConfigTypeOK, [Next]_vars
  PROVE  RadioTypeOK'
<1>1. CASE Exchange \/ NoAnswer
  BY <1>1, ExchangeRadioTypes DEF Exchange, NoAnswer
<1> USE DEF RadioTypeOK
<1>2. CASE ChooseSleep \/ Wake \/ Look \/ Noise \/ Isr
  BY <1>2 DEF ChooseSleep, Wake, Look, Noise, Isr, Dio1Isr, Arm, TakeFlag, LookAgain, ClearFlag, Pin,
    radioVars
<1>3. CASE Read
  BY <1>3 DEF Read, StartReceive, irqVars
<1>4. CASE OwnDone
  <2>1. events' \in Nat
    BY <1>4, EventTypes DEF OwnDone, NotifyNoUpdate
  <2>2. QED
    BY <1>4, <2>1 DEF OwnDone, NotifyNoUpdate, TxDone, ClearFlag, StartReceive, irqVars
<1>5. CASE \/ TryUpdate \/ AnyDone \/ Forget \/ Passes \/ LastPageCloses \/ Synchronise
           \/ UNCHANGED vars
  BY <1>5 DEF TryUpdate, AnyDone, Forget, Passes, LastPageCloses, Synchronise, vars, radioVars,
    irqVars
<1>6. CASE Schedule
  <2>1. PICK target \in Modes : SetMode(target)
    BY <1>6 DEF Schedule
  <2>2. events' \in Nat
    BY <2>1, EventTypes DEF SetMode
  <2>3. QED
    BY <2>1, <2>2 DEF SetMode, Applied, NotApplied, StartReceive, ClearFlag, Modes, radioVars, irqVars
<1>7. CASE OtherArrives \/ AnswerReceived \/ Announce
  <2>1. \A packet : Arrive(packet) => UNCHANGED <<mode, receiving, irqVars>> /\ inbox' = packet
    BY DEF Arrive
  <2>2. UNCHANGED <<mode, receiving, irqVars, events>>
    BY <1>7, <2>1 DEF OtherArrives, AnswerReceived, AnswerArrives, Announce
  <2>3. inbox' \in Packets
    BY <1>7, <2>1 DEF OtherArrives, AnswerReceived, AnswerArrives, Announce, ConfigTypeOK, Packets
  <2>4. QED BY <2>2, <2>3 DEF irqVars
<1>8. CASE ChangeSettings
  <2>1. events' \in Nat
    BY <1>8, EventTypes DEF ChangeSettings
  <2>2. QED BY <1>8, <2>1 DEF ChangeSettings, radioVars
<1>9. QED
  BY <1>1, <1>2, <1>3, <1>4, <1>5, <1>6, <1>7, <1>8 DEF Next

LEMMA ConfigTypesStep ==
  ASSUME ConfigTypeOK, Rounds, [Next]_vars
  PROVE  ConfigTypeOK' /\ Rounds'
<1>1. CASE Exchange \/ NoAnswer
  BY <1>1, ExchangeConfigTypes DEF Exchange, NoAnswer
<1> USE DEF ConfigTypeOK, Rounds, Steps
<1>0. 0 \in 0..MaxRounds /\ 0 < MaxRounds /\ 0 \in 0..Configs
  BY ConfigAssumption
<1>2. CASE Read
  <2>1. CASE inbox = "hwinfo" /\ Call("own")
    BY <1>0, <1>2, <2>1 DEF Read, Call, backend
  <2>2. CASE inbox = "hwinfo" /\ call' = "none"
    BY <1>2, <2>2 DEF Read, Call, backend
  <2>3. CASE inbox # "hwinfo"
    BY <1>2, <2>3 DEF Read, exchange, backend
  <2>4. QED BY <1>2, <2>1, <2>2, <2>3 DEF Read
<1>3. CASE OwnDone
  <2>1. listening' \in BOOLEAN
    BY <1>3 DEF OwnDone, NotifyNoUpdate
  <2>2. QED BY <1>0, <1>3, <2>1 DEF OwnDone, backend
<1>4. CASE TryUpdate
  BY <1>0, <1>4 DEF TryUpdate, Call, backend
<1>5. CASE AnswerReceived
  BY <1>5 DEF AnswerReceived, AnswerArrives, exchange, backend
<1>6. CASE Forget
  BY <1>6 DEF Forget, backend, sensor
<1>7. CASE ChooseSleep \/ Wake \/ Look \/ Schedule \/ Noise \/ Passes
  BY <1>7 DEF ChooseSleep, Wake, Look, Schedule, Noise, Passes, configVars, exchange, backend, sensor
<1>8. CASE \/ Isr \/ OtherArrives \/ Announce \/ ChangeSettings \/ LastPageCloses \/ Synchronise
           \/ UNCHANGED vars
  BY <1>8 DEF Isr, OtherArrives, Announce, ChangeSettings, LastPageCloses, Synchronise, vars, configVars,
    exchange, backend, sensor
<1>9. CASE AnyDone
  BY <1>0, <1>9 DEF AnyDone, backend
<1>10. QED
  BY <1>1, <1>2, <1>3, <1>4, <1>5, <1>6, <1>7, <1>8, <1>9 DEF Next

LEMMA ScheduleTypesStep ==
  ASSUME ScheduleTypeOK, [Next]_vars
  PROVE  ScheduleTypeOK'
<1>1. CASE Passes
  BY <1>1, UnitTypes DEF Passes
<1>2. CASE Schedule
  BY <1>2, TickTypes DEF Schedule
<1>3. CASE ChangeSettings \/ LastPageCloses \/ Synchronise
  BY <1>3, NewSettings, SetTypes DEF Synchronise
<1>4. CASE UNCHANGED <<settings, clock, cycle>>
  BY <1>4 DEF ScheduleTypeOK, settings, clock, cycle
<1>5. CASE \/ ChooseSleep \/ Wake \/ Look \/ Read \/ Exchange \/ NoAnswer \/ OwnDone \/ TryUpdate
           \/ AnyDone \/ Noise \/ Isr \/ OtherArrives \/ AnswerReceived \/ Announce \/ Forget
           \/ UNCHANGED vars
  BY <1>4, <1>5 DEF ChooseSleep, Wake, Look, Read, Exchange, NoAnswer, OwnDone, TryUpdate, AnyDone,
    Noise, Isr, OtherArrives, AnswerReceived, Announce, Forget, Elsewhere, vars
<1>6. QED
  BY <1>1, <1>2, <1>3, <1>5 DEF Next

TaskTypes ==
  /\ pc \in {"arm", "sleep", "look", "read", "own", "any", "tick", "noise"}
  /\ left \in Nat /\ quiet \in BOOLEAN /\ undisturbed \in BOOLEAN
  /\ owed \in -1..LongestPeriod

LEMMA TaskTypesStep ==
  ASSUME TaskTypes, ScheduleTypeOK, [Next]_vars
  PROVE  TaskTypes'
<1> USE DEF TaskTypes
<1>1. CASE ChooseSleep
  <2>1. LongestSleep \in Nat
    BY DelayIsNat, TypesOfTimes, TaskAssumption DEF LongestSleep
  <2>2. left' \in Nat
    BY <1>1, <2>1, TaskAssumption DEF ChooseSleep
  <2>3. QED BY <1>1, <2>2 DEF ChooseSleep
<1>2. CASE Schedule
  <2>1. LongestPeriod \in Nat /\ Periods[idx] \in 1..LongestPeriod
    BY Bounds, PeriodsBounded DEF ScheduleTypeOK
  <2>2. owed' \in {-1, Periods[idx], owed}
    BY <1>2 DEF Schedule
  <2>3. owed' \in -1..LongestPeriod
    BY <2>1, <2>2
  <2>4. QED BY <1>2, <2>3 DEF Schedule
<1>3. CASE Passes
  <2>1. owed' \in -1..LongestPeriod
    BY <1>3, Bounds DEF Passes
  <2>2. left' \in Nat
    BY <1>3 DEF Passes, PassesAsleep, PassesInExchange
  <2>3. QED BY <1>3, <2>1, <2>2 DEF Passes
<1>4. CASE ChangeSettings \/ LastPageCloses \/ Synchronise
  <2>1. owed' \in {-1, owed}
    BY <1>4 DEF ChangeSettings, LastPageCloses, Synchronise
  <2>2. owed' \in -1..LongestPeriod
    BY <2>1, Bounds
  <2>3. QED BY <1>4, <2>2 DEF ChangeSettings, LastPageCloses, Synchronise, taskVars
<1>5. CASE Wake \/ Look \/ Read \/ OwnDone \/ AnyDone \/ Noise
  BY <1>5 DEF Wake, Look, Read, OwnDone, AnyDone, Noise
<1>6. CASE Exchange \/ NoAnswer \/ TryUpdate \/ Isr \/ OtherArrives \/ AnswerReceived \/ Announce
           \/ Forget \/ UNCHANGED vars
  BY <1>6 DEF Exchange, NoAnswer, TryUpdate, Isr, OtherArrives, AnswerReceived, Announce, Forget,
    Elsewhere, taskVars, vars
<1>7. QED
  BY <1>1, <1>2, <1>3, <1>4, <1>5, <1>6 DEF Next

Types == TypeOK /\ Rounds

LEMMA TypesInit == Init => Types
<1> SUFFICES ASSUME Init
             PROVE  Types
  OBVIOUS
<1>1. AnchorCap \in Nat /\ SwitchCap \in Nat /\ LongestPeriod \in Nat /\ Second \in Nat \ {0}
  BY Bounds, ScheduleAssumption
<1>2. RadioTypeOK
  BY DEF Init, RadioInit, RadioTypeOK, Modes
<1>3. ScheduleTypeOK
  <2>1. want \subseteq {"flarm", "adsl"} /\ fanet \in BOOLEAN /\ verbose \in {"off", "flarm", "adsl"}
    <3>1. PICK c \in Choices : want = c.want /\ fanet = c.fanet /\ verbose = c.verbose
      BY DEF Init
    <3>2. c \in [want : SUBSET {"flarm", "adsl"}, fanet : BOOLEAN, verbose : {"off", "flarm", "adsl"}]
      BY TaskAssumption
    <3>3. QED BY <3>1, <3>2
  <2>2. /\ 0 \in 0..(Second - 1) /\ 0 \in 0..LongestPeriod /\ LongestPeriod \in 0..LongestPeriod
        /\ AnchorCap \in 0..AnchorCap /\ 0 \in 0..SwitchCap /\ 0 \in 0..2 /\ 0 \in 0..3
    BY <1>1
  <2>3. QED BY <2>1, <2>2 DEF Init, ScheduleInit, ScheduleTypeOK
<1>4. ConfigTypeOK /\ Rounds
  <2>1. 0 \in 0..MaxRounds /\ 0 \in 0..Configs
    BY ConfigAssumption
  <2>2. QED BY <2>1 DEF Init, ConfigInit, ConfigTypeOK, Rounds, Steps
<1>5. QED BY <1>1, <1>2, <1>3, <1>4 DEF Init, Types, TypeOK

LEMMA TypesStep ==
  ASSUME Types, [Next]_vars
  PROVE  Types'
BY RadioTypesStep, ConfigTypesStep, ScheduleTypesStep, TaskTypesStep DEF Types, TypeOK, TaskTypes

(* The types: the modes, flags and rounds of the radio task, and the times *)
(* of its schedule, which stay below the caps no comparison looks beyond.  *)
THEOREM TypeCorrect == Spec => []TypeOK
<1>1. Types => TypeOK
  BY DEF Types
<1>2. Types /\ [Next]_vars => Types'
  BY TypesStep
<1>3. QED BY <1>1, <1>2, TypesInit, PTL DEF Spec

-----------------------------------------------------------------------------
(* The second a window is promised in does not move: what is left to the   *)
(* next cycle is never more than what is left to the promise, and while a  *)
(* window is open no more than its period less the seconds since it began. *)
(* Before there is a clock no window was ever opened.                      *)
Promised ==
  /\ ~valid => anchorSecs >= LongestPeriod
  /\ owed >= 0 => toCycle <= owed /\ (mode # "FANET" => Periods[idx] - anchorSecs <= owed)

LEMMA PromisedPasses ==
  ASSUME Types, Promised, Passes
  PROVE  Promised'
<1>1. UNCHANGED <<valid, mode, idx>>
  BY DEF Passes, TimePasses, Unit, clock, cycle, radioVars
<1>2. CASE want = {}
  BY <1>1, <1>2 DEF Passes, TimePasses, cycle, Promised
<1>3. CASE want # {}
  <2>1. Unit /\ owed' = IF ms + 1 = Second /\ owed > 0 THEN owed - 1 ELSE owed
    BY <1>3 DEF Passes, TimePasses
  <2>2. /\ LongestPeriod \in Nat /\ Second \in Nat /\ Periods[idx] \in 1..LongestPeriod
        /\ ms \in 0..(Second - 1) /\ owed \in Int /\ toCycle \in Nat /\ anchorSecs \in 0..LongestPeriod
    BY Bounds, PeriodsBounded, ScheduleAssumption DEF Types, TypeOK, ScheduleTypeOK
  <2>3. CASE ms + 1 < Second
    BY <1>1, <2>1, <2>2, <2>3 DEF Unit, Promised
  <2>4. CASE ~(ms + 1 < Second)
    <3>1. /\ toCycle' = IF toCycle > 0 THEN toCycle - 1 ELSE 0
          /\ anchorSecs' = IF anchorSecs + 1 < LongestPeriod THEN anchorSecs + 1 ELSE LongestPeriod
          /\ owed' = IF owed > 0 THEN owed - 1 ELSE owed
      BY <2>1, <2>2, <2>4 DEF Unit, Least
    <3>2. QED BY <1>1, <2>2, <3>1 DEF Promised
  <2>5. QED BY <2>3, <2>4
<1>4. QED BY <1>2, <1>3

LEMMA PromisedTick ==
  ASSUME Types, Promised, Schedule
  PROVE  Promised'
<1>1. PICK target \in Modes :
        /\ Tick(target) /\ SetMode(target)
        /\ owed' = CASE mode' # target \/ Situation \in {"debug", "fsk only"} -> -1
                    [] mode' = target /\ Situation = "windows" /\ Opens -> Periods[idx]
                    [] OTHER -> owed
  BY DEF Schedule
<1>2. /\ LongestPeriod \in Nat /\ Periods[idx] \in 1..LongestPeriod /\ owed \in Int
      /\ toCycle \in Nat /\ anchorSecs \in 0..LongestPeriod /\ valid' = valid
  <2>1. valid' = valid
    BY DEF Schedule, clock
  <2>2. QED BY <2>1, Bounds, PeriodsBounded DEF Types, TypeOK, ScheduleTypeOK
<1>3. CASE mode' # target \/ Situation \in {"debug", "fsk only"}
  <2>1. owed' = -1
    BY <1>1, <1>3
  <2>2. valid \/ UNCHANGED anchorSecs
    BY <1>1 DEF Tick, TickDebug, TickFskOnly, TickBlind, Sweep, Switched, Stay, cycle, Situation
  <2>3. QED BY <1>2, <2>1, <2>2 DEF Promised
<1>4. CASE mode' = target /\ Situation \notin {"debug", "fsk only", "windows"}
  <2>1. Situation \in {"parked", "blind"}
    BY <1>4 DEF Situation
  <2>2. UNCHANGED <<toCycle, anchorSecs, idx>> /\ owed' = owed
    BY <1>1, <1>4, <2>1 DEF Tick, TickBlind, Switched, Stay, cycle
  <2>3. CASE Situation = "parked"
    BY <1>1, <1>2, <1>4, <2>2, <2>3 DEF Promised, Tick
  <2>4. CASE Situation = "blind"
    <3>1. ~valid
      BY <2>4 DEF Situation
    <3>2. QED BY <1>2, <2>2, <3>1 DEF Promised
  <2>5. QED BY <2>1, <2>3, <2>4
<1>5. CASE mode' = target /\ Situation = "windows"
  <2>1. TickWindows(target) /\ owed' = IF Opens THEN Periods[idx] ELSE owed
    BY <1>1, <1>5 DEF Tick
  <2>2. valid
    BY <1>5 DEF Situation
  <2>3. CASE OpenWindow(target)
    BY <1>2, <2>1, <2>2, <2>3 DEF OpenWindow, Opens, Promised
  <2>4. CASE GoHigh(target)
    BY <1>2, <2>1, <2>2, <2>4 DEF GoHigh, Opens, Promised, cycle
  <2>5. CASE CloseWindow(target)
    BY <1>2, <1>5, <2>1, <2>2, <2>5 DEF CloseWindow, Opens, Promised
  <2>6. CASE Stay(target) /\ ~Opens
    BY <1>2, <1>5, <2>1, <2>2, <2>6 DEF Stay, Promised, cycle
  <2>7. QED
    BY <2>1, <2>3, <2>4, <2>5, <2>6 DEF TickWindows, Opens
<1>6. QED BY <1>3, <1>4, <1>5

LEMMA PromisedStep ==
  ASSUME Types, Promised, [Next]_vars
  PROVE  Promised'
<1>1. CASE Passes
  BY <1>1, PromisedPasses
<1>2. CASE Schedule
  BY <1>2, PromisedTick
<1>3. CASE ChangeSettings \/ LastPageCloses
  <2>1. PICK c \in Possible : SetSettings(c)
    BY <1>3, NewSettings DEF Types, TypeOK
  <2>2. CASE want = {}
    <3>1. owed' = -1 /\ valid' = valid /\ anchorSecs' \in anchorSecs..LongestPeriod
      BY <1>3, <2>1, <2>2 DEF ChangeSettings, LastPageCloses, SetSettings, AnyTime
    <3>2. anchorSecs \in Nat /\ LongestPeriod \in Nat
      BY Bounds DEF Types, TypeOK, ScheduleTypeOK
    <3>3. QED BY <3>1, <3>2 DEF Promised
  <2>3. CASE want # {}
    BY <1>3, <2>1, <2>3 DEF ChangeSettings, LastPageCloses, SetSettings, Promised, cycle,
      radioVars
  <2>4. QED BY <2>2, <2>3
<1>4. CASE Synchronise
  BY <1>4 DEF Synchronise, ClockSet, Promised, cycle, radioVars
<1>5. CASE UNCHANGED <<valid, anchorSecs, toCycle, idx, mode, owed>>
  BY <1>5 DEF Promised
<1>6. CASE \/ ChooseSleep \/ Wake \/ Look \/ Read \/ Exchange \/ NoAnswer \/ OwnDone \/ TryUpdate
           \/ AnyDone \/ Noise
  <2>1. UNCHANGED <<clock, cycle, owed>>
    BY <1>6 DEF ChooseSleep, Wake, Look, Read, Exchange, NoAnswer, OwnDone, TryUpdate, AnyDone, Noise
  <2>2. mode' = mode
    BY <1>6 DEF ChooseSleep, Wake, Look, Read, Exchange, ProcessConfigUpdate, Query, Transmit,
      Transmitted, TransmitFailed, AwaitFlag, AwaitRead, Confirm, Pause, NoAnswer, AwaitTimeout,
      OwnDone, NotifyNoUpdate, TryUpdate, AnyDone, Noise, radioVars
  <2>3. QED BY <1>5, <2>1, <2>2 DEF clock, cycle
<1>7. CASE Isr \/ OtherArrives \/ AnswerReceived \/ Announce \/ Forget \/ UNCHANGED vars
  BY <1>5, <1>7 DEF Isr, Dio1Isr, OtherArrives, AnswerReceived, AnswerArrives, Announce, Forget,
    Arrive, Elsewhere, vars, radioVars, clock, cycle
<1>8. QED
  BY <1>1, <1>2, <1>3, <1>4, <1>6, <1>7 DEF Next

(* A FLARM window is listened to in the second it was promised for         *)
(* (flarm_scheduler_tick and flarm_scheduler_next_delay_ms): there is no   *)
(* cycle left to wait for in it, so the schedule asks to be woken at once  *)
(* inside the low slot, and the task does not oversleep.                   *)
THEOREM PromisedWindowIsHeard == Spec => []WindowHeard
<1>1. Init => Types /\ Promised /\ Punctual
  <2>1. Init => Promised
    BY Bounds DEF Init, RadioInit, ScheduleInit, Promised
  <2>2. Init => Punctual
    BY Bounds, ScheduleAssumption DEF Init, ScheduleInit, Punctual, Times, NeverOversleeps, Asleep
  <2>3. QED BY <2>1, <2>2, TypesInit
<1>2. Types /\ Promised /\ Punctual /\ [Next]_vars => (Types /\ Promised /\ Punctual)'
  BY TypesStep, PromisedStep, PunctualStep
<1>3. Types /\ Promised /\ Punctual => WindowHeard
  <2> SUFFICES ASSUME Types, Promised, Punctual, Asleep, undisturbed, Situation = "windows",
                      owed = 0, mode = "FANET", InLowWindow
               PROVE  ~(left > 1)
    BY DEF WindowHeard
  <2>1. toCycle = 0
    BY DEF Promised, Types, TypeOK, ScheduleTypeOK
  <2>2. /\ ms \in Nat /\ LowBegin \in Nat /\ LowBegin <= ms /\ ms < HighBegin
    BY ScheduleAssumption DEF InLowWindow, Types, TypeOK, ScheduleTypeOK
  <2>3. NextDelay = 1
    BY <2>1, <2>2 DEF NextDelay, DelayWindows, DelayToWindow
  <2>4. left <= 1 /\ left \in Nat
    BY <2>3 DEF Punctual, NeverOversleeps, Types, TypeOK
  <2>5. QED BY <2>4
<1>4. QED BY <1>1, <1>2, <1>3, PTL DEF Spec
=============================================================================
