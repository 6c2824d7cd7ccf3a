-------------------------------- MODULE Aprs --------------------------------
(***************************************************************************)
(* The connection to an APRS server (components/bdgs/aprs/aprs.cpp, run by *)
(* aprs_task of app/bd_app.cpp).  The APRS task connects, logs in, waits   *)
(* for the server's answer, then sends the station's position (the beacon) *)
(* and its status; from then on the radio task may send what it receives   *)
(* (data).  Both hold aprs_lock for a call; the web server's               *)
(* update_aprs_settings does not.                                          *)
(*                                                                         *)
(* Times are not counted: a timer of the code has run out or not.          *)
(*                                                                         *)
(* A definition named ...Mutant is what a slip in the code would make of   *)
(* the one after it; it is used nowhere.                                   *)
(***************************************************************************)
EXTENDS Naturals, FiniteSets

CONSTANTS
  MaxEvents    \* bound: how many of the events below there are

ASSUME AprsAssumption == MaxEvents \in Nat

VARIABLES
  sendAPRS,    \* settings
  connected,   \* aprs_connected
  initOk,      \* how far the login is
  status,      \* tStatus # 0: a status is to be sent
  elapsed,     \* the timers that have run out: "retry" (5 s since tConnRetry), "check" (5 s
               \* since tCheck), "status" (5 s since tStatus), "beacon" (300 s since tRecBaecon)
  step,        \* where Aprs::run is; it holds the lock unless "idle"
  network,     \* bd_net_sta_connected
  timeSet,     \* the clock has seen NTP
  otaUploadInProgress,
  link,        \* the TCP connection: "none", "up" or "dead"
  rx,          \* what the server sent: "nothing", "answer" to the login, or "half" of it
  wire,        \* kinds of lines the server got on this connection
  deaf,        \* history variable: its answer came in two halves
  events       \* how many of the events there were: the server refuses, closes or answers
               \* in two halves, the network is gone, the settings are saved, an upload

aprsVars == <<connected, initOk, status, step>>
connection == <<link, rx, wire, deaf>>
outside == <<sendAPRS, network, timeSet, otaUploadInProgress, events>>
vars == <<aprsVars, connection, outside, elapsed>>

Levels == <<"none", "connected", "registered", "full">>
Timers == {"retry", "check", "status", "beacon"}

(* After update_aprs_settings at boot; tConnRetry and tCheck begin with    *)
(* the first call.                                                         *)
Init ==
  /\ sendAPRS \in BOOLEAN /\ connected = FALSE /\ initOk = "none" /\ status = FALSE
  /\ elapsed = {} /\ step = "idle" /\ network = FALSE /\ timeSet = FALSE
  /\ otaUploadInProgress = FALSE
  /\ link = "none" /\ rx = "nothing" /\ wire = {} /\ deaf = FALSE /\ events = 0

TypeOK ==
  /\ {sendAPRS, connected, status, network, timeSet, otaUploadInProgress, deaf} \subseteq BOOLEAN
  /\ initOk \in {Levels[i] : i \in 1..4} /\ elapsed \subseteq Timers
  /\ step \in {"idle", "check", "read", "status", "connect"}
  /\ link \in {"none", "up", "dead"} /\ rx \in {"nothing", "answer", "half"}
  /\ wire \subseteq {"login", "beacon", "status", "data"} /\ events \in Nat

Event == events < MaxEvents /\ events' = events + 1

(* client->print: lost unless the connection is up.                        *)
Got(lines) == wire' = IF link = "up" THEN wire \cup lines ELSE wire

-----------------------------------------------------------------------------
(* Aprs::run, by a task that stands by while something is uploaded.        *)
Run ==
  /\ step = "idle" /\ sendAPRS /\ ~otaUploadInProgress
  /\ IF network THEN step' = "check" /\ UNCHANGED connected
                ELSE step' = "idle" /\ connected' = FALSE
  /\ UNCHANGED <<initOk, status, connection, outside, elapsed>>

(* checkClientConnected                                                    *)
Noticed == "check" \in elapsed /\ link # "up"

StillConnectedMutant == connected

StillConnected == connected /\ ~Noticed

CheckClientConnected ==
  /\ step = "check"
  /\ connected' = StillConnected
  /\ elapsed' = elapsed \ {"check"}
  /\ step' = IF connected' THEN "read" ELSE "connect"
  /\ UNCHANGED <<initOk, status, connection, outside>>

(* connect2Server, at most every 5 s.                                      *)
LoginStateMutant == initOk

LoginState == "none"

NotYet ==
  /\ "retry" \notin elapsed
  /\ UNCHANGED <<connection, events, elapsed>> /\ connected' = FALSE

Refused ==
  /\ "retry" \in elapsed /\ elapsed' = elapsed \ {"retry"} /\ Event
  /\ link' = "none" /\ rx' = "nothing" /\ wire' = {} /\ deaf' = FALSE /\ connected' = FALSE

LoggedIn ==
  /\ "retry" \in elapsed /\ elapsed' = elapsed \ {"retry"} /\ UNCHANGED events
  /\ link' = "up" /\ rx' = "nothing" /\ wire' = {"login"} /\ deaf' = FALSE /\ connected' = TRUE

Connect2Server ==
  /\ step = "connect" /\ step' = "idle"
  /\ initOk' = LoginState
  /\ NotYet \/ Refused \/ LoggedIn
  /\ UNCHANGED <<status, sendAPRS, network, timeSet, otaUploadInProgress>>

(* readClient and checkLine: the line is put together anew in every call.  *)
ReadClient ==
  /\ step = "read" /\ step' = "status"
  /\ rx' = "nothing"
  /\ IF rx = "answer" /\ initOk = "none"
       THEN initOk' = "connected" /\ status' = FALSE /\ elapsed' = elapsed \cup {"beacon"}
       ELSE UNCHANGED <<initOk, status, elapsed>>
  /\ UNCHANGED <<connected, link, wire, deaf, outside>>

(* sendStatus: the beacon when it is due, and 5 s later the status.  What  *)
(* finds no time of day is left out until the next.                        *)
SendReceiverBeacon ==
  /\ "beacon" \in elapsed /\ initOk # "none"
  /\ elapsed' = elapsed \ {"beacon", "status"} /\ status' = TRUE
  /\ IF timeSet
       THEN Got({"beacon"}) /\ initOk' = IF initOk = "full" THEN "full" ELSE "registered"
       ELSE UNCHANGED <<wire, initOk>>

SendReceiverStatus ==
  /\ initOk # "none" /\ "beacon" \notin elapsed /\ status /\ "status" \in elapsed
  /\ status' = FALSE /\ UNCHANGED elapsed
  /\ IF timeSet THEN Got({"status"}) /\ initOk' = "full" ELSE UNCHANGED <<wire, initOk>>

NothingDue ==
  /\ initOk = "none" \/ ("beacon" \notin elapsed /\ ~(status /\ "status" \in elapsed))
  /\ UNCHANGED <<status, elapsed, wire, initOk>>

SendStatus ==
  /\ step = "status" /\ step' = "idle"
  /\ SendReceiverBeacon \/ SendReceiverStatus \/ NothingDue
  /\ UNCHANGED <<connected, link, rx, deaf, outside>>

AprsTask == Run \/ CheckClientConnected \/ Connect2Server \/ ReadClient \/ SendStatus

-----------------------------------------------------------------------------
(* sendWeatherData, sendTrackingData and sendNameData, under the lock.     *)
SendData ==
  /\ step = "idle"
  /\ IF initOk = "full" THEN Got({"data"}) ELSE UNCHANGED wire
  /\ UNCHANGED <<aprsVars, link, rx, deaf, outside, elapsed>>

(* update_aprs_settings: Aprs::begin or end, in the middle of anything.    *)
UpdateSettings ==
  /\ Event /\ sendAPRS' \in BOOLEAN
  /\ IF sendAPRS'
       THEN connected' = FALSE /\ status' = FALSE /\ UNCHANGED <<link, rx>>
       ELSE link' = "none" /\ rx' = "nothing" /\ UNCHANGED <<connected, status>>
  /\ UNCHANGED <<initOk, step, wire, deaf, network, timeSet, otaUploadInProgress, elapsed>>

-----------------------------------------------------------------------------
(* Time, the network and the server, which answers a login with a line.  A *)
(* timer runs out between two runs, while something looks at it; that of   *)
(* the beacon is the longest by far.                                       *)
Looked(timer) ==
  CASE timer = "retry" -> ~connected
    [] timer = "check" -> connected
    [] timer = "status" -> status
    [] timer = "beacon" -> initOk # "none" /\ ~status

RunsOut(timer) ==
  /\ Looked(timer) /\ step = "idle" /\ timer \notin elapsed /\ elapsed' = elapsed \cup {timer}
  /\ UNCHANGED <<aprsVars, connection, outside>>

NetworkUp ==
  /\ ~network /\ network' = TRUE
  /\ UNCHANGED <<aprsVars, connection, sendAPRS, timeSet, otaUploadInProgress, events, elapsed>>

NetworkLost ==
  /\ network /\ Event /\ network' = FALSE /\ link' = (IF link = "up" THEN "dead" ELSE link)
  /\ UNCHANGED <<aprsVars, rx, wire, deaf, sendAPRS, timeSet, otaUploadInProgress, elapsed>>

ClockSet ==
  /\ network /\ ~timeSet /\ timeSet' = TRUE
  /\ UNCHANGED <<aprsVars, connection, sendAPRS, network, otaUploadInProgress, events, elapsed>>

Answers ==
  /\ link = "up" /\ wire = {"login"} /\ rx = "nothing" /\ ~deaf /\ initOk = "none"
  /\ \/ rx' = "answer" /\ UNCHANGED <<deaf, events>>
     \/ rx' = "half" /\ deaf' = TRUE /\ Event
  /\ UNCHANGED <<aprsVars, link, wire, sendAPRS, network, timeSet, otaUploadInProgress,
                 elapsed>>

Closes ==
  /\ link = "up" /\ link' = "dead" /\ Event
  /\ UNCHANGED <<aprsVars, rx, wire, deaf, sendAPRS, network, timeSet, otaUploadInProgress,
                 elapsed>>

(* An upload to the HTTP server, or the download of an update, which may   *)
(* take as long as it likes.                                               *)
UploadBegins ==
  /\ ~otaUploadInProgress /\ otaUploadInProgress' = TRUE /\ Event
  /\ UNCHANGED <<aprsVars, connection, sendAPRS, network, timeSet, elapsed>>

UploadEnds ==
  /\ otaUploadInProgress /\ otaUploadInProgress' = FALSE
  /\ UNCHANGED <<aprsVars, connection, sendAPRS, network, timeSet, events, elapsed>>

Outside ==
  \/ \E timer \in Timers : RunsOut(timer)
  \/ NetworkUp \/ NetworkLost \/ ClockSet \/ Answers \/ Closes
  \/ UploadBegins \/ UploadEnds
=============================================================================
