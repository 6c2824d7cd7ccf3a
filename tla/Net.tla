-------------------------------- MODULE Net --------------------------------
(***************************************************************************)
(* The WiFi side of the ground station (components/bdgs/net/bd_net.cpp):   *)
(* the net task with its tick, the event handler that ESP-IDF's event task *)
(* runs, the serial task's blocking connect (app/bd_app.cpp), the commands *)
(* of the HTTP server task (web/bd_ws_api.cpp) and the button.  The tick   *)
(* sleeps in its middle and the tasks share plain flags, so the others run *)
(* between its steps.                                                      *)
(*                                                                         *)
(* Time is abstract: a timer that has been set may run out at any moment,  *)
(* and does in the end.  Credentials are "none", "wrong" or "right" ones,  *)
(* the access point follows one of the three rules of the settings.        *)
(*                                                                         *)
(* A definition named ...Mutant is what a slip in the code would make of   *)
(* the one after it; it is used nowhere.                                   *)
(***************************************************************************)
EXTENDS Naturals

CONSTANTS
  Rules,       \* of the access point: "keepAP", "apAutoOff", "fallback"
  Sleeper,     \* the station woke from deep sleep
  Kinds,       \* what people and the air may do: "scan", "save", "button", "serial",
               \* "upload", "outage" of the link, the router or the uplink, "abort" of a scan
  MaxEvents    \* bound: how often they do so

Credentials == {"none", "wrong", "right"}

ASSUME NetAssumption ==
  /\ Rules # {} /\ Rules \subseteq {"keepAP", "apAutoOff", "fallback"}
  /\ Sleeper \in BOOLEAN
  /\ MaxEvents \in Nat

VARIABLES
  rule, ssid,        \* settings: keepAP and apAutoOff; wifi_ssid and wifi_password
  apOn,              \* the driver's mode is WIFI_MODE_APSTA
  s_ap_active,
  s_ap_window_open,
  idle,              \* CONFIG_BDGS_AP_IDLE_OFF_MIN have passed since s_ap_last_client_ms
  client,            \* somebody has joined the access point
  restartAP,
  link,              \* the driver's connection: "down", "connecting" or "up"
  config,            \* the credentials the driver was given
  router,            \* a router is in reach
  due,               \* the interval since s_last_attempt_ms has passed
  forceReconnectSTA,
  s_scan_requested, s_scan_busy,
  scanning,          \* the driver scans
  s_blocking_connect,
  uplink,            \* the internet answers
  lastOk,            \* s_internet_last_ok_ms: "never", "fresh", or "stale" when
                     \* INTERNET_WATCHDOG_MS have passed since
  tick,              \* where the net task is
  connected, wanted, \* what it found at the start of the tick
  web,               \* the HTTP server task: "idle", "saved" in save_wifi, "upload"
  changed,           \* in save_wifi: autoOffSwitchedOn, staChanged
  otaUploadInProgress,
  serial,            \* where the serial task is: "idle", "connect" or "wait"
  events,            \* how many of the events there were
  owed,              \* history variable: a user waits for the result of a scan
  provisioned        \* history variable: a serial connect has begun since boot

settings == <<rule, ssid>>
ap == <<apOn, s_ap_active, s_ap_window_open, idle, client, restartAP>>
sta == <<link, config, due, forceReconnectSTA>>
scan == <<s_scan_requested, s_scan_busy, scanning, owed>>
internet == <<uplink, lastOk>>
netTask == <<tick, connected, wanted>>
webTask == <<web, changed, otaUploadInProgress>>
serialTask == <<serial, s_blocking_connect, provisioned>>
vars == <<settings, ap, sta, router, scan, internet, netTask, webTask, serialTask, events>>

Event(kind) == kind \in Kinds /\ events < MaxEvents /\ events' = events + 1

(* bd_net_start: the mode follows the rule; the window is open unless the  *)
(* station woke by itself.                                                 *)
Init ==
  /\ rule \in Rules /\ ssid \in {"none", "right"} /\ config = ssid
  /\ s_ap_window_open = ~Sleeper
  /\ s_ap_active = (rule # "apAutoOff" \/ s_ap_window_open)
  /\ apOn = s_ap_active /\ idle = FALSE /\ client = FALSE /\ restartAP = FALSE
  /\ link = "down" /\ due = TRUE /\ forceReconnectSTA = TRUE
  /\ router = TRUE
  /\ s_scan_requested = FALSE /\ s_scan_busy = FALSE /\ scanning = FALSE /\ owed = FALSE
  /\ uplink = TRUE /\ lastOk = "never"
  /\ tick = "idle" /\ connected = FALSE /\ wanted = FALSE
  /\ web = "idle" /\ changed = {} /\ otaUploadInProgress = FALSE
  /\ serial = "idle" /\ s_blocking_connect = FALSE /\ provisioned = FALSE
  /\ events = 0

-----------------------------------------------------------------------------
(* The net task: net_tick.                                                 *)

(* ap_wanted: whether the access point should be on; a client of an active *)
(* one restarts the idle time, which closes the window when it runs out.   *)
ClientSeen == s_ap_active /\ client

ApWantedMutant(isConnected) ==
  CASE rule = "keepAP" -> TRUE
    [] rule = "fallback" -> ~isConnected
    [] OTHER -> s_ap_window_open

ApWanted(isConnected) ==
  CASE rule = "keepAP" -> TRUE
    [] rule = "fallback" -> ~isConnected
    [] OTHER -> s_ap_window_open /\ (ClientSeen \/ ~idle)

TickBegins ==
  /\ tick = "idle"
  /\ connected' = (link = "up")
  /\ wanted' = ApWanted(connected')
  /\ IF rule = "apAutoOff"
       THEN /\ s_ap_window_open' = wanted'
            /\ idle' = (idle /\ ~(s_ap_window_open /\ ClientSeen))
       ELSE UNCHANGED <<s_ap_window_open, idle>>
  /\ tick' = IF restartAP THEN "restartAP" ELSE "policy"
  /\ UNCHANGED <<settings, apOn, s_ap_active, client, restartAP, sta, router, scan, internet,
                 webTask, serialTask, events>>

(* Followed by a pause of 100 ms. *)
RestartAp ==
  /\ tick = "restartAP" /\ tick' = "policy"
  /\ restartAP' = FALSE /\ s_ap_active' = FALSE /\ apOn' = FALSE /\ client' = FALSE
  /\ UNCHANGED <<settings, s_ap_window_open, idle, sta, router, scan, internet,
                 connected, wanted, webTask, serialTask, events>>

(* The end of a tick; what it found at its start is forgotten. *)
TickEnds == tick' = "idle" /\ connected' = FALSE /\ wanted' = FALSE

ApplyPolicy ==
  /\ tick = "policy"
  /\ s_ap_active' = wanted
  /\ apOn' = (wanted \/ (apOn /\ ~s_ap_active))
  /\ client' = (client /\ apOn')
  /\ IF s_blocking_connect
       THEN TickEnds
       ELSE tick' = "scan" /\ UNCHANGED <<connected, wanted>>
  /\ UNCHANGED <<settings, s_ap_window_open, idle, restartAP, sta, router, scan, internet,
                 webTask, serialTask, events>>

(* run_scan: a connect in progress is stopped; a pause of 200 ms. *)
ScanBegins ==
  /\ tick = "scan" /\ s_scan_requested /\ ~s_scan_busy
  /\ s_scan_requested' = FALSE /\ s_scan_busy' = TRUE
  /\ link' = IF link = "up" THEN link ELSE "down"
  /\ tick' = "start"
  /\ UNCHANGED <<settings, ap, config, due, forceReconnectSTA, router, scanning, owed,
                 internet, connected, wanted, webTask, serialTask, events>>

(* scan_failed or publish_scan_results, to everybody connected. *)
AnswerMutant == owed' = FALSE /\ UNCHANGED s_scan_busy
Answer == owed' = FALSE /\ s_scan_busy' = FALSE

(* The driver does not scan while it connects. *)
ScanStarts ==
  /\ tick = "start" /\ tick' = "wait"
  /\ \/ /\ link # "connecting" /\ scanning' = TRUE
        /\ UNCHANGED <<s_scan_busy, owed, events>>
     \/ /\ IF link = "connecting" THEN UNCHANGED events ELSE Event("abort")
        /\ Answer /\ UNCHANGED scanning
  /\ UNCHANGED <<settings, ap, sta, router, s_scan_requested, internet, connected, wanted,
                 webTask, serialTask>>

(* Past the beginning of a scan, if there is one to begin. *)
PastScan == tick = "wait" \/ (tick = "scan" /\ ~(s_scan_requested /\ ~s_scan_busy))

ScanGoesOn ==
  /\ PastScan /\ s_scan_busy
  /\ TickEnds
  /\ UNCHANGED <<settings, ap, sta, router, scan, internet, webTask, serialTask, events>>

(* SCAN_TIMEOUT_MS *)
ScanTimesOutMutant == FALSE
ScanTimesOut ==
  /\ PastScan /\ s_scan_busy
  /\ scanning' = FALSE /\ Answer
  /\ tick' = "wait"
  /\ UNCHANGED <<settings, ap, sta, router, s_scan_requested, internet, connected, wanted,
                 webTask, serialTask, events>>

Retries == ssid # "none" /\ (forceReconnectSTA \/ due)

(* While something is uploaded, nothing of the rest is done. *)
UploadGoesOn ==
  /\ PastScan /\ ~s_scan_busy /\ otaUploadInProgress
  /\ TickEnds
  /\ UNCHANGED <<settings, ap, sta, router, scan, internet, webTask, serialTask, events>>

Connect ==
  /\ PastScan /\ ~s_scan_busy /\ ~connected /\ ~otaUploadInProgress
  /\ IF Retries
       THEN /\ due' = FALSE /\ forceReconnectSTA' = FALSE
            /\ config' = ssid
            /\ link' = IF link = "down" THEN "connecting" ELSE link
       ELSE UNCHANGED sta
  /\ TickEnds
  /\ UNCHANGED <<settings, ap, router, scan, internet, webTask, serialTask, events>>

(* update_internet_status *)
LastOkMutant == IF link = "up" /\ (uplink \/ lastOk # "never") THEN "fresh" ELSE lastOk
LastOk == IF link = "up" /\ uplink THEN "fresh" ELSE lastOk
Gone == ~uplink /\ LastOk = "stale"

Checks == PastScan /\ ~s_scan_busy /\ connected /\ ~otaUploadInProgress

(* On to bd_fwupdate_check, which looks at neither. *)
ToUpdateCheck == tick' = "update" /\ connected' = FALSE /\ wanted' = FALSE

CheckInternet ==
  /\ Checks
  /\ IF link = "up" /\ Gone
       THEN tick' = "rebooted" /\ UNCHANGED <<connected, wanted>>
       ELSE ToUpdateCheck
  /\ lastOk' = LastOk
  /\ UNCHANGED <<settings, ap, sta, router, scan, uplink, webTask, serialTask, events>>

(* The last check is not long enough ago. *)
NoCheck ==
  /\ Checks
  /\ ToUpdateCheck
  /\ UNCHANGED <<settings, ap, sta, router, scan, internet, webTask, serialTask, events>>

(* bd_fwupdate_check: nothing to install, or an update that reboots, or    *)
(* one that fails and clears the flag, of an upload begun meanwhile too.   *)
UpdateCheck ==
  /\ tick = "update"
  /\ \/ TickEnds /\ otaUploadInProgress' \in {otaUploadInProgress, FALSE}
     \/ tick' = "rebooted" /\ UNCHANGED <<connected, wanted, otaUploadInProgress>>
  /\ UNCHANGED <<settings, ap, sta, router, scan, internet, web, changed, serialTask, events>>

NetTask ==
  \/ TickBegins \/ RestartAp \/ ApplyPolicy
  \/ ScanBegins \/ ScanStarts \/ ScanGoesOn \/ ScanTimesOut
  \/ UploadGoesOn \/ Connect \/ CheckInternet \/ NoCheck \/ UpdateCheck

Up == tick # "rebooted"

-----------------------------------------------------------------------------
(* The driver and the event handler, on_wifi_event.                        *)

Connects ==
  /\ Up /\ link = "connecting" /\ router /\ config = "right"
  /\ link' = "up"
  /\ UNCHANGED <<settings, ap, config, due, forceReconnectSTA, router, scan, internet,
                 netTask, webTask, serialTask, events>>

ConnectFails ==
  /\ Up /\ link = "connecting"
  /\ IF router /\ config = "right" THEN Event("outage") ELSE UNCHANGED events
  /\ link' = "down"
  /\ UNCHANGED <<settings, ap, config, due, forceReconnectSTA, router, scan, internet,
                 netTask, webTask, serialTask>>

(* With the router switched off, or by itself. *)
LinkLost ==
  /\ Up /\ link = "up" /\ Event("outage")
  /\ link' = "down" /\ router' \in {router, FALSE}
  /\ UNCHANGED <<settings, ap, config, due, forceReconnectSTA, scan, internet,
                 netTask, webTask, serialTask>>

RouterBack ==
  /\ Up /\ ~router
  /\ router' = TRUE
  /\ UNCHANGED <<settings, ap, sta, scan, internet, netTask, webTask, serialTask, events>>

(* Only a scan of ours is reported. *)
ScanDone ==
  /\ Up /\ scanning
  /\ scanning' = FALSE
  /\ IF s_scan_busy THEN Answer ELSE UNCHANGED <<s_scan_busy, owed>>
  /\ UNCHANGED <<settings, ap, sta, router, s_scan_requested, internet, netTask,
                 webTask, serialTask, events>>

(* The driver drops a scan without a word, for a connect. *)
ScanLost ==
  /\ Up /\ scanning /\ Event("abort")
  /\ scanning' = FALSE
  /\ UNCHANGED <<settings, ap, sta, router, s_scan_requested, s_scan_busy, owed, internet,
                 netTask, webTask, serialTask>>

Uplink ==
  /\ Up
  /\ IF uplink THEN Event("outage") ELSE UNCHANGED events
  /\ uplink' = ~uplink
  /\ UNCHANGED <<settings, ap, sta, router, scan, lastOk, netTask,
                 webTask, serialTask>>

(* A client joins the access point or leaves it. *)
Client ==
  /\ Up /\ apOn
  /\ client' = ~client
  /\ UNCHANGED <<settings, apOn, s_ap_active, s_ap_window_open, idle, restartAP, sta, router,
                 scan, internet, netTask, webTask, serialTask, events>>

(* Time passes. *)
RetryDue ==
  /\ Up /\ ~due /\ due' = TRUE
  /\ UNCHANGED <<settings, ap, link, config, forceReconnectSTA, router, scan, internet,
                 netTask, webTask, serialTask, events>>

IdleOver ==
  /\ Up /\ s_ap_window_open /\ ~idle /\ idle' = TRUE
  /\ UNCHANGED <<settings, apOn, s_ap_active, s_ap_window_open, client, restartAP, sta, router,
                 scan, internet, netTask, webTask, serialTask, events>>

GoesStale ==
  /\ Up /\ lastOk = "fresh" /\ lastOk' = "stale"
  /\ UNCHANGED <<settings, ap, sta, router, scan, uplink, netTask, webTask, serialTask, events>>

-----------------------------------------------------------------------------
(* The HTTP server task: the commands wifi_scan and save_wifi, uploads.    *)

AskScan ==
  /\ Up /\ web = "idle" /\ Event("scan")
  /\ ~(s_scan_requested \/ s_scan_busy)  \* else "Scan already running..."
  /\ s_scan_requested' = TRUE /\ owed' = TRUE
  /\ UNCHANGED <<settings, ap, sta, router, s_scan_busy, scanning, internet, netTask,
                 webTask, serialTask>>

(* The settings change, and are written to flash, before the rest. *)
SaveWifi ==
  /\ Up /\ web = "idle" /\ Event("save")
  /\ rule' \in Rules /\ ssid' \in Credentials
  /\ changed' = {c \in {"autoOff", "sta"} :
       CASE c = "autoOff" -> rule' = "apAutoOff" /\ rule # "apAutoOff"
         [] c = "sta" -> ssid' # ssid}
  /\ web' = "saved" /\ UNCHANGED otaUploadInProgress
  /\ UNCHANGED <<ap, sta, router, scan, internet, netTask, serialTask>>

(* bd_net_ap_activate, bd_net_request_ap_restart when the name or password *)
(* of the access point is a new one, bd_net_request_sta_reconnect.         *)
ApplyWifi ==
  /\ Up /\ web = "saved"
  /\ s_ap_window_open' = (s_ap_window_open \/ "autoOff" \in changed)
  /\ idle' = (idle /\ "autoOff" \notin changed)
  /\ restartAP' \in {restartAP, TRUE}
  /\ forceReconnectSTA' = (forceReconnectSTA \/ "sta" \in changed)
  /\ web' = "idle" /\ changed' = {} /\ UNCHANGED otaUploadInProgress
  /\ UNCHANGED <<settings, apOn, s_ap_active, client, link, config, due, router, scan, internet,
                 netTask, serialTask, events>>

(* update_handler.  A client that is silent is waited for, as long as it   *)
(* takes: no fairness says that an upload ends.                            *)
UploadBegins ==
  /\ Up /\ web = "idle" /\ Event("upload")
  /\ web' = "upload" /\ otaUploadInProgress' = TRUE
  /\ UNCHANGED <<settings, ap, sta, router, scan, internet, netTask, changed, serialTask>>

(* A new firmware reboots. *)
UploadEnds ==
  /\ Up /\ web = "upload"
  /\ web' = "idle" /\ otaUploadInProgress' = FALSE
  /\ tick' \in {tick, "rebooted"}
  /\ UNCHANGED <<settings, ap, sta, router, scan, internet, connected, wanted, changed,
                 serialTask, events>>

(* bd_net_ap_activate by the button. *)
Button ==
  /\ Up /\ Event("button")
  /\ s_ap_window_open' = TRUE /\ idle' = FALSE
  /\ UNCHANGED <<settings, apOn, s_ap_active, client, restartAP, sta, router, scan, internet,
                 netTask, webTask, serialTask>>

-----------------------------------------------------------------------------
(* The serial task: handle_serial_line, bd_net_connect_blocking.           *)

(* The settings, the mode and the configuration of the driver. *)
Provision ==
  /\ Up /\ serial = "idle" /\ Event("serial")
  /\ ssid' \in Credentials \ {"none"} /\ config' = ssid'
  /\ s_blocking_connect' = TRUE /\ apOn' = TRUE
  /\ provisioned' = TRUE
  /\ serial' = "connect"
  /\ UNCHANGED <<rule, s_ap_active, s_ap_window_open, idle, client, restartAP, link, due,
                 forceReconnectSTA, router, scan, internet, netTask, webTask>>

(* Another connection is dropped; up to three attempts. *)
ProvisionConnects ==
  /\ Up
  /\ \/ serial = "connect"
     \/ serial = "wait" /\ link = "down"
  /\ link' = "connecting" /\ serial' = "wait"
  /\ UNCHANGED <<settings, ap, config, due, forceReconnectSTA, router, scan, internet, netTask,
                 webTask, s_blocking_connect, provisioned, events>>

ProvisionEnds ==
  /\ Up /\ serial = "wait"
  /\ serial' = "idle" /\ s_blocking_connect' = FALSE
  /\ forceReconnectSTA' = (forceReconnectSTA \/ link # "up")
  /\ UNCHANGED <<settings, ap, link, config, due, router, scan, internet, netTask, webTask,
                 provisioned, events>>

-----------------------------------------------------------------------------
Driver == Connects \/ ConnectFails \/ LinkLost \/ RouterBack \/ ScanDone \/ ScanLost
          \/ Uplink \/ Client
Time == RetryDue \/ IdleOver \/ GoesStale
Commands == AskScan \/ SaveWifi \/ ApplyWifi \/ UploadBegins \/ UploadEnds \/ Button
SerialTask == Provision \/ ProvisionConnects \/ ProvisionEnds

Next == NetTask \/ Driver \/ Time \/ Commands \/ SerialTask

Spec == Init /\ [][Next]_vars

(* The tasks run, a connect succeeds or fails, and a time that is waited   *)
(* for is over in the end.                                                 *)
Fairness ==
  /\ WF_vars(NetTask) /\ SF_vars(ScanTimesOut) /\ SF_vars(CheckInternet)
  /\ WF_vars(RetryDue) /\ WF_vars(IdleOver) /\ WF_vars(GoesStale)
  /\ WF_vars(Connects \/ ConnectFails)
  /\ WF_vars(ApplyWifi) /\ WF_vars(ProvisionConnects) /\ WF_vars(ProvisionEnds)

FairSpec == Spec /\ Fairness

-----------------------------------------------------------------------------
(* The state is what the code's variables can hold. *)
TypeOK ==
  /\ rule \in Rules /\ ssid \in Credentials /\ config \in Credentials
  /\ {apOn, s_ap_active, s_ap_window_open, idle, client, restartAP} \subseteq BOOLEAN
  /\ {due, forceReconnectSTA, router, s_scan_requested, s_scan_busy, scanning} \subseteq BOOLEAN
  /\ {s_blocking_connect, uplink, connected, wanted, owed, provisioned} \subseteq BOOLEAN
  /\ otaUploadInProgress \in BOOLEAN
  /\ lastOk \in {"never", "fresh", "stale"}
  /\ link \in {"down", "connecting", "up"}
  /\ tick \in {"idle", "restartAP", "policy", "scan", "start", "wait", "update", "rebooted"}
  /\ web \in {"idle", "saved", "upload"} /\ changed \subseteq {"autoOff", "sta"}
  /\ serial \in {"idle", "connect", "wait"}
  /\ events \in 0 .. MaxEvents

(* A station whose settings are right gets back on the air when the router *)
(* is: whatever scan, serial connect or failed attempt came before, "never *)
(* stop" (bd_net.cpp:647); but not while something is uploaded.            *)
Reconnects ==
  <>[](router /\ ssid = "right" /\ ~otaUploadInProgress) => <>[](~Up \/ link = "up")

(* The same promise without the exception.                                 *)
NeverStops == <>[](router /\ ssid = "right") => <>[](~Up \/ link = "up")

(* Whoever asks for a scan gets a result or an error, although the driver  *)
(* refuses scans, drops them, or reports them too late (bd_net.cpp:253).   *)
ScanAnswered == owed ~> (~Up \/ ~owed)

(* "closed after CONFIG_BDGS_AP_IDLE_OFF_MIN minutes without a client"     *)
(* (bd_net.cpp:557), once nobody has provisioned the station over its      *)
(* serial port since it started.                                           *)
ApCloses == <>[](rule = "apAutoOff" /\ ~client) => <>[](~Up \/ ~apOn \/ provisioned)

(* The same promise for every station. *)
AutoOffApIsOff == <>[](rule = "apAutoOff" /\ ~client) => <>[](~Up \/ ~apOn)

(* "If WiFi is up but the internet has been gone for >5 min after having   *)
(* worked before ... reboot to recover" (bd_net.cpp:182).  An upload puts  *)
(* it off; the time without internet goes on meanwhile, and what is due is *)
(* due again when the upload is over.                                      *)
WatchdogReboots ==
  lastOk # "never" /\ ~uplink ~> (uplink \/ link # "up" \/ otaUploadInProgress \/ ~Up)

(* The same promise without the exception.                                 *)
WatchdogNotPutOff == lastOk # "never" /\ ~uplink ~> (uplink \/ link # "up" \/ ~Up)
=============================================================================
