----------------------------- MODULE SelfUpdate -----------------------------
(***************************************************************************)
(* How the ground station updates itself: the update check of the net task *)
(* (components/bdgs/ota/bd_fwupdate.cpp), the upload of the HTTP server    *)
(* task (update_handler in web/bd_http.cpp), the confirmation and the deep *)
(* sleep of the power task (power/bd_power.cpp), and ESP-IDF's bootloader  *)
(* and OTA functions as these use them.  The three tasks run at the same   *)
(* time; a reset may come between any two steps.                           *)
(*                                                                         *)
(* An image is written in pieces.  The first piece of a firmware holds its *)
(* description, that of a web UI its directory with the version.           *)
(*                                                                         *)
(* A definition named ...Mutant is what a slip in the code would make of   *)
(* the one after it; it is used nowhere.                                   *)
(***************************************************************************)
EXTENDS Naturals

CONSTANTS
  MaxVersion,  \* versions are numbers, compared as fw_version_compare does
  Bad,         \* those that crash before their tasks run
  UiVersions,  \* those published with a web UI
  Pieces,      \* pieces of an image
  Battery,     \* settings.batteryPowered
  AutoUpdate,  \* settings.autoUpdate
  MaxUploads, MaxChanges,  \* bounds: uploads, changes of the channel
  FaultKinds,  \* what may go wrong in a run: "reset", "net", "abort",
               \* "tail", "sleep", "lowBattery"
  MaxFaults    \* bound: how often something goes wrong

Versions == 1 .. MaxVersion
Slots == {0, 1}

ASSUME UpdateAssumption ==
  /\ MaxVersion \in Nat \ {0} /\ Pieces \in Nat \ {0}
  /\ Bad \subseteq Versions \ {1} /\ UiVersions \subseteq Versions
  /\ Battery \in BOOLEAN /\ AutoUpdate \in BOOLEAN
  /\ MaxUploads \in Nat /\ MaxChanges \in Nat /\ MaxFaults \in Nat

Erased == 0
Junk == MaxVersion + 1   \* written without erasing
Empty == MaxVersion + 2  \* a formatted file system
Content == Versions \cup {Erased, Junk, Empty}
Images == [1 .. Pieces -> Content]

VARIABLES
  slot,     \* the two application slots
  www,      \* the partition of the web UI
  st,       \* OTA state of the image in each slot
  latest,   \* the slot last selected to boot from
  running,  \* the slot of the firmware that runs
  phase,    \* "start" until the tasks are created, then "up"
  mounted,  \* s_mounted: the web UI's file system is in use
  flag,     \* otaUploadInProgress
  net,      \* where the net task is in its update check
  offer,    \* the manifest entry in hand: a version, or 0
  npos,     \* the piece it writes
  http,     \* where the HTTP server task is in an upload
  upload,   \* the upload in hand: its kind and version
  hpos,     \* the piece it writes
  channel,  \* the version the update channel offers
  uploads, changes, faults,
  burnt,    \* history variable: versions rolled back
  kept,     \* history variable: {the version rolled back last}, until
            \* another update of its slot has begun
  trialUi,  \* history variable: {the web UI an unconfirmed firmware found},
            \* while nobody has uploaded another
  dozed     \* history variable: low battery confirmed a firmware that had
            \* not started its tasks

flash == <<slot, www>>
otadata == <<st, latest>>
netVars == <<net, offer, npos>>
httpVars == <<http, upload, hpos>>
bounds == <<uploads, changes, faults>>
ghosts == <<burnt, kept, trialUi, dozed>>
vars == <<flash, otadata, running, phase, mounted, flag, netVars, httpVars,
          channel, bounds, ghosts>>

NoUpload == [kind |-> "none", version |-> 0]
Blank == [p \in 1 .. Pieces |-> Erased]
Image(v) == [p \in 1 .. Pieces |-> v]

(* A station with version 1 in the first slot and the web UI of it. *)
Init ==
  /\ slot = [s \in Slots |-> IF s = 0 THEN Image(1) ELSE Blank]
  /\ www = Image(1)
  /\ st = [s \in Slots |-> IF s = 0 THEN "valid" ELSE "none"]
  /\ latest = 0 /\ running = 0
  /\ phase = "start" /\ mounted = FALSE /\ flag = FALSE
  /\ net = "idle" /\ offer = 0 /\ npos = 1
  /\ http = "idle" /\ upload = NoUpload /\ hpos = 1
  /\ channel = 1
  /\ uploads = 0 /\ changes = 0 /\ faults = 0
  /\ burnt = {} /\ kept = {} /\ trialUi = {} /\ dozed = FALSE

Fault(kind) ==
  /\ kind \in FaultKinds
  /\ faults < MaxFaults
  /\ faults' = faults + 1
  /\ UNCHANGED <<uploads, changes>>

-----------------------------------------------------------------------------
(* ESP-IDF.                                                                *)

Other(s) == 1 - s
Head(image) == image[1]
Whole(image) == \E v \in Versions : image = Image(v)
Ver(s) == Head(slot[s])

Erase(image) == Blank

(* Whether piece p of an image is still to be written. *)
ToWrite(p) == p <= Pieces

(* esp_partition_write: flash can only be programmed where it is erased. *)
Program(image, p, v) == [image EXCEPT ![p] = IF @ = Erased THEN v ELSE Junk]

(* esp_https_ota erases each sector before it writes it. *)
Rewrite(image, p, v) == [image EXCEPT ![p] = v]

(* esp_ota_get_next_update_partition *)
NextSlotMutant == Other(latest)
NextSlot == Other(running)

(* esp_ota_mark_app_valid_cancel_rollback *)
Confirmed(states) == [states EXCEPT ![running] = "valid"]

(* esp_ota_begin; whether it forgets the state of the image it is about to *)
(* replace depends on the version of ESP-IDF.                              *)
Opened(s, states) == {states, [states EXCEPT ![s] = "none"]}

(* What the bootloader does to the OTA states, and what it starts. *)
RolledBack(states) == [s \in Slots |-> IF states[s] = "pending" THEN "aborted" ELSE states[s]]
Selected(states) == IF states[latest] \in {"new", "valid"} THEN latest ELSE Other(latest)

Bootloader(states) ==
  LET after == RolledBack(states)
      pick == Selected(after)
  IN /\ st' = [after EXCEPT ![pick] = IF @ = "new" THEN "pending" ELSE @]
     /\ running' = IF Whole(slot[pick]) THEN pick ELSE Other(pick)

(* A reset, with the OTA states found afterwards. *)
Boot(states) ==
  /\ Bootloader(states)
  /\ phase' = "start" /\ mounted' = FALSE /\ flag' = FALSE
  /\ net' = "idle" /\ offer' = 0 /\ npos' = 1
  /\ http' = "idle" /\ upload' = NoUpload /\ hpos' = 1
  /\ LET failed == IF states[running] = "pending" THEN {Ver(running)} ELSE {}
     IN /\ burnt' = burnt \cup failed
        /\ kept' = IF failed # {} THEN failed ELSE kept
  /\ trialUi' = IF st'[running'] = "pending" /\ Head(www) \in Versions THEN {www} ELSE {}
  /\ UNCHANGED <<flash, latest, channel>>

-----------------------------------------------------------------------------
(* Start and end of the firmware.                                          *)

(* bd_storage_mount formats what cannot be mounted. *)
Mounted(image) ==
  IF Head(image) \in {Erased, Junk} THEN [image EXCEPT ![1] = Empty] ELSE image

Mount == mounted' = TRUE /\ www' = IF mounted THEN www ELSE Mounted(www)

(* handleLowBatteryAtStartup: the image is confirmed and the station sleeps. *)
LowBattery ==
  /\ phase = "start" /\ Battery
  /\ Fault("lowBattery")
  /\ Boot(Confirmed(st))
  /\ dozed' = (dozed \/ st[running] = "pending")

StartFails ==
  /\ phase = "start" /\ Ver(running) \in Bad
  /\ Boot(st)
  /\ UNCHANGED <<bounds, dozed>>

Start ==
  /\ phase = "start" /\ Ver(running) \notin Bad
  /\ phase' = "up" /\ Mount
  /\ UNCHANGED <<slot, otadata, running, flag, netVars, httpVars, channel, bounds, ghosts>>

(* A crash, power loss, or a restart somebody asked for. *)
Reset ==
  /\ phase = "up" /\ Fault("reset")
  /\ Boot(st)
  /\ UNCHANGED dozed

-----------------------------------------------------------------------------
(* The power task.                                                         *)

Confirm ==
  /\ phase = "up" /\ st[running] = "pending"
  /\ st' = Confirmed(st)
  /\ UNCHANGED <<flash, latest, running, phase, mounted, flag, netVars, httpVars,
                 channel, bounds, ghosts>>

(* handle_battery_and_sleep, enterDeepSleepForSeconds *)
DeepSleep ==
  /\ phase = "up" /\ Battery /\ ~flag
  /\ Fault("sleep")
  /\ Boot(Confirmed(st))
  /\ UNCHANGED dozed
-----------------------------------------------------------------------------
(* The net task: bd_fwupdate_check.                                        *)

(* net_tick looks at the flag once; the requests that follow take seconds. *)
CheckBegins ==
  /\ phase = "up" /\ net = "idle" /\ ~flag
  /\ net' = "fetch"
  /\ UNCHANGED <<flash, otadata, running, phase, mounted, flag, offer, npos, httpVars,
                 channel, bounds, ghosts>>

FetchManifest ==
  /\ net = "fetch"
  /\ net' = "sync" /\ offer' = channel
  /\ UNCHANGED <<flash, otadata, running, phase, mounted, flag, npos, httpVars,
                 channel, bounds, ghosts>>

FetchFails ==
  /\ net = "fetch" /\ Fault("net")
  /\ net' = "idle"
  /\ UNCHANGED <<flash, otadata, running, phase, mounted, flag, offer, npos, httpVars,
                 channel, ghosts>>

(* sync_web_ui.  bd_storage_has_web_ui looks for a name in the directory,  *)
(* bd_storage_web_ui_version for the version beside it.                    *)
HasWebUi == mounted /\ Head(www) \in Versions
MatchingMutant == offer = Head(www)
Matching == offer = Ver(running)
RunningConfirmedMutant == TRUE
RunningConfirmed == st[running] # "pending"

UiIsCurrent == HasWebUi /\ Head(www) = Ver(running)

UiStays ==
  \/ UiIsCurrent
  \/ offer \notin UiVersions
  \/ HasWebUi /\ (~Matching \/ ~RunningConfirmed)

SyncSkips ==
  /\ net = "sync" /\ UiStays
  /\ net' = "decide"
  /\ UNCHANGED <<flash, otadata, running, phase, mounted, flag, offer, npos, httpVars,
                 channel, bounds, ghosts>>

SyncStarts ==
  /\ net = "sync" /\ ~UiStays
  /\ net' = "uiOpen"
  /\ UNCHANGED <<flash, otadata, running, phase, mounted, flag, offer, npos, httpVars,
                 channel, bounds, ghosts>>

(* download_web_image: the server has answered. *)
UiErase ==
  /\ net = "uiOpen"
  /\ mounted' = FALSE /\ www' = Erase(www)
  /\ net' = "uiWrite"
  /\ UNCHANGED <<slot, otadata, running, phase, flag, offer, npos, httpVars,
                 channel, bounds, ghosts>>

UiWrite ==
  /\ net = "uiWrite" /\ ToWrite(npos)
  /\ www' = Program(www, npos, offer) /\ npos' = npos + 1
  /\ UNCHANGED <<slot, otadata, running, phase, mounted, flag, net, offer, httpVars,
                 channel, bounds, ghosts>>

UiDone ==
  /\ net = "uiWrite" /\ ~ToWrite(npos)
  /\ Mount
  /\ net' = "decide" /\ npos' = 1
  /\ UNCHANGED <<slot, otadata, running, phase, flag, offer, httpVars,
                 channel, bounds, ghosts>>

(* The server does not answer, or the download stalls before it is over. *)
UiFails ==
  /\ Fault("net")
  /\ \/ net = "uiOpen" /\ UNCHANGED <<mounted, www>>
     \/ net = "uiWrite" /\ Mount
  /\ net' = "decide" /\ npos' = 1
  /\ UNCHANGED <<slot, otadata, running, phase, flag, offer, httpVars, channel, ghosts>>

(* rolled_back_version *)
WasRolledBackMutant(v) == \E s \in Slots : st[s] = "pending" /\ Ver(s) = v
WasRolledBack(v) == \E s \in Slots : st[s] = "aborted" /\ Ver(s) = v

NetIdle == net' = "idle" /\ offer' = 0 /\ npos' = 1

NothingToInstall ==
  /\ net = "decide"
  /\ offer <= Ver(running) \/ WasRolledBack(offer) \/ ~AutoUpdate
  /\ NetIdle
  /\ UNCHANGED <<flash, otadata, running, phase, mounted, flag, httpVars,
                 channel, bounds, ghosts>>

(* bd_fwupdate_install: an unconfirmed image may not start another update. *)
Install ==
  /\ net = "decide"
  /\ offer > Ver(running) /\ ~WasRolledBack(offer) /\ AutoUpdate
  /\ st' = Confirmed(st)
  /\ flag' = TRUE
  /\ net' = "open"
  /\ UNCHANGED <<flash, latest, running, phase, mounted, offer, npos, httpVars,
                 channel, bounds, ghosts>>

(* esp_https_ota_begin *)
InstallOpens ==
  /\ net = "open"
  /\ st' \in Opened(NextSlot, st)
  /\ kept' = {}
  /\ net' = "write"
  /\ UNCHANGED <<flash, latest, running, phase, mounted, flag, offer, npos, httpVars,
                 channel, bounds, burnt, trialUi, dozed>>

InstallWrites ==
  /\ net = "write" /\ ToWrite(npos)
  /\ slot' = [slot EXCEPT ![NextSlot] = Rewrite(@, npos, offer)]
  /\ npos' = npos + 1
  /\ UNCHANGED <<www, otadata, running, phase, mounted, flag, net, offer, httpVars,
                 channel, bounds, ghosts>>

(* esp_ota_end and esp_ota_set_boot_partition check the image. *)
Checks(image) == Whole(image)
SelectMutant(s) == st' = [st EXCEPT ![running] = "new"] /\ latest' = running
Select(s) == st' = [st EXCEPT ![s] = "new"] /\ latest' = s

InstallFinishes ==
  /\ net = "write" /\ ~ToWrite(npos) /\ Checks(slot[NextSlot])
  /\ Select(NextSlot)
  /\ net' = "restart" /\ npos' = 1
  /\ UNCHANGED <<flash, running, phase, mounted, flag, offer, httpVars,
                 channel, bounds, ghosts>>

InstallEnds == flag' = FALSE /\ NetIdle

InstallRejected ==
  /\ net = "write" /\ ~ToWrite(npos) /\ ~Checks(slot[NextSlot])
  /\ InstallEnds
  /\ UNCHANGED <<flash, otadata, running, phase, mounted, httpVars, channel, bounds, ghosts>>

InstallFails ==
  /\ net \in {"open", "write"} /\ Fault("net")
  /\ InstallEnds
  /\ UNCHANGED <<flash, otadata, running, phase, mounted, httpVars, channel, ghosts>>

InstallRestarts ==
  /\ net = "restart"
  /\ Boot(st)
  /\ UNCHANGED <<bounds, dozed>>

-----------------------------------------------------------------------------
(* The HTTP server task: update_handler.                                   *)

UploadBegins(kind, v) ==
  /\ phase = "up" /\ http = "idle" /\ uploads < MaxUploads
  /\ uploads' = uploads + 1
  /\ flag' = TRUE
  /\ http' = "open" /\ upload' = [kind |-> kind, version |-> v]
  /\ UNCHANGED <<flash, otadata, running, phase, mounted, netVars, hpos,
                 channel, changes, faults, ghosts>>

(* upload_begin *)
UploadOpensUi ==
  /\ http = "open" /\ upload.kind = "ui"
  /\ mounted' = FALSE /\ www' = Erase(www)
  /\ trialUi' = {}
  /\ http' = "write"
  /\ UNCHANGED <<slot, otadata, running, phase, flag, netVars, upload, hpos,
                 channel, bounds, burnt, kept, dozed>>

UploadOpensFirmware ==
  /\ http = "open" /\ upload.kind = "firmware"
  /\ st' \in Opened(NextSlot, Confirmed(st))
  /\ slot' = [slot EXCEPT ![NextSlot] = Erase(@)]
  /\ kept' = {}
  /\ http' = "write"
  /\ UNCHANGED <<www, latest, running, phase, mounted, flag, netVars, upload, hpos,
                 channel, bounds, burnt, trialUi, dozed>>

UploadWrites ==
  /\ http = "write" /\ ToWrite(hpos)
  /\ \/ /\ upload.kind = "ui"
        /\ www' = Program(www, hpos, upload.version)
        /\ UNCHANGED slot
     \/ /\ upload.kind = "firmware"
        /\ slot' = [slot EXCEPT ![NextSlot] = Program(@, hpos, upload.version)]
        /\ UNCHANGED www
  /\ hpos' = hpos + 1
  /\ UNCHANGED <<otadata, running, phase, mounted, flag, netVars, http, upload,
                 channel, bounds, ghosts>>

(* Without a terminator the rest of the body is written at the end, and    *)
(* nobody asks whether that went well.                                     *)
UploadTailLost ==
  /\ http = "write" /\ hpos = Pieces /\ Fault("tail")
  /\ hpos' = hpos + 1
  /\ UNCHANGED <<flash, otadata, running, phase, mounted, flag, netVars, http, upload,
                 channel, ghosts>>

UploadEnds == flag' = FALSE /\ http' = "idle" /\ upload' = NoUpload /\ hpos' = 1

(* upload_finish *)
UploadFinishesUi ==
  /\ http = "write" /\ ~ToWrite(hpos) /\ upload.kind = "ui"
  /\ Mount /\ UploadEnds
  /\ UNCHANGED <<slot, otadata, running, phase, netVars, channel, bounds, ghosts>>

UploadFinishesFirmware ==
  /\ http = "write" /\ ~ToWrite(hpos) /\ upload.kind = "firmware"
  /\ \/ /\ Checks(slot[NextSlot]) /\ Select(NextSlot)
        /\ http' = "restart" /\ hpos' = 1
        /\ UNCHANGED <<flag, upload>>
     \/ /\ ~Checks(slot[NextSlot])
        /\ UploadEnds
        /\ UNCHANGED otadata
  /\ UNCHANGED <<flash, running, phase, mounted, netVars, channel, bounds, ghosts>>

(* The client goes away, or a step before has failed; esp_ota_begin fails  *)
(* only after the running image has been confirmed.                        *)
UploadFails ==
  /\ http \in {"open", "write"} /\ Fault("abort")
  /\ st' \in IF http = "open" /\ upload.kind = "firmware" THEN {st, Confirmed(st)} ELSE {st}
  /\ IF http = "write" /\ upload.kind = "ui" THEN Mount ELSE UNCHANGED <<mounted, www>>
  /\ UploadEnds
  /\ UNCHANGED <<slot, latest, running, phase, netVars, channel, ghosts>>

UploadRestarts ==
  /\ http = "restart"
  /\ Boot(st)
  /\ UNCHANGED <<bounds, dozed>>

-----------------------------------------------------------------------------
(* The update server publishes another version, or withdraws one; or the   *)
(* user changes the channel.                                               *)
Publish(v) ==
  /\ v # channel /\ changes < MaxChanges
  /\ channel' = v /\ changes' = changes + 1
  /\ UNCHANGED <<flash, otadata, running, phase, mounted, flag, netVars, httpVars,
                 uploads, faults, ghosts>>

Startup == LowBattery \/ StartFails \/ Start

NetStep ==
  \/ FetchManifest \/ FetchFails \/ SyncSkips \/ SyncStarts
  \/ UiErase \/ UiWrite \/ UiDone \/ UiFails
  \/ NothingToInstall \/ Install \/ InstallOpens \/ InstallWrites
  \/ InstallFinishes \/ InstallRejected \/ InstallFails \/ InstallRestarts

HttpStep ==
  \/ UploadOpensUi \/ UploadOpensFirmware \/ UploadWrites \/ UploadTailLost
  \/ UploadFinishesUi \/ UploadFinishesFirmware \/ UploadFails \/ UploadRestarts

Next ==
  \/ Startup \/ Reset \/ Confirm \/ DeepSleep
  \/ CheckBegins \/ NetStep
  \/ \E kind \in {"ui", "firmware"}, v \in Versions : UploadBegins(kind, v)
  \/ HttpStep
  \/ \E v \in Versions : Publish(v)

Spec == Init /\ [][Next]_vars

(* The station starts; its tasks go on; the check is repeated.             *)
FairSpec ==
  /\ Spec
  /\ WF_vars(Startup) /\ WF_vars(Confirm)
  /\ WF_vars(CheckBegins) /\ WF_vars(NetStep) /\ WF_vars(HttpStep)

-----------------------------------------------------------------------------
(* Properties.                                                             *)

NetPlaces == {"idle", "fetch", "sync", "uiOpen", "uiWrite", "decide", "open",
              "write", "restart"}

(* Each variable has the values the program can give it. *)
TypeOK ==
  /\ slot \in [Slots -> Images] /\ www \in Images
  /\ st \in [Slots -> {"none", "new", "pending", "valid", "aborted"}]
  /\ latest \in Slots /\ running \in Slots
  /\ phase \in {"start", "up"} /\ mounted \in BOOLEAN /\ flag \in BOOLEAN
  /\ net \in NetPlaces /\ offer \in 0 .. MaxVersion /\ npos \in 1 .. (Pieces + 1)
  /\ http \in {"idle", "open", "write", "restart"}
  /\ upload \in [kind : {"ui", "firmware"}, version : Versions] \cup {NoUpload}
  /\ hpos \in 1 .. (Pieces + 1)
  /\ channel \in Versions
  /\ uploads \in Nat /\ changes \in Nat /\ faults \in Nat
  /\ burnt \subseteq Versions /\ kept \subseteq Versions
  /\ trialUi \subseteq Images /\ dozed \in BOOLEAN

(* Whatever is under way, and whichever of two updates at a time wins: a   *)
(* firmware that has not confirmed itself has a whole, confirmed one to    *)
(* fall back to, and the one running is never written over.                *)
FallbackKept ==
  /\ Whole(slot[running])
  /\ st[running] = "pending" =>
       st[Other(running)] = "valid" /\ Whole(slot[Other(running)])

(* "A rolled-back firmware keeps the UI it was running with": as long as   *)
(* an update may still be rolled back, the UI stays, unless it was missing *)
(* or somebody uploads another.                                            *)
TrialKeepsUi == st[running] = "pending" /\ trialUi # {} => www \in trialUi

(* The version rolled back last is not installed again by the update check *)
(* until another update has begun in its slot.                             *)
RefusesRolledBack == [][net = "decide" /\ net' = "open" => offer \notin kept]_vars

(* A version that crashes on start is left for good, unless a low battery  *)
(* has confirmed it.                                                       *)
BadIsLeftUnlessDozed == ([]~dozed) => <>[](Ver(running) \notin Bad)

(* Once the firmware is the one of the channel, its web UI follows, as far *)
(* as the code can tell by its first piece, and if uploads come to an end. *)
UiFollows == <>[](Ver(running) = channel /\ channel \in UiVersions \ Bad => UiIsCurrent)

(* A new firmware is tried once and kept only if it is confirmed.          *)
Home == IF st[running] = "pending" THEN Ver(Other(running)) ELSE Ver(running)
Trial == IF st[latest] = "new" /\ Whole(slot[latest]) THEN {Ver(latest)} ELSE {}

Trials == INSTANCE TrialBoot WITH
  Firmwares <- Versions, runs <- Ver(running), home <- Home, trial <- Trial
TrialSpec == Trials!Spec

(* "A failed UI download is simply retried": no check passes over the UI   *)
(* as the current one when it is not whole.                                *)
FailedUiRetried == [][net = "sync" /\ UiIsCurrent /\ net' = "decide" => Whole(www)]_vars

(* "That version is never installed again on this station." *)
NeverInstalledAgain == [][net = "decide" /\ net' = "open" => offer \notin burnt]_vars

(* "A version that does not start properly is rolled back automatically." *)
BadIsLeft == <>[](Ver(running) \notin Bad)

-----------------------------------------------------------------------------
(* The inductive invariant behind the safety properties.                   *)

(* Nobody writes the other slot while the running firmware may have to     *)
(* fall back to it, and nothing is selected that has not been installed.   *)
BootInv ==
  /\ st[running] \in {"pending", "valid"}
  /\ latest # running => st[latest] # "valid"
  /\ net \in {"open", "write", "restart"} => st[running] = "valid"
  /\ http \in {"write", "restart"} /\ upload.kind = "firmware" => st[running] = "valid"

(* The version rolled back last is still in its slot. *)
KeptInv == \A v \in kept :
  /\ WasRolledBack(v)
  /\ net # "write" /\ ~(http = "write" /\ upload.kind = "firmware")

(* Before the tasks run nothing is under way; afterwards the file system   *)
(* of a UI on trial stays mounted, so that the check can see it.           *)
TrialInv ==
  /\ phase = "start" => net = "idle" /\ http = "idle"
  /\ st[running] = "pending" /\ trialUi # {} =>
       /\ trialUi = {www} /\ Head(www) \in Versions
       /\ phase = "up" => mounted
       /\ net \notin {"uiOpen", "uiWrite"}
       /\ ~(http = "write" /\ upload.kind = "ui")

IInv == TypeOK /\ FallbackKept /\ BootInv /\ KeptInv /\ TrialInv
=============================================================================
