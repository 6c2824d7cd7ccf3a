# Formal models of the Breezedude ground station

The ground station (`src/components/bdgs`) is ESP-IDF firmware for a dual-core
ESP32-S3. It receives weather sensors over FANET (LoRa), forwards their data,
updates their firmware and configuration over the air, and serves a web page.
This directory holds TLA+ modules of its parts, TLC configurations that check
them on small instances, and TLAPS proofs for every instance.

    tlc -workers 2 -config ota_attempt.cfg MCOtaTransfer
    tlapm OtaTransfer_proofs.tla

## Inventory

Tasks: radio (priority 6), HTTP server (5), net (4), APRS and DNS (3), power
and serial (2), button. They share memory; queues and locks are few.

| Part | State | Operations | Hard behaviour |
|---|---|---|---|
| `ota/ota_gs.cpp`: sensor update, in the radio task | `s_busy`, debounce, radio mode, the attempt's local variables, history | announcement → backend check → image → handshake → chunks → finish → report | lost, late and resent acknowledgements; a dozen ways out |
| `storage/bd_fwstore.cpp`: images on flash | headers and data in two kinds of partitions, NVS keys for the order of use | find, begin (evict, erase), write, finish | reset between any two writes; fragmentation; rotten data |
| `web/bd_ws_out.cpp`: websocket output | two rings, client table, one queued job | broadcast, send, resync, send_pass | tasks that add while the server task sends; lost jobs; slow clients |
| `ota/config_gs.cpp`: sensor configuration, radio task | one debounce time, up to 16 rounds | query, transmit, wait, confirm | the confirmation fails after the sensor applied; a foreign acknowledgement |
| `ota/bd_fwupdate.cpp`, `power/bd_power.cpp`, upload in `web/bd_http.cpp`: self-update | two application slots, OTA states, web UI partition, shared flags | check, install, upload, confirm, sleep | rollback after a crash; two updates at a time |
| `core/bd_migrate.cpp`: flash layout | partition table, slots, otadata, NVS note, attempts in RTC memory | stages A and B, first boot after | reset between two flash writes |
| `radio/bd_radio.cpp` | receive flag and masked interrupt, radio mode, the schedule's times | receive, FSK windows, sleep | interrupt against task; a delay computed before the sleep |
| `radio/bd_repeat.cpp` | open packets, sources, ring of events | packet, copy, close, late copy, list, clear | full tables; a list read while it changes |
| `net/bd_net.cpp` | WiFi, access point, scan and watchdog flags; forward queue | tick, events, scan, serial connect, forward | five tasks on plain flags; a payload replaced while it is posted |
| `aprs/aprs.cpp` | connection, login, timers | connect, login, beacon, status, data | two tasks, a lock per call; a connection lost between look and use |
| `core/bd_auth.cpp` | sessions, failures, pending requests | login, button | limits, a socket used again |
| diagnostics, statistics, decoders, storage, boot | counters, buffers | formatting, I/O | little |

Interaction: the radio task hears an announcement and runs the whole sensor
update as one call (`ota_gs_try_update`), which reads and writes the image
store and posts to the backend; when there is no update, and once more after it,
it exchanges configurations (`config_gs`). What it receives it counts
(`bd_repeat`), puts into the net task's forward queue and sends over the APRS
connection. It and every other task broadcast over the websocket output; the
HTTP server task alone sends to sockets. The net task keeps WiFi, checks for
updates and reboots a station without internet. The power task reads flags of
the updates before it goes to deep sleep. The migration runs before all of them.

What makes the parts correct, in a sentence each: a sensor never gets an image
with a chunk missing and success is never claimed wrongly; an image that can be
found on flash is whole; a page never misses an event without being told; the
station always comes back from an update, and from the change of its flash
layout, with a firmware that runs; the radio task sleeps over neither a packet
nor a window; what the backend is told was applied was applied; the station
returns to the network by itself; and what it passes on comes in order.

`PROJECT.json` lists the components, the hazards with their lines, the
properties that cover them, and which lines each definition models.

## Modules

| Module | Models |
|---|---|
| `StopAndWait` | the promise of the chunk transfer: sensor and station agree on the image, one chunk apart at most |
| `OtaTransfer` | the sensor update and the sensors; implements `StopAndWait` |
| `OtaTransfer_proofs` | its theorems |
| `ImageCache` | the promise of the image store: a set of whole images that changes by one image at a time |
| `FwStore` | the image store; implements `ImageCache` |
| `FwStore_proofs` | its theorems |
| `WsOut` | the websocket output, its clients and the HTTP server task's side of it |
| `WsOut_proofs` | its theorems |
| `TrialBoot` | the promise of the self-update: a new firmware is tried once, and is left again unless it confirms itself |
| `SelfUpdate` | update check, upload, confirmation, deep sleep, bootloader; implements `TrialBoot` |
| `SelfUpdate_proofs` | its theorems |
| `Migrate` | the move from the two older flash layouts to the present one |
| `Migrate_proofs` | its theorems |
| `RadioIrq` | transceiver, interrupt line, receive flag, modes of the modem |
| `FskSchedule` | when the radio listens to FANET, FLARM and ADS-L, and for how long nothing is due; extends `RadioIrq` |
| `ConfigGs` | the exchange of configurations with a sensor and the backend; extends `RadioIrq` |
| `RadioTask` | the radio task, which composes the three |
| `RadioTask_proofs` | its theorems |
| `Repeat` | which packets came directly, by a repeater or both |
| `Repeat_proofs` | its theorems |
| `Net` | the WiFi side of the net task and those that share its flags |
| `Aprs` | the connection to the APRS server |
| `ForwardQueue` | the ring of payloads for the backend |
| `Uplink` | radio, net and APRS task passing on what is received; composes `Aprs` and `ForwardQueue` |
| `Uplink_proofs` | its theorems |
| `MC...` | instances for TLC: model values, fault sets, symmetry |

A definition named `...Mutant` is not part of a model. It says what a slip in
the code would make of the definition after it, and `PROJECT.json` names the
property that such a slip breaks.

### OtaTransfer

`pc` is the place of the radio task in `ota_gs_try_update`; "listen" is the
task's own loop. An action is the code between two points where a sensor can
act: from a transmission to the wait, from what the wait returns to the next
transmission. The link has one packet of room on each side: `rx` is the packet
behind `receivedFlag`, which every successful transmission and every change of
the radio mode forgets; `inbox` is what a sensor has received and not handled.

Sensors are not in the repository. Their actions (external in the map) say what
the station relies on: chunks are stored in order, an acknowledgement names the
next chunk wanted, READY is sent for a verified image only. They may resend
acknowledgements unasked (`proactive_ack_resend_count`), refuse, or give up.
Chunks carry no nonce, so a sensor left in an abandoned transfer takes the
chunks meant for another one: `own` counts the leading chunks of its own image
apart from the chunks it believes to have.

What may go wrong is a set of `FaultKinds` (lost packets and acknowledgements by
kind, refused transmissions, read errors, refusals, late answers, sensors that
quit), at most `MaxFaults` times. The backend's answers, downloads that fail and
other WiFi failures are not counted as faults: they may happen at any time.
`owed` and `acked` are history variables. `EveryOfferReported` is about the one
call of `reportOtaResult` and its history entry: the POST in it is left out when
WiFi is down (ota_gs.cpp:1096), so the backend may not hear of an offer's end.

Not in it: the history table beyond the newest entry, the values of the
statistics, the two wire protocols' different packet lengths, time as a number
(`waitForPacket` compares with `millis() + timeout`, which wraps), and the
configuration check in the no-update path.

### FwStore

Sectors are numbers over all partitions; `Region` tells the partition. `head` is
the valid header a sector starts with (magic, checksum of the header), `data`
the rest of it: sector k of an image, erased, rotten or anything else. Every
erase, write, NVS key and header is a step, and `Reset` may happen between any
two of them. The request (`bd_fwstore_find`, `begin`, `write`, `finish`) is that
of `obtainFirmwareImage`, its only caller. `entries` is the list that `scan`
returned: `find` and `begin` scan once, and take off the list what they drop,
which is why their loops end (`RequestEnds`). Flash programming only clears
bits: writing where nothing was erased yields garbage (`Programmed`).

Not in it: headers that lose bits by themselves, a magic that cannot be
cleared, and NVS losing keys.

### WsOut

A ring is the sequence of its frames and the count of those that left it, so a
client's position is a number as in the code. Byte sizes are abstracted: a new
frame takes the place of any number of the oldest ones. `schedule_job` is three
steps (`Load`, `Store`, `Queue`), because it runs without the lock in several
tasks. `send_pass` takes the lock anew for each frame and is a step per frame.
`owed` is a history variable: the messages a client should get and has not,
which a resync settles. Whether a socket takes a frame is its peer's choice.
`lost` is one too: a job the mailbox lost excuses what was sent until
`schedule_job` should have queued another, and nothing after that.

Not in it: messages longer than `kMaxFrame` (dropped with a log line, no client
is told), the verbose flags (`RadioTask` has them), sizes in bytes, wrap-around
of times.

### SelfUpdate

Three tasks act at the same time: the net task, whose place in
`bd_fwupdate_check` is `net`; the HTTP server task, whose place in
`update_handler` is `http`; and the power task. An action is what a task does
between two requests, or between two writes to flash. `slot` and `www` hold
images piece by piece; a piece is the version written there, erased, or junk
where something was written without erasing. `st` and `latest` are the OTA data:
the state of the image in each slot, and the slot selected last.

The bootloader and the OTA functions are ESP-IDF's (external in the map) and say
what the code relies on: a selected image is started once as "pending"; if it is
still pending at the next reset, it is "aborted" and the other slot is started;
so is it when the image selected is not whole. `esp_ota_mark_app_valid...`
confirms the running image, `esp_ota_end` and `esp_ota_set_boot_partition`
check an image. Whether `esp_ota_begin` forgets the state of the image it
replaces is left open (`Opened`), because versions of ESP-IDF differ.

A version in `Bad` crashes before its tasks run. `Publish` changes what the
update channel offers, upwards or downwards. `burnt`, `kept`, `trialUi` and
`dozed` are history variables.

Not in it: times (check interval, retry, the delay of the confirmation: it comes
at any time after the start), the lists of channels and branches, how versions
are written and compared, the multipart parser of the upload, flash erase
errors, counts of the wake holds, and firmwares that crash later than at their
start other than by a reset at any point.

### Migrate

Every flash, otadata and NVS write is a step; `PowerCut` is a loss of power and
`Reset` a crash between any two. `slot` holds "this" firmware, the previous one
or part of an image; `prepared` is which of the three areas the new layout needs
inside the old one are ready: the application, the otadata, the NVS. The
attempts are in RTC memory, which survives a reset and not a loss of power; a
station that has used them up runs the application in the old layout and tries
again when it is switched off and on (bd_migrate.cpp:391). That somebody does
is the fairness `WF(PowerCycle)`.

Calls that fail with no more than a log line are remembered in `failed`. One of
them matters to `BootsThis`: if the check of the table just written fails
although the table is good, the firmware goes on in the old layout with a new
table, and an update installed then is written where the old layout has its
slots; after that nothing is promised ("check" in `failed`).

Not in it: sizes and the parser of the new table (one flag, `fits`), the
contents of the NVS, what happens during the write of the table itself, which
the code's own comment calls the only step that must not be interrupted.

### RadioIrq, FskSchedule, ConfigGs, RadioTask

`RadioTask` is the loop of `radio_task`: arm the interrupt, sleep, read, answer
an announcement, let the schedule choose the mode, sample the noise floor.
`RadioIrq` is the level-triggered line that masks itself: `enabled` is the mask,
`flag` the flag, `rearm` whether it is to be armed, `notified` the task's
notification; changing a mode may fail for the FSK side or the LoRa side of the
modem. `FskSchedule` has `flarm_scheduler_tick` and
`flarm_scheduler_next_delay_ms` branch for branch, over times that are relative
(since the last switch, until the next window) and capped where no comparison
tells more. The task may sleep for less than the schedule's delay, for the copy
window of a packet the repeater tracking keeps open (`CopyWindows`). A debug
mode ends without a notification when the last page closes (`LastPageCloses`,
bd_ws_out.cpp:174). `ConfigGs` is `processConfigUpdate` step by step, called
from two places of `RadioTask` (through `ota_gs` for the sensor's own
announcement, and from the task itself).

Four things this brought up, which the properties are stated around:

* A transmission that fails returns before `startReceive` (config_gs.cpp:255).
  The radio is then deaf until the schedule changes the mode; on a station for
  FANET alone it never does. `ConfigDelivered` therefore supposes a radio that
  receives again and again.
* A call without a nonce (0) takes any acknowledgement for its own
  (config_gs.cpp:221), a foreign one too, and confirms what no sensor has
  applied. `mistaken` marks the case.
* Setting the clock does not notify the task (nothing in the SNTP callback
  does), so a window may begin while the task still sleeps by the old time.
  `undisturbed` excludes the sleep in which that happens.
* A window interrupted by a debug mode or by settings without FANET is closed
  against the old anchor, and the next may come up to a period later. `owed`,
  the promise `WindowHeard` is about, is void then; the proof attempt found it.

After `notifyNoUpdate` the sensor does not listen any more, which is why a
configuration is asked for before it is sent.

Not in it: what packets say, a second packet while one waits in the transceiver,
the duplicate filters, the station's own FANET transmissions. The 3 s filter for
repeated announcements does not work as meant: `hwInfoStore[i] = newData`
(types.cpp:69) overwrites `last_send` with the uninitialised one of a local
variable, so bd_radio.cpp:1109 compares with garbage. The model lets every
announcement pass or not.

### Repeat

`open` are the packets that still collect copies, `slots` with `head` and
`count` the ring of events, `sources` the table of senders; evicting from each
is as in the code. The radio task's `bd_repeat_tick` and `bd_repeat_note` close
packets one by one, and the HTTP server's listing (`bd_repeat_write`) and
`bd_repeat_reset` come between any two steps, as both hold the lock for one
entry at a time.

Packets are closed in the order of their slots, not of their arrival, so the
events in the ring are not always in the order of `openedMs`; the search for a
late copy stops at the first event that is too old (bd_repeat.cpp:193) and can
miss a younger one behind it. The header says that copies are matched up to a
minute after the original; `CopiesAreMatched` has the exception. When a source
is evicted, or events are, the counts of a sender are no longer those of its
events: `ListsAgree` is for stations where neither has happened.

### Net

The tick is taken apart where it sleeps; the event handler, the serial task's
blocking connect, the web server's commands and the button run between. Timers
may run out at any moment after they were set, and do in the end. Credentials
are none, wrong or right; the access point follows one of the three rules of
the settings.

`otaUploadInProgress` stops the tick before its connect attempts and its checks
(bd_net.cpp:646, 668). `update_handler` sets it, and goes on after every
receive timeout (bd_http.cpp:422): an upload whose client is gone without
closing its connection does not end, and nothing in the model says that an
upload does. `Reconnects` and `WatchdogReboots` are therefore about a station
that no upload holds; `NeverStops` and `WatchdogNotPutOff`, which say what the
comments say, fail. A client on the station's own access point can begin such
an upload while WiFi is down. The update check at the end of the tick may clear
the flag under an upload, or reboot (`UpdateCheck`).

`ScanAnswered` holds as the comment says. `ApCloses` has one exception:
`bd_net_connect_blocking` switches the driver to APSTA without `s_ap_active`
knowing, so after a serial provisioning nobody switches the access point off
(`AutoOffApIsOff`, without the exception, fails). Two things no property states:
new WiFi credentials saved while the station is connected are used only when the
connection is lost next, although the page is told "Reconnecting STA..."
(bd_ws_api.cpp:633); and one failed check right after WiFi returns from a long
outage reboots the station, as the last success is counted from before the
outage.

Not in it: mDNS, the captive DNS, SNTP, power saving, `bd_net_bulk_transfer`,
the text of the status.

### Aprs, ForwardQueue, Uplink

`step` is the place of the APRS task in `Aprs::run`; the lock is held from its
first step to its last, and the radio task's sends wait for it (`Alone`), having
looked at `aprs_connected` before. `elapsed` is the set of timers that have run
out. `wire` is the kinds of lines the server got on the present connection.
`update_aprs_settings` runs without the lock, in the middle of whatever the
others do. `posting` is the payload the net task has copied out of the queue:
the radio task goes on adding to the ring, and dropping from it, meanwhile. The
network is looked at once before that loop (`forwarding`). The radio task looks
at the flag `wifiConnected`, which follows the network some time later, so it
may add with and without network.

An upload stops the APRS task (bd_app.cpp:83) for as long as it lasts, and one
that is held (see `Net`) for ever: `Registers` has it as an exception, and
`RegistersAlways`, without it, fails.

A payload whose POST fails is gone: it left the queue before. A status may be
sent without its beacon, when the beacon found no time of day, although a
comment says that the beacon is always first (aprs.cpp:552; `BeaconFirst`
fails). The line of the server's answer is a local variable of `readClient`
(aprs.cpp:564): an answer that arrives in two halves is never recognised, and
the station sends nothing for as long as that connection lasts. `deaf` marks it,
and `Registers` has it as an exception.

Not in it: the status before deep sleep (`sendSystemStatus`), the format of
lines, the strings that `update_aprs_settings` changes while others read them.

## Runs

| Run | Instance | Shows |
|---|---|---|
| `ota_attempt` | 2 sensors, 2 chunks, 2 attempts, 1 resend, any 2 faults | `AckedIsStored`, `SuccessIsInstalled`, `RadioHome`, `EveryOfferReported`, and `LinkSpec`: it implements `StopAndWait` |
| `ota_losses` | 3 sensors, one with an unknown protocol, 2 chunks, 3 attempts, 1 fault, fairness | `AttemptEnds`, `LossTolerated` |
| `fwstore` | 4 images of 1, 1, 2 and 3 sectors, partitions of 1 and 2, 4 uses, any 2 faults, fairness | `HeaderMeansData`, `ServedIsWanted`, `NoRoomOnlyIfTooBig`, `EvictsTheOldest`, `CacheSpec`, `RequestEnds` |
| `selfupdate` | 3 versions, the second does not start, images of 2 pieces, 1 upload, 2 changes of the channel, any 2 faults, fairness | `FallbackKept`, `TrialKeepsUi`, `TrialSpec`, `BadIsLeftUnlessDozed`, `UiFollows` |
| `selfupdate_again` | two versions that do not start, no fault | violated: `NeverInstalledAgain` |
| `migrate` | both old layouts, 3 attempts, 4 resets, 1 update in between, any 2 failing calls, fairness | `BootsThis`, `NoteUntilClean`, `TableLast`, `Migrates` |
| `net` | two rules of the access point, any 2 events of seven kinds, fairness | `Reconnects`, `ScanAnswered`, `ApCloses`, `WatchdogReboots` |
| `wsout` | 1 task and the server, 2 clients, rings of 2, passes of 2 frames, nothing more begun after 2 messages | `NoSilentLoss`, `NothingStale` |
| `wsout_live` | 1 client, lost jobs, one long pause, fairness | `Delivered` |
| `radio` | a second of 5 units with the windows in the code's order, 4 settings, copy windows of 1 and 2 units, 2 configurations, 2 rounds, any 1 event of eleven kinds, fairness | `NoLostWakeup`, `NeverOversleeps`, `WindowHeard`, `ConfirmedIsApplied`, `ConfigDelivered` |
| `repeat` | 3 senders, 2 contents, tables for 2 packets, 2 sources and 3 events, 4 frames in 5 units of time, 1 request | `CopiesAreMatched`, `ListsAgree`, `ListedOnce` |
| `uplink` | a queue of 2, 3 payloads, any 1 event of the server, the network, the settings or an upload, fairness | `StatusBeforeData`, `LatestKept`, `Registers` |

Why the bounds are enough. Two chunks are the least with a "previous" chunk
whose acknowledgement can come late, two attempts the least with a retry; two
sensors share the link, one of them left over from an attempt given up. In
`ota_attempt` the chunk numbers wrap at 3, next to the last chunk, and
`StatAbort` equals `MaxAttempts`, both the tightest the assumptions allow. In
`fwstore` only one other image fits beside the one of 2 sectors, which only the
second partition takes and either image of 1 sector may keep out; the largest
fits nowhere. Four uses tell the image unused the longest from the one stored
first. Two frames in a ring and two clients are enough for a client to be behind
an eviction while another is not: what is begun before the bound of messages is
reached is finished, so more than two are sent. In `selfupdate` three versions
are one to come from, one that fails and one beyond it; two pieces are the least
of which the first can be there and the last missing; and with two updates at a
time and two faults, a reset can hit a transfer after a rollback. In `migrate`
four resets are more than three attempts, so that they run out with a reset
left. In `net` two events let a scan meet an outage or a serial connect, and an
upload an outage. In `radio` the low slot, the high slot, the rest of the second
and what reaches into the next one are all there; the settings begin with none
or both protocols, with and without FANET, or a debug mode, and may change to
both; one event is one failure at any place, and what happens without failure is
not counted. In `repeat` two senders fill each table and the third evicts; with
a copy window of 2 and a late one of 3 a copy can be in time, late and too late.
In `uplink` a third payload makes the ring of two drop one while another is
posted; one event is a connection refused, closed, half answered, a network
lost, settings saved or an upload, at any moment.

Deadlock is not checked: all bounds (faults, uses, messages, events, time) let a
model stop where the program would go on. The type invariants are proved (that
of `Net` was only checked while modelling) and not part of the runs.

Fairness. `OtaTransfer`: the radio task goes on (its waits have timeouts), and a
sensor handles what it received. `FwStore`: the update goes on. `WsOut`: tasks
finish what they began, and the server takes queued jobs between requests
(strong fairness for `JobRuns`: esp_http_server serves its control socket in
each round of its loop, before it goes to the sessions). `SelfUpdate`: the
station starts, its tasks go on, an unconfirmed firmware that stays up is
confirmed, an upload ends (a client that is silent for ever is in `Net` and
`Aprs` only), and the check is repeated (every few hours in `net_tick`).
`Migrate`: the firmware goes on, and a station that has given up is switched off
and on some day. `Net`: the net task ticks, timers run out, the driver answers a
connect attempt, and the tasks that began a command end it; the timeout of a
scan and the check of the internet are strongly fair, as the tick comes by while
the timer stays run out; nothing says that an upload ends. `RadioTask`: the task
goes on, interrupts are served, an answer that is sent arrives; strongly fair
are time, the timeout of an exchange, and that a sensor goes on announcing
itself while the station can hear it. `Uplink`: the three tasks go on, timers
run out, the network returns, the clock is set, and a server that is asked again
and again answers; nothing says that an upload ends.

`LossTolerated` is as strong as it can be: with as many losses and resends
together as attempts it fails, because a stale acknowledgement costs one attempt
at each following chunk; and it fails with a second sensor in a transfer of its
own that answers the same chunks over the served one.

### Where code and words disagree

`selfupdate_again` shows one: what was rolled back is known from the aborted
slot only. The next update is written to that slot, and the version before it
can be offered and installed once more, which the documentation excludes.

The modules state some more that the code does not keep. They are in no run;
adding the definition to the configuration named makes TLC show the behaviour.

| Add | to | What TLC then shows |
|---|---|---|
| INVARIANT `RejectedByDevice` | `ota_attempt.cfg` | any acknowledgement with the right nonce after the finish packet counts as the answer to it. One resent during the transfer makes the result `finish_rejected` ("Sensor rejected the image" on the page), and the sensor installs the image all the same |
| INVARIANT `ChunksSentIsAccepted` | `ota_attempt.cfg` | `chunksSent` leaves out the last statistics entry of a failed transfer, but a failure to read the stored image has made no entry |
| PROPERTY `OnlyStalledClosed` | `wsout_live.cfg` | `stalledSinceMs` survives a pass that sent frames and ended with a full socket, so the client may be closed right after it took a frame |
| PROPERTY `FailedUiRetried` | `selfupdate.cfg` | the version of the web UI is a file near the start of its image; a download that breaks off behind it mounts and names the right version, so later checks pass over it |
| PROPERTY `BadIsLeft` | `selfupdate.cfg` | a start on a low battery confirms the image before it sleeps; an update that crashes at its start is then never rolled back, and the station stays in a loop of crash and boot |
| PROPERTY `AutoOffApIsOff` | `net.cfg` | after a serial provisioning the access point stays open |
| PROPERTY `NeverStops` | `net.cfg` | "never stop" (bd_net.cpp:647): an upload whose client is gone is waited for without end, and no connect attempt is made meanwhile |
| PROPERTY `WatchdogNotPutOff` | `net.cfg` | nor does the watchdog look (bd_net.cpp:182): the station stays without internet until the upload's connection is closed |
| PROPERTY `RegistersAlways` | `uplink.cfg` | nor does the APRS task run: a station that has lost its connection during such an upload does not register again |
| INVARIANT `BeaconFirst` | `uplink.cfg` | a status is sent without a beacon when there was no time of day for the beacon |

## Proofs

Eight modules prove all safety properties of the runs, and the refinements, for
all values of the constants under the modules' ASSUMEs. They rest on inductive
invariants:

* `OtaTransfer` (`IInv`): the type invariant; `StageInv`, which ties the
  station's variables to its place in the attempt; `SensorInv`, which keeps a
  sensor's storage within one chunk of what the station counted and says that
  what is on its way to it is not newer than that; `AckInv`, that a received
  acknowledgement stays true of its sender. `AckedIsStored` is not inductive
  without the last two: a stale acknowledgement must be known to be true, and a
  packet in the inbox not to be for a later chunk. `Total < SeqMod` is needed:
  with 65536 chunks the comparison in `Accepts` would always hold. `NotGivenUp`,
  the safety half of `LossTolerated`, adds `Budget`: the attempts at a chunk are
  no more than what went wrong since the transfer began (`Within`), where the
  one under way does not count if the answer to it accepts the chunk
  (`Answered`).
* `FwStore` (`IInv`): `HeaderMeansData` needs `Apart` (images found do not
  overlap and no image is there twice) and `RequestInv` (the run in hand
  overlaps no image, and the image wanted is not stored yet while it is
  written). `ListInv` says that the list in memory is what is on flash, while it
  is in use. `UseInv` ties the NVS keys to the history variable `age`, for the
  order of eviction.
* `SelfUpdate` (`IInv`): `FallbackKept` needs `BootInv` (the running image is
  confirmed while anything writes the other slot, and a slot that is selected
  but not running is not "valid"). `KeptInv` ties the version rolled back last
  to its slot, `TrialInv` says that a UI on trial stays mounted, so that
  `sync_web_ui` sees it. Two lemmas carry the proof: `BootCases` (a reset gives
  the trial up, runs the same image again, or tries a new one) and `Effects`
  (any other step leaves slots alone, confirms, or changes the other slot after
  confirming); the refinement follows from the same two.
* `Migrate` (`IInv`): what is so at each place of the firmware. `TableInv` says
  which table there is, `SlotInv` that the running slot is left alone and that
  the one to boot next is confirmed or has a twin, `ReadyInv` which of the new
  layout's areas are ready. One lemma per part; `BootsThis` then follows without
  looking at steps, and `TableLast` from `ReadyInv` where the table is erased.
* `RadioTask`, four arguments besides the types. `Armed`: a task that sleeps has
  its interrupt armed or a notification waiting, because only the interrupt and
  a transmission mask the line. `Acknowledged`: the acknowledgement that is
  awaited is for the configuration in hand. `Punctual`: a sleep that was the
  schedule's delay when it began is at most the delay ever after, since
  `NextDelay` falls by no more than one for each unit (`DelayFalls`, branch by
  branch of the schedule, with `WindowNears` for the one that crosses the end of
  a second) and by nothing for what takes no time (`DelayStays`). `Promised`:
  the next cycle, and the end of the window that is open, are never further away
  than the second that was promised; `WindowHeard` needs it with `Punctual`.
* `Repeat` (`Inv`): `OpenOnce`, that of two open packets alike the one a
  repeater brought first is the earlier one; `Numbered`, that the ring holds the
  last numbers, each once; and `Listing`, what each line of a listing can be,
  whatever was reported or reset since it began: the event numbered so then, or
  one that has taken its place. Lemmas on places (`Apart`, `Further`) and on
  what closing a packet does to the ring (`Closed`) serve all three. The counts
  (`ListsAgree`) need `OneEntryEach` and `Tallied`, the same for senders without
  an entry.
* `Uplink`: `Registered`, that whoever is fully registered on a connection that
  is up has sent its status on that very connection; and for the queue, lemmas
  on the places of a ring (`Wraps`, `Apart`, `Nearer`) for every capacity.
* `WsOut` (`Promise`): what waits for a client is all it is owed
  (`NoSilentLoss`) and no more (`NothingStale`), which are proved together, as
  each alone is not inductive. They need `InPlace` (no client's place is outside
  what a ring holds), `OneFrameEach` (no two frames are of one message) and
  `NobodyOwed`; and `Greets`, that the client that is greeted is still the one
  that connected. `AddEffect` says once what a new frame does to a ring, the
  clients' steps are lemmas on what waits before and after.

The proof modules follow the actions: one step per action, under it one per
part of the invariant that the action can disturb. The refinement theorems show
that a step under `IInv` is a step of the abstract specification or leaves its
variables unchanged. `StatsMarkTheFailure`, `InOneRegion`, `RefusesRolledBack`
and the type invariants but that of `Net` are proved and in no run.

Only model-checked: liveness (`LossTolerated`, `AttemptEnds`, `RequestEnds`,
`Delivered`, `BadIsLeftUnlessDozed`, `UiFollows`, `Migrates`, `Reconnects`,
`ScanAnswered`, `ApCloses`, `WatchdogReboots`, `ConfigDelivered`, `Registers`),
which is out of the prover's reach. Of `LossTolerated` the half is proved that
needs no fairness (`NotGivenUp`).

## Not modelled

* The decoders (`flarm.cpp`, `adsl.cpp`) and the stores of received data
  (`types.cpp`): bit manipulation, floating-point arithmetic and JSON, without
  states that could go wrong together.
* Sessions and passwords (`bd_auth.cpp`): sequential under its lock.
* Diagnostics, statistics, snapshots, the console and most websocket commands:
  formatting around calls of other components.
* The battery filter and the pins (`bd_power.cpp`, `bd_board.cpp`).
* Wrap-around of `millis()`. Most comparisons subtract and are safe; the waits
  of `ota_gs` (ota_gs.cpp:512) add, and are not, once in 49.7 days.
* Data races on C++ objects: the strings of the APRS client, and the counts of
  bulk transfers.
