---------------------------- MODULE OtaTransfer ----------------------------
(***************************************************************************)
(* The firmware update of a sensor over LoRa, as the station drives it in  *)
(* its radio task (components/bdgs/ota/ota_gs.cpp, ota_gs_try_update and   *)
(* what it calls), with the sensors at the other end of the radio link.    *)
(*                                                                         *)
(* The station is one thread: `pc` is its place in ota_gs_try_update, and  *)
(* "listen" means that the radio task is back in its own loop.  Between    *)
(* any two of its steps a sensor may receive, answer, resend an            *)
(* acknowledgement on its own or give up.  The link has no buffer on the   *)
(* station's side: the radio holds one received packet, receivedFlag says  *)
(* that there is one, and every transmission and every change of the radio *)
(* mode forgets it.                                                        *)
(*                                                                         *)
(* A definition named ...Mutant is what a slip in the code would make of   *)
(* the one after it; it is used nowhere, and shows which property such a   *)
(* slip breaks.                                                            *)
(*                                                                         *)
(* Sensors are not part of the repository.  Their actions say what the     *)
(* station relies on: chunks are stored in order, an acknowledgement names *)
(* the next chunk wanted, and READY is sent only for a verified image.     *)
(***************************************************************************)
EXTENDS Naturals, Sequences

CONSTANTS
  Nonces,       \* announcement nonces; one update session of one sensor each
  ProtoOf,      \* the OTA wire protocol the announcement names
  Total,        \* chunks of a firmware image
  MaxAttempts,  \* OTA_GS_CHUNK_MAX_ATTEMPTS
  StatAbort,    \* OTA_GS_STAT_RETRY_ABORT, the mark of the chunk that failed
  SeqMod,       \* chunk numbers are 16 bit wide: 2^16
  MaxResends,   \* bound: acknowledgements a sensor resends unasked
  FaultKinds,   \* what may go wrong in a run
  MaxFaults     \* bound: how often something goes wrong

ASSUME CountsAssumption ==
  /\ Total \in Nat \ {0} /\ MaxAttempts \in Nat \ {0}
  /\ SeqMod \in Nat /\ Total < SeqMod
  /\ StatAbort \in Nat /\ MaxAttempts <= StatAbort
  /\ MaxResends \in Nat /\ MaxFaults \in Nat
ASSUME ProtoAssumption == ProtoOf \in [Nonces -> Nat]

OTA_PROTO_MIN == 3
OTA_PROTO == 4

Stages == {"listen", "query", "notify", "notifyAbort", "obtain", "fanetAck",
           "start", "startWait", "read", "chunk", "chunkWait", "stats",
           "finish", "finishWait", "abort", "report"}
Reasons == {"none", "image_too_large", "download_failed", "fanet_ack_failed",
            "start_send_failed", "start_not_acked", "transfer_failed",
            "finish_send_failed", "finish_rejected", "finish_not_ready", "success"}
Outcomes == Reasons \cup {"unsupported_proto", "backend_error",
                          "backend_unreachable", "other_gs", "no_update"}
Statuses == {"IDLE", "RX", "READY", "ERR_SIZE", "ERR"}
DevStates == {"off", "window", "fast", "RX", "READY", "idle"}

(* A packet to the sensors: `of` is the nonce it carries; a chunk carries  *)
(* none, there `of` tells whose image its payload belongs to.              *)
Packets == [op : {"START", "CHUNK", "FINISH", "ABORT"}, of : Nonces, seq : 0..Total]
Acks == [from : Nonces, next : 0..Total, status : Statuses]

VARIABLES
  pc,         \* where the radio task is in ota_gs_try_update
  busy,       \* s_busy
  fast,       \* the radio is in transfer mode, not in FANET mode
  ann,        \* {nonce of the announcement being served}, or {}
  lastNonce,  \* {s_last_nonce}, or {} before the first attempt
  recent,     \* s_last_attempt_ms is less than 30 s ago
  seq,        \* chunk being transferred
  attempt,    \* attempts already spent on it
  stats,      \* chunkRetries
  chunksSent, \* attempt.chunksSent of the result report
  reason,     \* how the attempt ended, once it has
  recorded,   \* {<<nonce, outcome>>} of the newest recordOtaHistory, or {}
  rx,         \* the packet behind receivedFlag, or {}
  dev,        \* the sensors
  inbox,      \* the packet a sensor has received and not yet handled, or {}
  faults,     \* things gone wrong so far
  owed,       \* history variable: offers whose end reportOtaResult has not had
  acked       \* history variable: chunks the station counted as accepted

local == <<seq, attempt, stats, chunksSent, reason>>
debounce == <<lastNonce, recent>>
ghosts == <<owed, acked>>
devVars == <<dev, inbox>>
vars == <<pc, busy, ann, fast, debounce, local, recorded, ghosts, devVars, rx, faults>>

Init ==
  /\ pc = "listen" /\ busy = FALSE /\ fast = FALSE /\ ann = {}
  /\ lastNonce = {} /\ recent = FALSE
  /\ seq = 0 /\ attempt = 0 /\ stats = <<>> /\ chunksSent = 0 /\ reason = "none"
  /\ recorded = {}
  /\ rx = {} /\ inbox = [n \in Nonces |-> {}]
  /\ dev = [n \in Nonces |-> [state |-> "off", next |-> 0, own |-> 0,
                              resends |-> 0, verdict |-> "none"]]
  /\ faults = 0 /\ owed = 0 /\ acked = [n \in Nonces |-> 0]

-----------------------------------------------------------------------------
(* The radio link.                                                         *)

Fault(kind) ==
  /\ kind \in FaultKinds
  /\ faults < MaxFaults
  /\ faults' = faults + 1

(* The sensors that receive on the transfer settings. *)
Listeners == {n \in Nonces : dev[n].state \in {"fast", "RX"}}

(* transmitPacket, succeeding: what was received before is forgotten.  A   *)
(* sensor other than the one served may or may not be in reach; that the   *)
(* served one misses the packet is a fault.                                *)
Transmit(op, chunkNo) ==
  /\ rx' = {}
  /\ UNCHANGED dev
  /\ \E heard \in SUBSET Listeners :
       /\ inbox' = [n \in Nonces |-> IF n \in heard
                                    THEN {[op |-> op, of |-> o, seq |-> chunkNo] : o \in ann}
                                    ELSE inbox[n]]
       /\ IF Listeners \cap ann \subseteq heard THEN UNCHANGED faults
          ELSE Fault(<<"lose", op>>)

(* A transmission the radio chip refuses: receivedFlag stays as it was. *)
TxError(op) == Fault(<<"tx", op>>) /\ UNCHANGED <<rx, devVars>>

(* sendFanetAck, succeeding: a header the sensor waits for on the FANET    *)
(* settings; it then switches to the transfer settings.                    *)
SendFanetAck ==
  /\ UNCHANGED inbox
  /\ \/ /\ dev' = [n \in Nonces |-> IF n \in ann /\ dev[n].state = "window"
                                    THEN [dev[n] EXCEPT !.state = "fast"] ELSE dev[n]]
        /\ UNCHANGED faults
     \/ Fault(<<"lose", "FANET_ACK">>) /\ UNCHANGED dev

(* configure_lora_radio: sets the mode and restarts reception. *)
ApplyRadioMode(fastMode) == fast' = fastMode /\ rx' = {}

-----------------------------------------------------------------------------
(* ota_gs_try_update up to the backend's answer.                           *)

Supported(n) == ProtoOf[n] \in OTA_PROTO_MIN..OTA_PROTO

(* recordOtaHistory; of the entries it keeps only the newest is here. *)
Record(n, outcome) == recorded' = {<<n, outcome>>}

ReturnMutant ==
  /\ pc' = "listen" /\ ann' = {} /\ UNCHANGED busy
  /\ seq' = 0 /\ attempt' = 0 /\ stats' = <<>> /\ chunksSent' = 0 /\ reason' = "none"

(* s_busy = false and return: the local variables are gone. *)
Return ==
  /\ pc' = "listen" /\ busy' = FALSE /\ ann' = {}
  /\ seq' = 0 /\ attempt' = 0 /\ stats' = <<>> /\ chunksSent' = 0 /\ reason' = "none"

(* The radio task hears a sensor's announcement, in its own loop only. *)
Announces(n) ==
  /\ pc = "listen"
  /\ dev[n].state \in {"off", "window"}
  /\ dev' = [dev EXCEPT ![n].state = "window"]
  /\ UNCHANGED <<fast, local, inbox, rx, faults, ghosts>>

(* No WiFi, or served less than 30 s ago: nothing is done. *)
AnnouncementIgnored(n) ==
  /\ Announces(n)
  /\ UNCHANGED <<pc, busy, ann, debounce, recorded>>

AnnouncementUnsupported(n) ==
  /\ Announces(n)
  /\ ~busy /\ ~Supported(n)
  /\ Record(n, "unsupported_proto")
  /\ UNCHANGED <<pc, busy, ann, debounce>>

AttemptStarts(n) ==
  /\ Announces(n)
  /\ ~busy /\ Supported(n)
  /\ ~(lastNonce = {n} /\ recent)
  /\ lastNonce' = {n} /\ recent' = TRUE
  /\ busy' = TRUE /\ ann' = {n} /\ pc' = "query"
  /\ UNCHANGED recorded

(* 30 s have passed since s_last_attempt_ms. *)
DebounceOver ==
  /\ recent /\ recent' = FALSE
  /\ UNCHANGED <<pc, busy, ann, fast, lastNonce, local, recorded, ghosts, devVars,
                 rx, faults>>

QueryFails ==
  /\ pc = "query"
  /\ \E n \in ann, outcome \in {"backend_error", "backend_unreachable"} : Record(n, outcome)
  /\ Return
  /\ UNCHANGED <<fast, debounce, ghosts, devVars, rx, faults>>

(* Another station serves the sensor: it must not be told anything. *)
LeftToOtherStation ==
  /\ pc = "query"
  /\ \E n \in ann : Record(n, "other_gs")
  /\ Return
  /\ UNCHANGED <<fast, debounce, ghosts, devVars, rx, faults>>

NoUpdate ==
  /\ pc = "query"
  /\ \E n \in ann : Record(n, "no_update")
  /\ pc' = "notify"
  /\ UNCHANGED <<busy, ann, fast, debounce, local, ghosts, devVars, rx, faults>>

(* notifyNoUpdate: the handshake, then an abort instead of the start. *)
NotifyAck ==
  /\ pc = "notify"
  /\ \/ TxError("FANET_ACK") /\ Return /\ UNCHANGED fast
     \/ /\ SendFanetAck /\ ApplyRadioMode(TRUE)
        /\ pc' = "notifyAbort" /\ UNCHANGED <<busy, ann, local>>
  /\ UNCHANGED <<debounce, recorded, ghosts>>

(* sendAbort and applyRadioMode(false): whether the abort went out is not  *)
(* looked at.                                                              *)
AbortAndLeaveFast ==
  /\ fast' = FALSE
  /\ \/ Transmit("ABORT", 0)
     \/ Fault(<<"tx", "ABORT">>) /\ rx' = {} /\ UNCHANGED devVars

NotifyAbort ==
  /\ pc = "notifyAbort"
  /\ AbortAndLeaveFast
  /\ Return
  /\ UNCHANGED <<debounce, recorded, ghosts>>

-----------------------------------------------------------------------------
(* The attempt: an offer, the handshake, the chunks, the finish.           *)

(* An attempt that ends where the sensor is not in the transfer yet goes   *)
(* straight to its report; later ones abort the sensor first.              *)
EndsWithMutant(why) == pc' = "listen" /\ reason' = why
EndsWith(why) == pc' = "report" /\ reason' = why
AbortsWith(why) == pc' = "abort" /\ reason' = why

(* The backend offers an image.  How it ends has to be reported. *)
QueryOffered ==
  /\ pc = "query"
  /\ owed' = owed + 1
  /\ \/ pc' = "obtain" /\ UNCHANGED reason
     \/ EndsWith("image_too_large")
  /\ UNCHANGED <<busy, ann, fast, debounce, seq, attempt, stats, chunksSent, recorded,
                 acked, devVars, rx, faults>>

(* obtainFirmwareImage: from the flash store, or downloaded into it. *)
Obtain ==
  /\ pc = "obtain"
  /\ \/ pc' = "fanetAck" /\ UNCHANGED reason
     \/ EndsWith("download_failed")
  /\ UNCHANGED <<busy, ann, fast, debounce, seq, attempt, stats, chunksSent, recorded,
                 ghosts, devVars, rx, faults>>

FanetAck ==
  /\ pc = "fanetAck"
  /\ \/ TxError("FANET_ACK") /\ EndsWith("fanet_ack_failed") /\ UNCHANGED fast
     \/ SendFanetAck /\ ApplyRadioMode(TRUE) /\ pc' = "start" /\ UNCHANGED reason
  /\ UNCHANGED <<busy, ann, debounce, seq, attempt, stats, chunksSent, recorded, ghosts>>

StartRefusedByRadioMutant ==
  /\ Fault(<<"tx", "START">>) /\ UNCHANGED <<devVars, rx, fast>>
  /\ EndsWith("start_send_failed")

(* sendStart refused by the radio: applyRadioMode(false), no abort. *)
StartRefusedByRadio ==
  /\ Fault(<<"tx", "START">>) /\ UNCHANGED devVars
  /\ ApplyRadioMode(FALSE)
  /\ EndsWith("start_send_failed")

SendStart ==
  /\ pc = "start"
  /\ \/ StartRefusedByRadio
     \/ Transmit("START", 0) /\ pc' = "startWait" /\ UNCHANGED <<fast, reason>>
  /\ UNCHANGED <<busy, ann, debounce, seq, attempt, stats, chunksSent, recorded, ghosts>>

(* parseOtaAck: an acknowledgement counts only with the served nonce.      *)
OursMutant(a) == TRUE
Ours(a) == a.from \in ann

(* waitForAck passes over other packets; its timeout then starts anew. *)
ForeignPacket ==
  /\ pc \in {"startWait", "chunkWait", "finishWait"}
  /\ \E a \in rx : ~Ours(a)
  /\ rx' = {}
  /\ UNCHANGED <<pc, busy, ann, fast, debounce, local, recorded, ghosts, devVars, faults>>

(* waitForAck gives up.  A sensor that has received the packet answers     *)
(* well within the timeout, unless a run lets it be late.                  *)
TimedOut ==
  /\ rx = {} /\ UNCHANGED rx
  /\ IF \A n \in ann : inbox[n] = {} THEN UNCHANGED faults ELSE Fault(<<"late">>)

StartAck ==
  /\ pc = "startWait"
  /\ rx' = {}
  /\ \E a \in rx :
       /\ Ours(a)
       /\ IF a.status = "RX" THEN pc' = "read" /\ UNCHANGED reason
          ELSE AbortsWith("start_not_acked")
  /\ UNCHANGED <<busy, ann, fast, debounce, seq, attempt, stats, chunksSent, recorded,
                 ghosts, devVars, faults>>

StartTimeout ==
  /\ pc = "startWait"
  /\ TimedOut
  /\ AbortsWith("start_not_acked")
  /\ UNCHANGED <<busy, ann, fast, debounce, seq, attempt, stats, chunksSent, recorded,
                 ghosts, devVars>>

(* streamFirmware: the next chunk is read from the flash store. *)
ReadChunk ==
  /\ pc = "read"
  /\ attempt' = 0
  /\ \/ pc' = "chunk" /\ UNCHANGED <<reason, faults>>
     \/ Fault(<<"read">>) /\ pc' = "stats" /\ reason' = "transfer_failed"
  /\ UNCHANGED <<busy, ann, fast, debounce, seq, stats, chunksSent, recorded, ghosts,
                 devVars, rx>>

(* The chunk is given up: its entry in the statistics marks it. *)
ChunkFails ==
  /\ stats' = Append(stats, StatAbort)
  /\ pc' = "stats" /\ reason' = "transfer_failed"
  /\ UNCHANGED <<attempt, seq, acked>>

LastAttemptMutantEarly == attempt + 2 >= MaxAttempts
LastAttempt == attempt + 1 >= MaxAttempts

NextAttempt ==
  IF LastAttempt THEN ChunkFails
  ELSE /\ attempt' = attempt + 1 /\ pc' = "chunk"
       /\ UNCHANGED <<stats, reason, seq, acked>>

SendChunk ==
  /\ pc = "chunk"
  /\ \/ TxError("CHUNK") /\ NextAttempt
     \/ /\ Transmit("CHUNK", seq) /\ pc' = "chunkWait"
        /\ UNCHANGED <<attempt, stats, reason, seq, acked>>
  /\ UNCHANGED <<busy, ann, fast, debounce, chunksSent, recorded, owed>>

(* The sensor wants a later chunk than this one.                           *)
AcceptsMutant(a) == a.status = "RX" /\ a.next >= seq % SeqMod
Accepts(a) == a.status = "RX" /\ a.next >= (seq + 1) % SeqMod

ChunkAccepted ==
  /\ stats' = Append(stats, attempt)
  /\ acked' = [n \in Nonces |-> IF n \in ann THEN seq + 1 ELSE acked[n]]
  /\ seq' = (seq + 1) % SeqMod
  /\ pc' = IF seq + 1 < Total THEN "read" ELSE "stats"
  /\ UNCHANGED <<attempt, reason>>

ChunkAck ==
  /\ pc = "chunkWait"
  /\ rx' = {}
  /\ \E a \in rx :
       /\ Ours(a)
       /\ \/ Accepts(a) /\ ChunkAccepted
          \/ a.status = "ERR_SIZE" /\ ChunkFails
          \/ ~Accepts(a) /\ a.status # "ERR_SIZE" /\ NextAttempt
  /\ UNCHANGED <<busy, ann, fast, debounce, chunksSent, recorded, owed, devVars, faults>>

ChunkTimeout ==
  /\ pc = "chunkWait"
  /\ TimedOut
  /\ NextAttempt
  /\ UNCHANGED <<busy, ann, fast, debounce, chunksSent, recorded, owed, devVars>>

(* postOtaStats and the count of the result report: of a failed transfer   *)
(* the last entry is left out.                                             *)
PostStats ==
  /\ pc = "stats"
  /\ chunksSent' = IF reason # "none" /\ stats # <<>> THEN Len(stats) - 1 ELSE Len(stats)
  /\ pc' = IF reason = "none" THEN "finish" ELSE "abort"
  /\ UNCHANGED <<busy, ann, fast, debounce, seq, attempt, stats, reason, recorded,
                 ghosts, devVars, rx, faults>>

SendFinish ==
  /\ pc = "finish"
  /\ \/ TxError("FINISH") /\ AbortsWith("finish_send_failed")
     \/ Transmit("FINISH", 0) /\ pc' = "finishWait" /\ UNCHANGED reason
  /\ UNCHANGED <<busy, ann, fast, debounce, seq, attempt, stats, chunksSent, recorded,
                 ghosts>>

(* What the answer to the finish packet means.                             *)
FinishReasonMutant(a) == "success"
FinishReason(a) ==
  CASE a.status = "READY" -> "success"
    [] a.status = "IDLE"  -> "finish_not_ready"
    [] OTHER              -> "finish_rejected"

FinishAck ==
  /\ pc = "finishWait"
  /\ \E a \in rx : Ours(a) /\ EndsWith(FinishReason(a))
  /\ ApplyRadioMode(FALSE)
  /\ UNCHANGED <<busy, ann, debounce, seq, attempt, stats, chunksSent, recorded, ghosts,
                 devVars, faults>>

FinishTimeout ==
  /\ pc = "finishWait"
  /\ TimedOut
  /\ EndsWith("finish_not_ready")
  /\ fast' = FALSE
  /\ UNCHANGED <<busy, ann, debounce, seq, attempt, stats, chunksSent, recorded, ghosts,
                 devVars>>

Abort ==
  /\ pc = "abort"
  /\ AbortAndLeaveFast
  /\ pc' = "report"
  /\ UNCHANGED <<busy, ann, debounce, local, recorded, ghosts>>

(* reportOtaResult: the history entry; the POST after it, which is made    *)
(* only while there is WiFi, and only once, changes nothing here.          *)
Report ==
  /\ pc = "report"
  /\ \E n \in ann : Record(n, reason)
  /\ owed' = owed - 1
  /\ Return
  /\ UNCHANGED <<fast, debounce, acked, devVars, rx, faults>>

-----------------------------------------------------------------------------
(* The sensors.                                                            *)

(* An acknowledgement on the air: the station has it if its radio is in    *)
(* the transfer mode, in place of one it has not looked at.                *)
Heard(n, nextChunk, status) ==
  IF fast THEN {[from |-> n, next |-> nextChunk, status |-> status]} ELSE rx

Answer(n, op, nextChunk, status) ==
  \/ rx' = Heard(n, nextChunk, status) /\ UNCHANGED faults
  \/ Fault(<<"ack", op>>) /\ UNCHANGED rx

(* Sensor n handles the packet p it has received. *)
Handles(n, p) ==
  /\ p \in inbox[n]
  /\ inbox' = [inbox EXCEPT ![n] = {}]
  /\ UNCHANGED <<pc, busy, ann, fast, debounce, local, recorded, ghosts>>

DevStart(n) == \E p \in inbox[n] :
  /\ p.op = "START" /\ p.of = n /\ dev[n].state = "fast"
  /\ Handles(n, p)
  /\ \/ /\ dev' = [dev EXCEPT ![n].state = "RX", ![n].next = 0, ![n].own = 0]
        /\ Answer(n, "START", 0, "RX")
     \/ /\ Fault(<<"refuse", "START">>)
        /\ rx' = Heard(n, 0, "ERR") /\ UNCHANGED dev

(* A chunk names no session: a sensor still in a transfer the station has  *)
(* given up takes the chunks meant for another one.                        *)
DevChunk(n) == \E p \in inbox[n] :
  /\ p.op = "CHUNK" /\ dev[n].state = "RX"
  /\ Handles(n, p)
  /\ \/ /\ p.seq = dev[n].next
        /\ dev' = [dev EXCEPT ![n].next = @ + 1,
                              ![n].own = IF p.of = n /\ @ = p.seq THEN @ + 1 ELSE @]
        /\ Answer(n, "CHUNK", p.seq + 1, "RX")
     \/ /\ p.seq # dev[n].next
        /\ UNCHANGED dev
        /\ Answer(n, "CHUNK", dev[n].next, "RX")
     \/ /\ Fault(<<"refuse", "CHUNK">>)
        /\ dev' = [dev EXCEPT ![n].state = "idle"]
        /\ rx' = Heard(n, dev[n].next, "ERR_SIZE")

(* READY only for an image that passed the sensor's verification. *)
DevFinish(n) == \E p \in inbox[n] :
  /\ p.op = "FINISH" /\ p.of = n /\ dev[n].state = "RX"
  /\ Handles(n, p)
  /\ IF dev[n].own = Total /\ dev[n].next = Total
     THEN /\ dev' = [dev EXCEPT ![n].state = "READY", ![n].verdict = "good"]
          /\ Answer(n, "FINISH", Total, "READY")
     ELSE /\ dev' = [dev EXCEPT ![n].state = "idle", ![n].verdict = "bad"]
          /\ Answer(n, "FINISH", dev[n].next, "ERR")

DevOther(n) == \E p \in inbox[n] :
  /\ ~(p.op = "START" /\ p.of = n /\ dev[n].state = "fast")
  /\ ~(p.op = "CHUNK" /\ dev[n].state = "RX")
  /\ ~(p.op = "FINISH" /\ p.of = n /\ dev[n].state = "RX")
  /\ Handles(n, p)
  /\ dev' = IF p.op = "ABORT" /\ p.of = n /\ dev[n].state \in {"fast", "RX"}
            THEN [dev EXCEPT ![n].state = "idle"] ELSE dev
  /\ UNCHANGED <<rx, faults>>

(* A sensor repeats its last acknowledgement before it has seen the chunk  *)
(* again (proactive_ack_resend_count).                                     *)
DevResends(n) ==
  /\ dev[n].state = "RX" /\ dev[n].resends < MaxResends
  /\ dev' = [dev EXCEPT ![n].resends = @ + 1]
  /\ rx' = Heard(n, dev[n].next, "RX")
  /\ UNCHANGED <<pc, busy, ann, fast, debounce, local, recorded, ghosts, inbox, faults>>

(* The sensor's own timeout. *)
DevQuits(n) ==
  /\ dev[n].state \in {"window", "fast", "RX"}
  /\ Fault(<<"quit">>)
  /\ dev' = [dev EXCEPT ![n].state = "idle"]
  /\ inbox' = [inbox EXCEPT ![n] = {}]
  /\ UNCHANGED <<pc, busy, ann, fast, debounce, local, recorded, ghosts, rx>>

-----------------------------------------------------------------------------
(* The radio task inside ota_gs_try_update. *)
InAttempt ==
  \/ QueryFails \/ LeftToOtherStation \/ NoUpdate \/ NotifyAck \/ NotifyAbort
  \/ QueryOffered \/ Obtain \/ FanetAck \/ SendStart
  \/ StartAck \/ StartTimeout \/ ForeignPacket
  \/ ReadChunk \/ SendChunk \/ ChunkAck \/ ChunkTimeout \/ PostStats
  \/ SendFinish \/ FinishAck \/ FinishTimeout \/ Abort \/ Report

DevHandles(n) == DevStart(n) \/ DevChunk(n) \/ DevFinish(n) \/ DevOther(n)

Next ==
  \/ InAttempt
  \/ DebounceOver
  \/ \E n \in Nonces :
       \/ AnnouncementIgnored(n) \/ AnnouncementUnsupported(n) \/ AttemptStarts(n)
       \/ DevHandles(n) \/ DevResends(n) \/ DevQuits(n)

Spec == Init /\ [][Next]_vars

(* The radio task is not held up by anything but its own timeouts, and a   *)
(* sensor handles what it has received.                                    *)
Fairness == WF_vars(InAttempt) /\ \A n \in Nonces : WF_vars(DevHandles(n))
FairSpec == Spec /\ Fairness

-----------------------------------------------------------------------------
(* Properties.                                                             *)

StationTypeOK ==
  /\ pc \in Stages /\ busy \in BOOLEAN /\ fast \in BOOLEAN /\ ann \in SUBSET Nonces
  /\ lastNonce \in SUBSET Nonces /\ recent \in BOOLEAN
  /\ seq \in 0..Total /\ attempt \in 0..(MaxAttempts - 1)
  /\ stats \in Seq(0..StatAbort) /\ chunksSent \in Nat /\ reason \in Reasons
  /\ recorded \in SUBSET (Nonces \X Outcomes)
  /\ owed \in 0..1 /\ acked \in [Nonces -> 0..Total]

LinkTypeOK ==
  /\ rx \in SUBSET Acks
  /\ inbox \in [Nonces -> SUBSET Packets]
  /\ dev \in [Nonces -> [state : DevStates, next : 0..Total, own : 0..Total,
                         resends : 0..MaxResends, verdict : {"none", "good", "bad"}]]
  /\ faults \in Nat

(* Each variable has the values the program can give it; in particular no  *)
(* chunk gets more attempts than OTA_GS_CHUNK_MAX_ATTEMPTS.                *)
TypeOK == StationTypeOK /\ LinkTypeOK

(* The station never counts a chunk the sensor does not hold, whatever is  *)
(* lost, late or resent, and whichever sensor it comes from; so a chunk is *)
(* never skipped.                                                          *)
AckedIsStored == \A n \in Nonces : acked[n] <= dev[n].own

(* "success" is shown and reported only for a sensor that has verified the *)
(* whole image (reportOtaResult: reason "success" = installed).            *)
SuccessIsInstalled == \A n \in Nonces :
  <<n, "success">> \in recorded => dev[n].state = "READY" /\ dev[n].own = Total

(* Whatever way an attempt ended, the radio is back in FANET mode when its *)
(* end is reported and when the radio task is back in its loop; and the    *)
(* station then takes the next announcement.                               *)
RadioHome ==
  /\ pc \in {"listen", "report"} => ~fast
  /\ pc = "listen" => ~busy

(* Every offer of the backend has come to reportOtaResult once, and so has *)
(* one entry in the history, when the radio task is back in its loop (the  *)
(* backend itself hears of it only if WiFi is up then, ota_gs.cpp:1096).   *)
EveryOfferReported == pc = "listen" => owed = 0

(* The statistics of a transfer have an entry per accepted chunk, then at  *)
(* most one mark of the chunk it failed at; the 4-bit field cannot confuse *)
(* a retry count with the mark.                                            *)
StatsMarkTheFailure ==
  \A i \in 1..Len(stats) :
    stats[i] = StatAbort => i = Len(stats) /\ reason = "transfer_failed"

(* The chunk transfer implements the stop-and-wait promise, per session. *)
Link == INSTANCE StopAndWait WITH
  Peers <- Nonces, Length <- Total, held <- [n \in Nonces |-> dev[n].own], acked <- acked
LinkSpec == Link!Spec

(* Every attempt ends, with the radio in FANET mode, if the sensors resend *)
(* finitely often: only foreign packets could keep waitForAck waiting.     *)
AttemptEnds == busy ~> (~busy /\ ~fast)

(* Where only chunks and their acknowledgements are lost, and losses and   *)
(* unasked acknowledgements together are fewer than MaxAttempts, a transfer *)
(* that has started is completed: a stale acknowledgement costs no more    *)
(* than one attempt at each chunk.  No other sensor may be left in a       *)
(* transfer: it would answer the same chunks over the served one.          *)
LossTolerated == \A n \in Nonces :
  (pc = "read" /\ ann = {n} /\ seq = 0 /\ Listeners = {n}) ~> (acked[n] = Total)

(* The station says that the sensor rejected the image (log text "finish   *)
(* rejected by device", web UI "Sensor rejected the image") only when the  *)
(* sensor did.                                                             *)
RejectedByDevice == \A n \in Nonces :
  <<n, "finish_rejected">> \in recorded => dev[n].verdict = "bad"

(* chunks_sent of a result report is the number of chunks accepted by the  *)
(* device (OtaAttempt::chunksSent).                                        *)
ChunksSentIsAccepted ==
  pc = "report" /\ reason = "transfer_failed" =>
    \A n \in ann : chunksSent = acked[n]

-----------------------------------------------------------------------------
(* The inductive invariant behind the safety properties.                   *)

Before == {"query", "obtain", "fanetAck", "start", "startWait"}
NoOffer == {"listen", "query", "notify", "notifyAbort"}
OnFanet == {"listen", "query", "notify", "obtain", "fanetAck", "report"}

(* The station's variables agree with its place in the attempt. *)
StageInv ==
  /\ (ann = {}) <=> (pc = "listen")
  /\ \A m, n \in ann : m = n
  /\ busy <=> (pc # "listen")
  /\ pc \in OnFanet => ~fast
  /\ owed = IF pc \in NoOffer THEN 0 ELSE 1
  /\ pc \in Before \cup NoOffer => seq = 0 /\ stats = <<>>
  /\ pc \in {"read", "chunk", "chunkWait"} => seq < Total
  /\ pc \notin {"stats", "abort", "report"} => reason = "none"
  /\ pc = "stats" => reason \in {"none", "transfer_failed"}
  /\ StatsMarkTheFailure

Installed(n) == dev[n].state = "READY" /\ dev[n].own = Total

(* A sensor's storage and what is on its way to it agree with what the     *)
(* station counts.                                                         *)
SensorInv(n) ==
  /\ dev[n].state \in {"off", "window"} => inbox[n] = {}
  /\ dev[n].state \in {"off", "window", "fast"} => dev[n].own = 0 /\ dev[n].next = 0
  /\ n \in ann => /\ dev[n].own = dev[n].next /\ acked[n] = seq
                  /\ \A p \in inbox[n] : p.of = n
  /\ \A p \in inbox[n] : p.op = "CHUNK" =>
       p.seq < Total /\ (p.of = n => p.seq <= acked[n])
  /\ acked[n] <= dev[n].own /\ dev[n].own <= acked[n] + 1
  /\ <<n, "success">> \in recorded => Installed(n)
  /\ n \in ann /\ reason = "success" => Installed(n)

(* A received acknowledgement is true of its sender from then on. *)
AckInv == \A a \in rx :
  /\ a.status = "RX" => a.next <= dev[a.from].next
  /\ a.status = "READY" => Installed(a.from)

IInv == TypeOK /\ StageInv /\ (\A n \in Nonces : SensorInv(n)) /\ AckInv
=============================================================================
