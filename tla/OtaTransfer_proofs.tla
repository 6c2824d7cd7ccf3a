------------------------- MODULE OtaTransfer_proofs -------------------------
(***************************************************************************)
(* Proofs about OtaTransfer, for any number of sensors, chunks, attempts,  *)
(* faults and unasked acknowledgements.                                    *)
(***************************************************************************)
EXTENDS OtaTransfer, TLAPS

(* Sequence numbers that stay below the modulus do not wrap. *)
LEMMA SmallMod == ASSUME NEW a \in Nat, NEW b \in Nat, a < b PROVE a % b = a
BY SMT

(* A transmission only fills inboxes, and with well-formed packets. *)
LEMMA TransmitType ==
  ASSUME TypeOK,
         NEW op \in {"START", "CHUNK", "FINISH", "ABORT"}, NEW k \in 0..Total,
         Transmit(op, k)
  PROVE  LinkTypeOK'
<1>1. faults' \in Nat
  BY DEF Transmit, Fault, TypeOK, LinkTypeOK
<1>2. inbox' \in [Nonces -> SUBSET Packets]
  <2>1. {[op |-> op, of |-> o, seq |-> k] : o \in ann} \in SUBSET Packets
    BY DEF TypeOK, StationTypeOK, Packets
  <2>2. QED BY <2>1 DEF Transmit, TypeOK, LinkTypeOK
<1>3. QED BY <1>1, <1>2 DEF Transmit, TypeOK, LinkTypeOK

LEMMA SendFanetAckType ==
  ASSUME TypeOK, SendFanetAck, rx' = {}
  PROVE  LinkTypeOK'
BY DEF SendFanetAck, Fault, TypeOK, LinkTypeOK, DevStates

(* What the sensors do leaves the station alone. *)
LEMMA HandlesType ==
  ASSUME TypeOK, NEW n \in Nonces, DevHandles(n) \/ DevResends(n) \/ DevQuits(n)
  PROVE  StationTypeOK'
BY DEF TypeOK, StationTypeOK, DevHandles, DevStart, DevChunk, DevFinish, DevOther,
       Handles, DevResends, DevQuits, local, debounce, ghosts

(* The history gets well-formed entries. *)
LEMMA RecordType ==
  ASSUME NEW n \in Nonces, NEW o \in Outcomes, Record(n, o)
  PROVE  recorded' \in SUBSET (Nonces \X Outcomes)
BY DEF Record

(* With the local variables gone, nothing is left of the attempt. *)
LEMMA ReturnStep ==
  ASSUME IInv, Return, fast' = FALSE, owed' = 0,
         recorded' \in SUBSET (Nonces \X Outcomes),
         UNCHANGED debounce, UNCHANGED acked
  PROVE  StationTypeOK' /\ StageInv'
<1> USE CountsAssumption DEF IInv, TypeOK, StationTypeOK, Return, debounce
<1>1. stats' \in Seq(0..StatAbort) /\ Len(stats') = 0
  OBVIOUS
<1>2. StationTypeOK'
  <2>1. 0 \in 0..Total /\ 0 \in 0..(MaxAttempts - 1) /\ 0 \in 0..1
    OBVIOUS
  <2>2. pc' \in Stages /\ reason' \in Reasons /\ busy' \in BOOLEAN /\ ann' \in SUBSET Nonces
    BY DEF Stages, Reasons
  <2>3. seq' = 0 /\ attempt' = 0 /\ chunksSent' = 0 /\ fast' \in BOOLEAN
    OBVIOUS
  <2>4. QED BY <1>1, <2>1, <2>2, <2>3
<1>3. StatsMarkTheFailure'
  BY <1>1 DEF StatsMarkTheFailure
<1>4. QED
  BY <1>2, <1>3 DEF StageInv, Before, NoOffer, OnFanet

(* The statistics after one more entry: the mark only if the chunk failed. *)
LEMMA StatsAppend ==
  ASSUME IInv, reason = "none", NEW e \in 0..StatAbort, stats' = Append(stats, e),
         e = StatAbort => reason' = "transfer_failed"
  PROVE  stats' \in Seq(0..StatAbort) /\ StatsMarkTheFailure'
<1> USE DEF IInv, TypeOK, StationTypeOK, StageInv, StatsMarkTheFailure
<1>1. stats' \in Seq(0..StatAbort) /\ Len(stats') = Len(stats) + 1
  OBVIOUS
<1>2. \A i \in 1..Len(stats) : stats'[i] = stats[i] /\ stats[i] # StatAbort
  OBVIOUS
<1>3. stats'[Len(stats')] = e
  OBVIOUS
<1>4. QED BY <1>1, <1>2, <1>3

(* An attempt at a chunk that did not get it accepted. *)
LEMMA NextAttemptStep ==
  ASSUME IInv, pc \in {"chunk", "chunkWait"}, NextAttempt,
         UNCHANGED <<busy, ann, fast, debounce, chunksSent, recorded, owed>>
  PROVE  StationTypeOK' /\ StageInv'
<1> USE CountsAssumption
<1>1. reason = "none" /\ seq < Total
  BY DEF IInv, StageInv
<1>2. CASE LastAttempt
  <2>1. stats' \in Seq(0..StatAbort) /\ StatsMarkTheFailure'
    BY <1>1, <1>2, StatsAppend DEF NextAttempt, ChunkFails
  <2>2. StationTypeOK'
    BY <1>2, <2>1 DEF NextAttempt, ChunkFails, IInv, TypeOK, StationTypeOK, Stages, Reasons,
                      debounce
  <2>3. QED
    BY <1>2, <2>1, <2>2 DEF NextAttempt, ChunkFails, IInv, StageInv, Before, NoOffer, OnFanet
<1>3. CASE ~LastAttempt
  BY <1>1, <1>3 DEF NextAttempt, LastAttempt, IInv, TypeOK, StationTypeOK, StageInv, Stages,
                    StatsMarkTheFailure, Before, NoOffer, OnFanet, debounce
<1>4. QED BY <1>2, <1>3

(* Every step of the station keeps its own variables in their types and in *)
(* agreement with its place in the attempt.                                *)
LEMMA StationStep ==
  ASSUME IInv, InAttempt
  PROVE  StationTypeOK' /\ StageInv'
<1> USE CountsAssumption
<1> USE DEF IInv, TypeOK, StationTypeOK, StageInv, StatsMarkTheFailure, Before, NoOffer,
            OnFanet, Stages, Reasons, Outcomes, Record, Return, EndsWith, AbortsWith, local,
            debounce, ghosts
<1>1. CASE QueryFails
  BY <1>1, RecordType, ReturnStep DEF QueryFails
<1>2. CASE LeftToOtherStation
  BY <1>2, RecordType, ReturnStep DEF LeftToOtherStation
<1>3. CASE NoUpdate
  BY <1>3 DEF NoUpdate
<1>4. CASE NotifyAck
  <2>1. CASE Return /\ UNCHANGED fast
    BY <1>4, <2>1, ReturnStep DEF NotifyAck
  <2>2. CASE ApplyRadioMode(TRUE) /\ pc' = "notifyAbort" /\ UNCHANGED <<busy, ann, local>>
    BY <1>4, <2>2 DEF NotifyAck, ApplyRadioMode
  <2>3. QED BY <1>4, <2>1, <2>2 DEF NotifyAck
<1>5. CASE NotifyAbort
  BY <1>5, ReturnStep DEF NotifyAbort, AbortAndLeaveFast
<1>6. CASE QueryOffered
  BY <1>6 DEF QueryOffered
<1>7. CASE Obtain
  BY <1>7 DEF Obtain
<1>8. CASE FanetAck
  <2>1. CASE EndsWith("fanet_ack_failed") /\ UNCHANGED fast
    BY <1>8, <2>1 DEF FanetAck
  <2>2. CASE ApplyRadioMode(TRUE) /\ pc' = "start" /\ UNCHANGED reason
    BY <1>8, <2>2 DEF FanetAck, ApplyRadioMode
  <2>3. QED BY <1>8, <2>1, <2>2 DEF FanetAck
<1>9. CASE SendStart
  BY <1>9 DEF SendStart, ApplyRadioMode, StartRefusedByRadio
<1>10. CASE StartAck
  BY <1>10 DEF StartAck
<1>11. CASE StartTimeout
  BY <1>11 DEF StartTimeout
<1>12. CASE ForeignPacket
  BY <1>12 DEF ForeignPacket
<1>13. CASE ReadChunk
  BY <1>13 DEF ReadChunk
<1>14. CASE SendChunk
  <2>1. CASE NextAttempt
    BY <1>14, <2>1, NextAttemptStep DEF SendChunk
  <2>2. CASE pc' = "chunkWait" /\ UNCHANGED <<attempt, stats, reason, seq, acked>>
    BY <1>14, <2>2 DEF SendChunk
  <2>3. QED BY <1>14, <2>1, <2>2 DEF SendChunk
<1>15. CASE ChunkAck
  <2>0. reason = "none" /\ seq < Total /\ pc = "chunkWait"
    BY <1>15 DEF ChunkAck
  <2>1. CASE NextAttempt
    BY <1>15, <2>1, NextAttemptStep DEF ChunkAck
  <2>2. CASE ChunkFails
    <3>1. stats' \in Seq(0..StatAbort) /\ StatsMarkTheFailure'
      BY <2>0, <2>2, StatsAppend DEF ChunkFails
    <3>2. QED BY <1>15, <2>0, <2>2, <3>1 DEF ChunkAck, ChunkFails
  <2>3. CASE ChunkAccepted
    <3>1. stats' \in Seq(0..StatAbort) /\ StatsMarkTheFailure'
      BY <2>0, <2>3, StatsAppend DEF ChunkAccepted
    <3>2. seq' = seq + 1 /\ seq + 1 \in 0..Total
      <4>1. seq + 1 \in Nat /\ SeqMod \in Nat /\ seq + 1 < SeqMod /\ seq + 1 \in 0..Total
        BY <2>0
      <4>2. (seq + 1) % SeqMod = seq + 1
        BY <4>1, SmallMod
      <4>3. QED BY <2>3, <4>1, <4>2 DEF ChunkAccepted
    <3>3. acked' \in [Nonces -> 0..Total]
      BY <2>3, <3>2 DEF ChunkAccepted
    <3>4. QED BY <1>15, <2>0, <2>3, <3>1, <3>2, <3>3 DEF ChunkAck, ChunkAccepted
  <2>4. QED BY <1>15, <2>1, <2>2, <2>3 DEF ChunkAck
<1>16. CASE ChunkTimeout
  BY <1>16, NextAttemptStep DEF ChunkTimeout
<1>17. CASE PostStats
  BY <1>17 DEF PostStats
<1>18. CASE SendFinish
  BY <1>18 DEF SendFinish
<1>19. CASE FinishAck
  BY <1>19 DEF FinishAck, ApplyRadioMode, FinishReason
<1>20. CASE FinishTimeout
  BY <1>20 DEF FinishTimeout
<1>21. CASE Abort
  BY <1>21 DEF Abort, AbortAndLeaveFast
<1>22. CASE Report
  <2>1. owed' = 0
    BY <1>22 DEF Report
  <2>2. reason \in Outcomes
    OBVIOUS
  <2>3. recorded' \in SUBSET (Nonces \X Outcomes)
    BY <1>22, <2>2, RecordType DEF Report
  <2>4. QED BY <1>22, <2>1, <2>3, ReturnStep DEF Report
<1>23. QED
  BY <1>1, <1>2, <1>3, <1>4, <1>5, <1>6, <1>7, <1>8, <1>9, <1>10, <1>11, <1>12, <1>13, <1>14,
     <1>15, <1>16, <1>17, <1>18, <1>19, <1>20, <1>21, <1>22 DEF InAttempt

-----------------------------------------------------------------------------
(* What a step of the station does to the link, and to what the invariant  *)
(* of the link reads.                                                      *)

Quiet == UNCHANGED devVars /\ rx' \subseteq rx /\ faults' \in Nat
Hands == SendFanetAck /\ rx' = {}
Sends == \E op \in {"START", "CHUNK", "FINISH", "ABORT"}, k \in 0..Total :
  Transmit(op, k) /\ (op = "CHUNK" => k = seq /\ seq < Total)

LEMMA LinkEffect == ASSUME IInv, InAttempt PROVE Quiet \/ Hands \/ Sends
<1> USE CountsAssumption
<1> USE DEF IInv, TypeOK, LinkTypeOK, Quiet, Fault, TimedOut, TxError, devVars
<1>1. CASE QueryFails
  BY <1>1 DEF QueryFails
<1>2. CASE LeftToOtherStation
  BY <1>2 DEF LeftToOtherStation
<1>3. CASE NoUpdate
  BY <1>3 DEF NoUpdate
<1>4. CASE NotifyAck
  BY <1>4 DEF NotifyAck, Hands, ApplyRadioMode
<1>5. CASE NotifyAbort
  BY <1>5 DEF NotifyAbort, Sends, AbortAndLeaveFast
<1>6. CASE QueryOffered
  BY <1>6 DEF QueryOffered
<1>7. CASE Obtain
  BY <1>7 DEF Obtain
<1>8. CASE FanetAck
  BY <1>8 DEF FanetAck, Hands, ApplyRadioMode
<1>9. CASE SendStart
  BY <1>9 DEF SendStart, Sends, StartRefusedByRadio, ApplyRadioMode
<1>10. CASE StartAck
  BY <1>10 DEF StartAck
<1>11. CASE StartTimeout
  BY <1>11 DEF StartTimeout
<1>12. CASE ForeignPacket
  BY <1>12 DEF ForeignPacket
<1>13. CASE ReadChunk
  BY <1>13 DEF ReadChunk
<1>14. CASE SendChunk
  BY <1>14 DEF SendChunk, Sends, StationTypeOK, StageInv
<1>15. CASE ChunkAck
  BY <1>15 DEF ChunkAck
<1>16. CASE ChunkTimeout
  BY <1>16 DEF ChunkTimeout
<1>17. CASE PostStats
  BY <1>17 DEF PostStats
<1>18. CASE SendFinish
  BY <1>18 DEF SendFinish, Sends
<1>19. CASE FinishAck
  BY <1>19 DEF FinishAck, ApplyRadioMode
<1>20. CASE FinishTimeout
  BY <1>20 DEF FinishTimeout
<1>21. CASE Abort
  BY <1>21 DEF Abort, Sends, AbortAndLeaveFast
<1>22. CASE Report
  BY <1>22 DEF Report
<1>23. QED
  BY <1>1, <1>2, <1>3, <1>4, <1>5, <1>6, <1>7, <1>8, <1>9, <1>10, <1>11, <1>12, <1>13, <1>14,
     <1>15, <1>16, <1>17, <1>18, <1>19, <1>20, <1>21, <1>22 DEF InAttempt

Counts ==
  \/ UNCHANGED acked /\ (ann' = {} \/ UNCHANGED seq)
  \/ /\ seq' = seq + 1
     /\ acked' = [n \in Nonces |-> IF n \in ann THEN seq + 1 ELSE acked[n]]
     /\ \A n \in ann : seq + 1 <= dev[n].next

Concludes ==
  /\ \A n \in Nonces : <<n, "success">> \in recorded' =>
       <<n, "success">> \in recorded \/ (n \in ann /\ reason = "success")
  /\ reason' = "success" =>
       reason = "success" \/ (\E a \in rx : a.from \in ann /\ a.status = "READY")

LEMMA StationEffect ==
  ASSUME IInv, InAttempt
  PROVE  (ann' = ann \/ ann' = {}) /\ Counts /\ Concludes
<1> USE CountsAssumption
<1> USE DEF IInv, Counts, Concludes, Record, Return, EndsWith, AbortsWith, local, debounce, ghosts
<1>1. CASE QueryFails
  BY <1>1 DEF QueryFails
<1>2. CASE LeftToOtherStation
  BY <1>2 DEF LeftToOtherStation
<1>3. CASE NoUpdate
  BY <1>3 DEF NoUpdate
<1>4. CASE NotifyAck
  BY <1>4 DEF NotifyAck
<1>5. CASE NotifyAbort
  BY <1>5 DEF NotifyAbort
<1>6. CASE QueryOffered
  BY <1>6 DEF QueryOffered
<1>7. CASE Obtain
  BY <1>7 DEF Obtain
<1>8. CASE FanetAck
  BY <1>8 DEF FanetAck
<1>9. CASE SendStart
  BY <1>9 DEF SendStart, StartRefusedByRadio
<1>10. CASE StartAck
  BY <1>10 DEF StartAck
<1>11. CASE StartTimeout
  BY <1>11 DEF StartTimeout
<1>12. CASE ForeignPacket
  BY <1>12 DEF ForeignPacket
<1>13. CASE ReadChunk
  BY <1>13 DEF ReadChunk
<1>14. CASE SendChunk
  BY <1>14 DEF SendChunk, NextAttempt, ChunkFails
<1>15. CASE ChunkAck
  <2>1. CASE NextAttempt \/ ChunkFails
    BY <1>15, <2>1 DEF ChunkAck, NextAttempt, ChunkFails
  <2>2. ASSUME NEW a \in rx, Ours(a), Accepts(a), ChunkAccepted
        PROVE  (ann' = ann \/ ann' = {}) /\ Counts /\ Concludes
    <3>1. /\ seq + 1 \in Nat /\ SeqMod \in Nat /\ seq + 1 < SeqMod
          /\ a.from \in Nonces /\ a.next <= dev[a.from].next
          /\ a.next \in Nat /\ dev[a.from].next \in Nat
      <4>1. pc = "chunkWait" /\ a.status = "RX"
        BY <1>15, <2>2 DEF ChunkAck, Accepts
      <4>2. seq < Total /\ a.next <= dev[a.from].next
        BY <2>2, <4>1 DEF StageInv, AckInv
      <4>3. a \in Acks /\ dev[a.from].next \in Nat
        BY <2>2 DEF TypeOK, LinkTypeOK, Acks
      <4>4. a.from \in Nonces /\ a.next \in Nat
        BY <4>3 DEF Acks
      <4>5. seq \in Nat
        BY DEF TypeOK, StationTypeOK
      <4>6. seq + 1 \in Nat /\ seq + 1 < SeqMod
        BY <4>2, <4>5
      <4>7. QED BY <4>2, <4>3, <4>4, <4>6
    <3>2. (seq + 1) % SeqMod = seq + 1
      BY <3>1, SmallMod
    <3>3. \A n \in ann : n = a.from
      BY <2>2 DEF Ours, StageInv
    <3>4. QED BY <1>15, <2>2, <3>1, <3>2, <3>3 DEF ChunkAck, ChunkAccepted, Accepts
  <2>3. QED BY <1>15, <2>1, <2>2 DEF ChunkAck
<1>16. CASE ChunkTimeout
  BY <1>16 DEF ChunkTimeout, NextAttempt, ChunkFails
<1>17. CASE PostStats
  BY <1>17 DEF PostStats
<1>18. CASE SendFinish
  BY <1>18 DEF SendFinish
<1>19. CASE FinishAck
  BY <1>19 DEF FinishAck, FinishReason, Ours
<1>20. CASE FinishTimeout
  BY <1>20 DEF FinishTimeout
<1>21. CASE Abort
  BY <1>21 DEF Abort
<1>22. CASE Report
  BY <1>22 DEF Report
<1>23. QED
  BY <1>1, <1>2, <1>3, <1>4, <1>5, <1>6, <1>7, <1>8, <1>9, <1>10, <1>11, <1>12, <1>13, <1>14,
     <1>15, <1>16, <1>17, <1>18, <1>19, <1>20, <1>21, <1>22 DEF InAttempt

-----------------------------------------------------------------------------
(* A step of the station keeps the invariant of the link.                  *)

LEMMA LinkTypeStep == ASSUME IInv, InAttempt PROVE LinkTypeOK'
<1>1. CASE Quiet
  BY <1>1 DEF Quiet, IInv, TypeOK, LinkTypeOK, devVars
<1>2. CASE Hands
  BY <1>2, SendFanetAckType DEF Hands, IInv
<1>3. CASE Sends
  BY <1>3, TransmitType DEF Sends, IInv
<1>4. QED BY <1>1, <1>2, <1>3, LinkEffect

(* No sensor's storage changes; only waiting ones may enter the transfer.  *)
LEMMA StorageKept ==
  ASSUME IInv, InAttempt, NEW n \in Nonces
  PROVE  /\ dev'[n].own = dev[n].own /\ dev'[n].next = dev[n].next
         /\ \/ dev'[n].state = dev[n].state
            \/ dev[n].state = "window" /\ dev'[n].state = "fast"
<1>1. CASE Quiet \/ Sends
  BY <1>1 DEF Quiet, Sends, Transmit, devVars
<1>2. CASE Hands
  BY <1>2 DEF Hands, SendFanetAck, IInv, TypeOK, LinkTypeOK
<1>3. QED BY <1>1, <1>2, LinkEffect

(* A packet in an inbox was there before or is the one just sent. *)
LEMMA InboxKept ==
  ASSUME IInv, InAttempt, NEW n \in Nonces, NEW p \in inbox'[n]
  PROVE  \/ p \in inbox[n]
         \/ /\ dev'[n].state \notin {"off", "window"}
            /\ p.of \in ann
            /\ p.op = "CHUNK" => p.seq = seq /\ seq < Total
<1>1. CASE Quiet
  BY <1>1 DEF Quiet, devVars
<1>2. CASE Hands
  BY <1>2 DEF Hands, SendFanetAck
<1>3. CASE Sends
  BY <1>3 DEF Sends, Transmit, Listeners, IInv, TypeOK, LinkTypeOK
<1>4. QED BY <1>1, <1>2, <1>3, LinkEffect

LEMMA SensorStep ==
  ASSUME IInv, InAttempt, NEW n \in Nonces
  PROVE  SensorInv(n)'
<1>e. (ann' = ann \/ ann' = {}) /\ Counts /\ Concludes
  BY StationEffect
<1>s. /\ dev'[n].own = dev[n].own /\ dev'[n].next = dev[n].next
      /\ \/ dev'[n].state = dev[n].state
         \/ dev[n].state = "window" /\ dev'[n].state = "fast"
  BY StorageKept
<1>i. \A p \in inbox'[n] :
        \/ p \in inbox[n]
        \/ /\ dev'[n].state \notin {"off", "window"}
           /\ p.of \in ann
           /\ p.op = "CHUNK" => p.seq = seq /\ seq < Total
  BY InboxKept
<1> USE <1>e, <1>s, <1>i
<1>0. SensorInv(n) /\ (\A m \in ann : m = n \/ n \notin ann) /\ AckInv
  BY DEF IInv, StageInv
<1>t. /\ acked[n] \in Nat /\ seq \in Nat /\ dev[n].own \in Nat /\ dev[n].next \in Nat
      /\ acked'[n] \in Nat /\ seq' \in Nat
  <2>1. acked[n] \in Nat /\ seq \in Nat /\ dev[n].own \in Nat /\ dev[n].next \in Nat
    BY CountsAssumption DEF IInv, TypeOK, StationTypeOK, LinkTypeOK
  <2>2. StationTypeOK'
    BY StationStep
  <2>3. acked'[n] \in Nat /\ seq' \in Nat
    BY <2>2, CountsAssumption DEF StationTypeOK
  <2>4. QED BY <2>1, <2>3
<1>a. acked'[n] = acked[n] \/ (n \in ann /\ acked'[n] = seq + 1 /\ seq' = seq + 1 /\ seq + 1 <= dev[n].next)
  BY DEF Counts
<1>1. dev'[n].state \in {"off", "window"} => inbox'[n] = {}
  BY <1>0 DEF SensorInv
<1>2. dev'[n].state \in {"off", "window", "fast"} => dev'[n].own = 0 /\ dev'[n].next = 0
  BY <1>0 DEF SensorInv
<1>3. n \in ann' => /\ dev'[n].own = dev'[n].next /\ acked'[n] = seq'
                    /\ \A p \in inbox'[n] : p.of = n
  <2>1. SUFFICES ASSUME n \in ann' PROVE /\ dev'[n].own = dev'[n].next /\ acked'[n] = seq'
                    /\ \A p \in inbox'[n] : p.of = n
    OBVIOUS
  <2>2. n \in ann
    BY <2>1
  <2>3. acked'[n] = seq'
    BY <1>0, <2>1, <2>2, <1>t DEF Counts, SensorInv
  <2>4. QED BY <1>0, <2>2, <2>3 DEF SensorInv
<1>4. \A p \in inbox'[n] : p.op = "CHUNK" => p.seq < Total /\ (p.of = n => p.seq <= acked'[n])
  <2>1. SUFFICES ASSUME NEW p \in inbox'[n], p.op = "CHUNK"
                 PROVE  p.seq < Total /\ (p.of = n => p.seq <= acked'[n])
    OBVIOUS
  <2>2. p.seq \in Nat
    BY LinkTypeStep DEF LinkTypeOK, Packets
  <2>3. n \in ann => acked[n] = seq
    BY <1>0 DEF SensorInv
  <2>4. CASE p \in inbox[n]
    BY <1>0, <1>t, <1>a, <2>1, <2>2, <2>3, <2>4 DEF SensorInv
  <2>5. CASE p.of \in ann /\ p.seq = seq /\ seq < Total
    BY <1>0, <1>t, <1>a, <2>1, <2>2, <2>3, <2>5
  <2>6. QED BY <2>1, <2>4, <2>5
<1>5. acked'[n] <= dev'[n].own /\ dev'[n].own <= acked'[n] + 1
  <2>1. n \in ann => acked[n] = seq /\ dev[n].own = dev[n].next
    BY <1>0 DEF SensorInv
  <2>2. acked[n] <= dev[n].own /\ dev[n].own <= acked[n] + 1
    BY <1>0 DEF SensorInv
  <2>3. QED BY <1>a, <1>t, <2>1, <2>2
<1>6. Installed(n) => Installed(n)'
  BY DEF Installed
<1>7. <<n, "success">> \in recorded' => Installed(n)'
  BY <1>0, <1>6 DEF SensorInv, Concludes
<1>8. n \in ann' /\ reason' = "success" => Installed(n)'
  <2>1. SUFFICES ASSUME n \in ann', reason' = "success" PROVE Installed(n)'
    OBVIOUS
  <2>2. CASE reason = "success"
    BY <1>0, <1>6, <2>1, <2>2 DEF SensorInv
  <2>3. CASE \E a \in rx : a.from \in ann /\ a.status = "READY"
    BY <1>0, <1>6, <2>1, <2>3 DEF AckInv
  <2>4. QED BY <2>1, <2>2, <2>3 DEF Concludes
<1>9. QED BY <1>1, <1>2, <1>3, <1>4, <1>5, <1>7, <1>8 DEF SensorInv

LEMMA AckStep == ASSUME IInv, InAttempt PROVE AckInv'
<1>1. rx' \subseteq rx
  BY LinkEffect DEF Quiet, Hands, Sends, Transmit
<1>2. \A a \in rx : a.from \in Nonces
  BY DEF IInv, TypeOK, LinkTypeOK, Acks
<1>3. QED BY <1>1, <1>2, StorageKept DEF AckInv, IInv, Installed

-----------------------------------------------------------------------------
(* Announcements, the passing of time and the sensors' own steps.          *)

LEMMA AnnouncementStep ==
  ASSUME IInv, NEW n \in Nonces,
         AnnouncementIgnored(n) \/ AnnouncementUnsupported(n) \/ AttemptStarts(n)
  PROVE  IInv'
<1> USE CountsAssumption
<1>1. /\ pc = "listen" /\ dev[n].state \in {"off", "window"}
      /\ dev' = [dev EXCEPT ![n].state = "window"]
      /\ UNCHANGED <<fast, local, inbox, rx, faults, ghosts>>
  BY DEF AnnouncementIgnored, AnnouncementUnsupported, AttemptStarts, Announces
<1>2. recorded' = recorded \/ recorded' = {<<n, "unsupported_proto">>}
  BY DEF AnnouncementIgnored, AnnouncementUnsupported, AttemptStarts, Record
<1>3. StationTypeOK'
  <2>1. recorded' \in SUBSET (Nonces \X Outcomes)
    BY <1>2 DEF IInv, TypeOK, StationTypeOK, Outcomes
  <2>2. /\ lastNonce' = lastNonce \/ lastNonce' = {n}
        /\ recent' = recent \/ recent' = TRUE
        /\ ann' = ann \/ ann' = {n}
        /\ busy' = busy \/ busy' = TRUE
        /\ pc' = pc \/ pc' = "query"
    BY DEF AnnouncementIgnored, AnnouncementUnsupported, AttemptStarts, debounce
  <2>3. /\ lastNonce' \in SUBSET Nonces /\ recent' \in BOOLEAN /\ ann' \in SUBSET Nonces
        /\ busy' \in BOOLEAN /\ pc' \in Stages
    BY <2>2 DEF IInv, TypeOK, StationTypeOK, Stages
  <2>4. QED BY <1>1, <2>1, <2>3 DEF IInv, TypeOK, StationTypeOK, local, ghosts
<1>4. LinkTypeOK'
  BY <1>1 DEF IInv, TypeOK, LinkTypeOK, DevStates
<1>5. StageInv'
  BY <1>1 DEF AnnouncementIgnored, AnnouncementUnsupported, AttemptStarts, IInv, StageInv,
     StatsMarkTheFailure, Before, NoOffer, OnFanet, local, debounce, ghosts
<1>6. \A m \in Nonces : /\ dev'[m].own = dev[m].own /\ dev'[m].next = dev[m].next
                         /\ dev'[m].state = IF m = n THEN "window" ELSE dev[m].state
  BY <1>1 DEF IInv, TypeOK, LinkTypeOK
<1>7. ASSUME NEW m \in Nonces PROVE SensorInv(m)'
  <2>1. SensorInv(m) /\ seq = 0 /\ reason = "none" /\ ann = {}
    BY <1>1 DEF IInv, StageInv, NoOffer
  <2>2. m \in ann' => m = n
    BY <2>1 DEF AnnouncementIgnored, AnnouncementUnsupported, AttemptStarts
  <2>3. acked[m] \in Nat /\ dev[m].own \in Nat
    BY DEF IInv, TypeOK, StationTypeOK, LinkTypeOK
  <2>4. m = n => acked[m] = 0 /\ dev[m].own = 0 /\ dev[m].next = 0 /\ inbox[m] = {}
    BY <1>1, <2>1, <2>3 DEF SensorInv
  <2>5. Installed(m) => Installed(m)'
    BY <1>1, <1>6 DEF Installed
  <2>6. QED
    BY <1>1, <1>2, <1>6, <2>1, <2>2, <2>4, <2>5 DEF SensorInv, local, ghosts
<1>8. AckInv'
  <2>1. ASSUME NEW a \in rx PROVE a.from \in Nonces
    BY DEF IInv, TypeOK, LinkTypeOK, Acks
  <2>2. QED BY <1>1, <1>6, <2>1 DEF IInv, AckInv, Installed
<1>9. QED BY <1>3, <1>4, <1>5, <1>7, <1>8 DEF IInv, TypeOK

(* The debounce window of s_last_nonce runs out. *)
LEMMA DebounceStep == ASSUME IInv, DebounceOver PROVE IInv'
BY DEF DebounceOver, IInv, TypeOK, StationTypeOK, LinkTypeOK, StageInv, StatsMarkTheFailure,
       SensorInv, AckInv, Installed, local, ghosts, devVars

(* What a sensor does, whatever it does: the station is left alone, and so *)
(* are the other sensors.                                                  *)
DevKeeps(n) ==
  /\ UNCHANGED <<pc, busy, ann, fast, debounce, local, recorded, ghosts>>
  /\ \A m \in Nonces \ {n} : dev'[m] = dev[m] /\ inbox'[m] = inbox[m]

(* An acknowledgement put on the air is well-formed. *)
LEMMA HeardType ==
  ASSUME rx \in SUBSET Acks, NEW n \in Nonces, NEW k \in 0..Total, NEW st \in Statuses
  PROVE  Heard(n, k, st) \in SUBSET Acks
BY DEF Heard, Acks

LEMMA DevLinkType ==
  ASSUME IInv, NEW n \in Nonces, DevHandles(n) \/ DevResends(n) \/ DevQuits(n)
  PROVE  LinkTypeOK' /\ DevKeeps(n)
<1>0. /\ Total \in Nat /\ 0 \in 0..Total /\ dev[n].next \in 0..Total /\ dev[n].own \in 0..Total
      /\ rx \in SUBSET Acks /\ faults \in Nat /\ inbox \in [Nonces -> SUBSET Packets]
      /\ dev \in [Nonces -> [state : DevStates, next : 0..Total, own : 0..Total,
                             resends : 0..MaxResends, verdict : {"none", "good", "bad"}]]
  BY CountsAssumption DEF IInv, TypeOK, LinkTypeOK
<1>1. CASE DevStart(n)
  <2>1. rx' = Heard(n, 0, "RX") \/ rx' = Heard(n, 0, "ERR") \/ rx' = rx
    BY <1>1 DEF DevStart, Answer
  <2>2. rx' \in SUBSET Acks
    BY <1>0, <2>1, HeardType DEF Statuses
  <2>3. faults' \in Nat
    BY <1>0, <1>1 DEF DevStart, Answer, Fault
  <2>4. QED BY <1>0, <1>1, <2>2, <2>3 DEF DevStart, Handles, DevKeeps, LinkTypeOK, DevStates
<1>2. CASE DevChunk(n)
  <2>1. PICK p \in inbox[n] :
          /\ p.op = "CHUNK"
          /\ Handles(n, p)
          /\ \/ /\ p.seq = dev[n].next
                /\ dev' = [dev EXCEPT ![n].next = @ + 1,
                                      ![n].own = IF p.of = n /\ @ = p.seq THEN @ + 1 ELSE @]
                /\ Answer(n, "CHUNK", p.seq + 1, "RX")
             \/ /\ UNCHANGED dev
                /\ Answer(n, "CHUNK", dev[n].next, "RX")
             \/ /\ Fault(<<"refuse", "CHUNK">>)
                /\ dev' = [dev EXCEPT ![n].state = "idle"]
                /\ rx' = Heard(n, dev[n].next, "ERR_SIZE")
    BY <1>2 DEF DevChunk
  <2>2. p.seq \in 0..Total
    BY <1>0 DEF Packets
  <2>s. SensorInv(n)
    BY DEF IInv
  <2>n. p.seq < Total
    BY <2>1, <2>s DEF SensorInv
  <2>3. p.seq + 1 \in 0..Total
    BY <1>0, <2>2, <2>n
  <2>4. rx' \in SUBSET Acks
    BY <1>0, <2>1, <2>3, HeardType DEF Statuses, Answer
  <2>5. faults' \in Nat
    BY <1>0, <2>1 DEF Answer, Fault
  <2>6. (IF p.of = n /\ dev[n].own = p.seq THEN dev[n].own + 1 ELSE dev[n].own) \in 0..Total
    BY <1>0, <2>3
  <2>7. p.seq = dev[n].next => dev[n].next + 1 \in 0..Total
    BY <2>3
  <2>8. dev' \in [Nonces -> [state : DevStates, next : 0..Total, own : 0..Total,
                             resends : 0..MaxResends, verdict : {"none", "good", "bad"}]]
    BY <1>0, <2>1, <2>6, <2>7 DEF DevStates
  <2>9. QED BY <1>0, <2>1, <2>4, <2>5, <2>8 DEF Handles, DevKeeps, LinkTypeOK
<1>3. CASE DevFinish(n)
  <2>1. rx' = Heard(n, Total, "READY") \/ rx' = Heard(n, dev[n].next, "ERR") \/ rx' = rx
    BY <1>3 DEF DevFinish, Answer
  <2>2. rx' \in SUBSET Acks
    BY <1>0, <2>1, HeardType DEF Statuses
  <2>3. faults' \in Nat
    BY <1>0, <1>3 DEF DevFinish, Answer, Fault
  <2>4. QED BY <1>0, <1>3, <2>2, <2>3 DEF DevFinish, Handles, DevKeeps, LinkTypeOK, DevStates
<1>4. CASE DevOther(n)
  BY <1>0, <1>4 DEF DevOther, Handles, DevKeeps, LinkTypeOK, DevStates
<1>5. CASE DevResends(n)
  <2>1. rx' \in SUBSET Acks
    BY <1>0, <1>5, HeardType DEF Statuses, DevResends
  <2>2. dev[n].resends + 1 \in 0..MaxResends
    BY <1>0, <1>5, CountsAssumption DEF DevResends
  <2>3. QED BY <1>0, <1>5, <2>1, <2>2 DEF DevResends, DevKeeps, LinkTypeOK
<1>6. CASE DevQuits(n)
  BY <1>0, <1>6 DEF DevQuits, DevKeeps, LinkTypeOK, DevStates, Fault
<1>7. QED BY <1>1, <1>2, <1>3, <1>4, <1>5, <1>6 DEF DevHandles

(* The sensor itself, and what it puts on the air.                         *)
DevEffect(n) ==
  /\ SensorInv(n)'
  /\ dev[n].next <= dev'[n].next
  /\ Installed(n) => Installed(n)'
  /\ \A a \in rx' \ rx :
       /\ a.from = n
       /\ a.status = "RX" => a.next <= dev'[n].next
       /\ a.status = "READY" => Installed(n)'

LEMMA DevStep ==
  ASSUME IInv, NEW n \in Nonces, DevHandles(n) \/ DevResends(n) \/ DevQuits(n)
  PROVE  DevEffect(n)
<1>0. /\ Total \in Nat /\ dev[n].next \in Nat /\ dev[n].own \in Nat
      /\ acked[n] \in Nat /\ seq \in Nat
      /\ \A p \in inbox[n] : p.seq \in Nat
      /\ SensorInv(n)
      /\ dev \in [Nonces -> [state : DevStates, next : 0..Total, own : 0..Total,
                             resends : 0..MaxResends, verdict : {"none", "good", "bad"}]]
      /\ inbox \in [Nonces -> SUBSET Packets]
  BY CountsAssumption DEF IInv, TypeOK, StationTypeOK, LinkTypeOK, Packets
<1>k. UNCHANGED <<pc, busy, ann, fast, lastNonce, recent, recorded, owed, acked, seq, reason>>
  BY DevLinkType DEF DevKeeps, debounce, local, ghosts
<1>1. CASE DevStart(n)
  <2>1. /\ dev[n].state = "fast" /\ inbox'[n] = {}
        /\ dev'[n].own = dev[n].own /\ dev'[n].next = dev[n].next
        /\ dev'[n].state \in {"fast", "RX"}
    BY <1>0, <1>1 DEF DevStart, Handles, SensorInv
  <2>2. \A a \in rx' \ rx : a.from = n /\ a.next = 0 /\ a.status # "READY"
    BY <1>1 DEF DevStart, Answer, Heard
  <2>3. QED BY <1>0, <1>k, <2>1, <2>2 DEF DevEffect, SensorInv, Installed
<1>2. CASE DevChunk(n)
  <2>1. PICK p \in inbox[n] :
          /\ p.op = "CHUNK" /\ dev[n].state = "RX"
          /\ Handles(n, p)
          /\ \/ /\ p.seq = dev[n].next
                /\ dev' = [dev EXCEPT ![n].next = @ + 1,
                                      ![n].own = IF p.of = n /\ @ = p.seq THEN @ + 1 ELSE @]
                /\ Answer(n, "CHUNK", p.seq + 1, "RX")
             \/ /\ UNCHANGED dev
                /\ Answer(n, "CHUNK", dev[n].next, "RX")
             \/ /\ Fault(<<"refuse", "CHUNK">>)
                /\ dev' = [dev EXCEPT ![n].state = "idle"]
                /\ rx' = Heard(n, dev[n].next, "ERR_SIZE")
    BY <1>2 DEF DevChunk
  <2>2. inbox'[n] = {}
    BY <1>0, <2>1 DEF Handles
  <2>3. CASE /\ p.seq = dev[n].next
             /\ dev' = [dev EXCEPT ![n].next = @ + 1,
                                   ![n].own = IF p.of = n /\ @ = p.seq THEN @ + 1 ELSE @]
             /\ Answer(n, "CHUNK", p.seq + 1, "RX")
    <3>1. /\ dev'[n].next = dev[n].next + 1 /\ dev'[n].state = "RX"
          /\ dev'[n].own = IF p.of = n /\ dev[n].own = p.seq THEN dev[n].own + 1 ELSE dev[n].own
      BY <1>0, <2>1, <2>3
    <3>2. \A a \in rx' \ rx : a.from = n /\ a.next = dev'[n].next /\ a.status # "READY"
      BY <2>3, <3>1 DEF Answer, Heard
    <3>3. p.of = n => p.seq <= acked[n]
      BY <1>0, <2>1 DEF SensorInv
    <3>4. n \in ann => p.of = n /\ dev[n].own = dev[n].next
      BY <1>0 DEF SensorInv
    <3>5. acked[n] <= dev'[n].own /\ dev'[n].own <= acked[n] + 1
      BY <1>0, <3>1, <3>3 DEF SensorInv
    <3>6. dev[n].next + 1 \in Nat /\ dev[n].next <= dev[n].next + 1
      BY <1>0
    <3>7. QED
      BY <1>0, <1>k, <2>1, <2>2, <2>3, <3>1, <3>2, <3>4, <3>5, <3>6 DEF DevEffect, SensorInv, Installed
  <2>4. CASE /\ UNCHANGED dev
             /\ Answer(n, "CHUNK", dev[n].next, "RX")
    <3>1. \A a \in rx' \ rx : a.from = n /\ a.next = dev[n].next /\ a.status # "READY"
      BY <2>4 DEF Answer, Heard
    <3>2. QED BY <1>0, <1>k, <2>2, <2>4, <3>1 DEF DevEffect, SensorInv, Installed
  <2>5. CASE /\ dev' = [dev EXCEPT ![n].state = "idle"]
             /\ rx' = Heard(n, dev[n].next, "ERR_SIZE")
    <3>1. /\ dev'[n].own = dev[n].own /\ dev'[n].next = dev[n].next /\ dev'[n].state = "idle"
      BY <1>0, <2>5
    <3>2. \A a \in rx' \ rx : a.from = n /\ a.next = dev[n].next /\ a.status # "READY"
      BY <2>5 DEF Heard
    <3>3. QED BY <1>0, <1>k, <2>1, <2>2, <3>1, <3>2 DEF DevEffect, SensorInv, Installed
  <2>6. QED BY <2>1, <2>3, <2>4, <2>5
<1>3. CASE DevFinish(n)
  <2>1. /\ dev[n].state = "RX" /\ inbox'[n] = {}
        /\ dev'[n].own = dev[n].own /\ dev'[n].next = dev[n].next
        /\ dev'[n].state \in {"READY", "idle"}
    BY <1>0, <1>3 DEF DevFinish, Handles
  <2>2. \A a \in rx' \ rx : /\ a.from = n /\ a.status # "RX"
                            /\ a.status = "READY" => dev'[n].state = "READY" /\ dev[n].own = Total
    BY <1>0, <1>3 DEF DevFinish, Answer, Heard
  <2>3. QED BY <1>0, <1>k, <2>1, <2>2 DEF DevEffect, SensorInv, Installed
<1>4. CASE DevOther(n)
  <2>1. /\ inbox'[n] = {} /\ rx' = rx
        /\ dev'[n].own = dev[n].own /\ dev'[n].next = dev[n].next
        /\ \/ dev'[n].state = dev[n].state
           \/ dev[n].state \in {"fast", "RX"} /\ dev'[n].state = "idle"
    BY <1>0, <1>4 DEF DevOther, Handles
  <2>2. QED BY <1>0, <1>k, <2>1 DEF DevEffect, SensorInv, Installed
<1>5. CASE DevResends(n)
  <2>1. /\ inbox'[n] = inbox[n] /\ dev[n].state = "RX"
        /\ dev'[n].own = dev[n].own /\ dev'[n].next = dev[n].next
        /\ dev'[n].state = dev[n].state
    BY <1>0, <1>5 DEF DevResends
  <2>2. \A a \in rx' \ rx : a.from = n /\ a.next = dev[n].next /\ a.status # "READY"
    BY <1>5 DEF DevResends, Heard
  <2>3. QED BY <1>0, <1>k, <2>1, <2>2 DEF DevEffect, SensorInv, Installed
<1>6. CASE DevQuits(n)
  <2>1. /\ inbox'[n] = {} /\ rx' = rx /\ dev[n].state \in {"window", "fast", "RX"}
        /\ dev'[n].own = dev[n].own /\ dev'[n].next = dev[n].next
        /\ dev'[n].state = "idle"
    BY <1>0, <1>6 DEF DevQuits
  <2>2. QED BY <1>0, <1>k, <2>1 DEF DevEffect, SensorInv, Installed
<1>7. QED BY <1>1, <1>2, <1>3, <1>4, <1>5, <1>6 DEF DevHandles

LEMMA DevInvStep ==
  ASSUME IInv, NEW n \in Nonces, DevHandles(n) \/ DevResends(n) \/ DevQuits(n)
  PROVE  IInv'
<1>1. LinkTypeOK' /\ DevKeeps(n)
  BY DevLinkType
<1>2. DevEffect(n)
  BY DevStep
<1>3. StationTypeOK' /\ StageInv'
  BY <1>1 DEF DevKeeps, IInv, TypeOK, StationTypeOK, StageInv, StatsMarkTheFailure, local,
              debounce, ghosts
<1>4. ASSUME NEW m \in Nonces PROVE SensorInv(m)'
  <2>1. CASE m = n
    BY <1>2, <2>1 DEF DevEffect
  <2>2. CASE m # n
    BY <1>1, <2>2 DEF DevKeeps, IInv, SensorInv, Installed, local, debounce, ghosts
  <2>3. QED BY <2>1, <2>2
<1>5. AckInv'
  <2>1. SUFFICES ASSUME NEW a \in rx'
                 PROVE  /\ a.status = "RX" => a.next <= dev'[a.from].next
                        /\ a.status = "READY" => Installed(a.from)'
    BY DEF AckInv
  <2>2. CASE a \in rx' \ rx
    BY <1>2, <2>2 DEF DevEffect
  <2>3. CASE a \in rx /\ a.from # n
    BY <1>1, <2>3 DEF DevKeeps, IInv, AckInv, TypeOK, LinkTypeOK, Acks, Installed
  <2>4. CASE a \in rx /\ a.from = n
    <3>1. a.next \in Nat /\ dev[n].next \in Nat /\ dev'[n].next \in Nat
      BY <1>1, <2>4, CountsAssumption DEF IInv, TypeOK, LinkTypeOK, Acks
    <3>2. /\ a.status = "RX" => a.next <= dev[n].next
          /\ a.status = "READY" => Installed(n)
      BY <2>4 DEF IInv, AckInv
    <3>3. dev[n].next <= dev'[n].next /\ (Installed(n) => Installed(n)')
      BY <1>2 DEF DevEffect
    <3>4. a.status = "RX" => a.next <= dev'[a.from].next
      BY <2>4, <3>1, <3>2, <3>3
    <3>5. a.status = "READY" => Installed(a.from)'
      BY <2>4, <3>2, <3>3
    <3>6. QED BY <3>4, <3>5
  <2>5. QED BY <2>2, <2>3, <2>4
<1>6. QED BY <1>1, <1>3, <1>4, <1>5 DEF IInv, TypeOK

-----------------------------------------------------------------------------
(* The invariant holds throughout.                                         *)

LEMMA InitIInv == ASSUME Init PROVE IInv
<1> USE CountsAssumption DEF Init
<1>1. 0 \in 0..Total /\ 0 \in 0..(MaxAttempts - 1) /\ 0 \in 0..1 /\ 0 \in 0..MaxResends
  OBVIOUS
<1>2. StationTypeOK
  <2>1. /\ seq \in 0..Total /\ attempt \in 0..(MaxAttempts - 1) /\ owed \in 0..1
        /\ acked \in [Nonces -> 0..Total]
    BY <1>1
  <2>2. pc \in Stages /\ reason \in Reasons /\ chunksSent \in Nat
    BY DEF Stages, Reasons
  <2>3. stats \in Seq(0..StatAbort)
    OBVIOUS
  <2>4. /\ busy \in BOOLEAN /\ fast \in BOOLEAN /\ ann \in SUBSET Nonces
        /\ lastNonce \in SUBSET Nonces /\ recent \in BOOLEAN
        /\ recorded \in SUBSET (Nonces \X Outcomes)
    OBVIOUS
  <2>5. QED BY <2>1, <2>2, <2>3, <2>4 DEF StationTypeOK
<1>3. LinkTypeOK
  BY <1>1 DEF LinkTypeOK, DevStates
<1>4. StageInv
  BY DEF StageInv, StatsMarkTheFailure, Before, NoOffer, OnFanet
<1>5. AckInv /\ \A n \in Nonces : SensorInv(n)
  BY DEF AckInv, SensorInv, Installed
<1>6. QED BY <1>2, <1>3, <1>4, <1>5 DEF IInv, TypeOK

LEMMA StepIInv == ASSUME IInv, [Next]_vars PROVE IInv'
<1>1. CASE InAttempt
  <2>1. StationTypeOK' /\ StageInv' /\ LinkTypeOK' /\ AckInv'
    BY <1>1, StationStep, LinkTypeStep, AckStep
  <2>2. \A n \in Nonces : SensorInv(n)'
    BY <1>1, SensorStep
  <2>3. QED BY <2>1, <2>2 DEF IInv, TypeOK
<1>2. CASE DebounceOver
  BY <1>2, DebounceStep
<1>3. ASSUME NEW n \in Nonces,
             AnnouncementIgnored(n) \/ AnnouncementUnsupported(n) \/ AttemptStarts(n)
      PROVE  IInv'
  BY <1>3, AnnouncementStep
<1>4. ASSUME NEW n \in Nonces, DevHandles(n) \/ DevResends(n) \/ DevQuits(n) PROVE IInv'
  BY <1>4, DevInvStep
<1>5. CASE UNCHANGED vars
  BY <1>5 DEF vars, IInv, TypeOK, StationTypeOK, LinkTypeOK, StageInv, StatsMarkTheFailure,
              SensorInv, AckInv, Installed, local, debounce, ghosts, devVars
<1>6. QED BY <1>1, <1>2, <1>3, <1>4, <1>5 DEF Next

(* IInv is an invariant of the station and its sensors. *)
THEOREM Invariance == Spec => []IInv
BY InitIInv, StepIInv, PTL DEF Spec

(* Every variable keeps its type: a chunk is never sent more often than    *)
(* OTA_GS_CHUNK_MAX_ATTEMPTS, and no counter leaves the image.             *)
THEOREM TypeCorrect == Spec => []TypeOK
<1>1. IInv => TypeOK
  BY DEF IInv
<1>2. QED BY <1>1, Invariance, PTL

(* No chunk is counted as accepted that its sensor does not hold.          *)
THEOREM NoChunkSkipped == Spec => []AckedIsStored
<1>1. IInv => AckedIsStored
  BY DEF IInv, SensorInv, AckedIsStored
<1>2. QED BY <1>1, Invariance, PTL

(* "success" in the history means a sensor with a verified image.          *)
THEOREM SuccessIsTrue == Spec => []SuccessIsInstalled
<1>1. IInv => SuccessIsInstalled
  BY DEF IInv, SensorInv, SuccessIsInstalled, Installed
<1>2. QED BY <1>1, Invariance, PTL

(* The radio is back in FANET mode, and the station free, whatever way an  *)
(* attempt ended.                                                          *)
THEOREM RadioReturns == Spec => []RadioHome
<1>1. IInv => RadioHome
  BY DEF IInv, StageInv, OnFanet, RadioHome
<1>2. QED BY <1>1, Invariance, PTL

(* No offer of the backend ends without its one call of reportOtaResult.   *)
THEOREM OffersReported == Spec => []EveryOfferReported
<1>1. IInv => EveryOfferReported
  BY DEF IInv, StageInv, NoOffer, EveryOfferReported
<1>2. QED BY <1>1, Invariance, PTL

(* The abort mark of the statistics is the last entry of a failed transfer. *)
THEOREM StatsAreMarked == Spec => []StatsMarkTheFailure
<1>1. IInv => StatsMarkTheFailure
  BY DEF IInv, StageInv
<1>2. QED BY <1>1, Invariance, PTL

-----------------------------------------------------------------------------
(* The transfer implements the stop-and-wait link.                         *)

heldNow == [n \in Nonces |-> dev[n].own]

(* Storage moves only when a sensor takes the next chunk of its own image, *)
(* and only if it holds no more than the station counts.                   *)
LEMMA StoreIsDeliver ==
  ASSUME IInv, NEW n \in Nonces, DevHandles(n) \/ DevResends(n) \/ DevQuits(n)
  PROVE  Link!Deliver(n) \/ UNCHANGED <<heldNow, acked>>
<1>0. /\ DevKeeps(n) /\ DevEffect(n) /\ LinkTypeOK'
  BY DevLinkType, DevStep
<1>1. UNCHANGED acked /\ \A m \in Nonces \ {n} : dev'[m].own = dev[m].own
  BY <1>0 DEF DevKeeps, ghosts
<1>2. \/ dev'[n].own = dev[n].own
      \/ /\ dev'[n].own = dev[n].own + 1
         /\ dev[n].own = acked[n] /\ dev[n].own < Total
  <2>1. dev \in [Nonces -> [state : DevStates, next : 0..Total, own : 0..Total,
                            resends : 0..MaxResends, verdict : {"none", "good", "bad"}]]
        /\ acked[n] \in Nat /\ dev[n].own \in Nat /\ SensorInv(n)
    BY CountsAssumption DEF IInv, TypeOK, LinkTypeOK, StationTypeOK
  <2>2. CASE DevChunk(n)
    BY <2>1, <2>2 DEF DevChunk, SensorInv
  <2>3. CASE DevStart(n)
    BY <2>1, <2>3 DEF DevStart, SensorInv
  <2>4. CASE DevFinish(n) \/ DevOther(n) \/ DevResends(n) \/ DevQuits(n)
    BY <2>1, <2>4 DEF DevFinish, DevOther, DevResends, DevQuits
  <2>5. QED BY <2>2, <2>3, <2>4 DEF DevHandles
<1>3. CASE dev'[n].own = dev[n].own
  <2>1. \A m \in Nonces : dev'[m].own = dev[m].own
    BY <1>1, <1>3
  <2>2. QED BY <1>1, <2>1 DEF heldNow
<1>4. CASE dev'[n].own = dev[n].own + 1 /\ dev[n].own = acked[n] /\ dev[n].own < Total
  BY <1>1, <1>4 DEF Link!Deliver, heldNow
<1>5. QED BY <1>2, <1>3, <1>4

(* The station counts a chunk only when the sensor is one ahead of it.     *)
LEMMA CountIsConfirm ==
  ASSUME IInv, InAttempt
  PROVE  (\E n \in Nonces : Link!Confirm(n)) \/ UNCHANGED <<heldNow, acked>>
<1>1. UNCHANGED heldNow
  BY StorageKept DEF heldNow
<1>2. Counts
  BY StationEffect
<1>3. CASE UNCHANGED acked
  BY <1>1, <1>3
<1>4. ASSUME seq' = seq + 1,
             acked' = [n \in Nonces |-> IF n \in ann THEN seq + 1 ELSE acked[n]],
             \A n \in ann : seq + 1 <= dev[n].next
      PROVE  (\E n \in Nonces : Link!Confirm(n)) \/ UNCHANGED <<heldNow, acked>>
  <2>1. acked \in [Nonces -> 0..Total] /\ seq \in Nat /\ ann \in SUBSET Nonces
    BY CountsAssumption DEF IInv, TypeOK, StationTypeOK
  <2>2. CASE ann = {}
    BY <1>1, <1>4, <2>1, <2>2
  <2>3. ASSUME NEW n \in ann PROVE Link!Confirm(n)
    <3>1. /\ SensorInv(n) /\ (\A m \in ann : m = n) /\ dev[n].own \in Nat
      BY CountsAssumption, <2>1, <2>3 DEF IInv, StageInv, TypeOK, LinkTypeOK
    <3>2. acked[n] = seq /\ dev[n].own = acked[n] + 1
      BY <1>4, <2>1, <2>3, <3>1 DEF SensorInv
    <3>3. acked' = [acked EXCEPT ![n] = @ + 1]
      BY <1>4, <2>1, <2>3, <3>1, <3>2
    <3>4. QED BY <1>1, <2>1, <2>3, <3>2, <3>3 DEF Link!Confirm, heldNow
  <2>4. QED BY <2>1, <2>2, <2>3
<1>5. QED BY <1>2, <1>3, <1>4 DEF Counts

(* Every run of the station and its sensors is, for the chunks, a run of   *)
(* the abstract link.                                                      *)
THEOREM Implements == Spec => LinkSpec
<1>1. Init => Link!Init
  BY DEF Init, Link!Init
<1>2. ASSUME IInv, [Next]_vars PROVE [Link!Next]_(<<heldNow, acked>>)
  <2>1. CASE InAttempt
    BY <1>2, <2>1, CountIsConfirm DEF Link!Next
  <2>2. ASSUME NEW n \in Nonces, DevHandles(n) \/ DevResends(n) \/ DevQuits(n)
        PROVE  Link!Next \/ UNCHANGED <<heldNow, acked>>
    BY <1>2, <2>2, StoreIsDeliver DEF Link!Next
  <2>3. ASSUME NEW n \in Nonces,
               AnnouncementIgnored(n) \/ AnnouncementUnsupported(n) \/ AttemptStarts(n)
        PROVE  UNCHANGED <<heldNow, acked>>
    <3>1. dev' = [dev EXCEPT ![n].state = "window"] /\ UNCHANGED acked
      BY <2>3 DEF AnnouncementIgnored, AnnouncementUnsupported, AttemptStarts, Announces, ghosts
    <3>2. \A m \in Nonces : dev'[m].own = dev[m].own
      BY <1>2, <3>1 DEF IInv, TypeOK, LinkTypeOK
    <3>3. QED BY <3>1, <3>2 DEF heldNow
  <2>4. CASE DebounceOver \/ UNCHANGED vars
    BY <2>4 DEF DebounceOver, vars, ghosts, devVars, heldNow
  <2>5. QED BY <1>2, <2>1, <2>2, <2>3, <2>4 DEF Next
<1>3. heldNow = [n \in Nonces |-> dev[n].own]
  BY DEF heldNow
<1>4. QED BY <1>1, <1>2, <1>3, Invariance, PTL DEF Spec, LinkSpec, Link!Spec, heldNow

-----------------------------------------------------------------------------
(* The chunks get through.  What goes wrong, and what a sensor resends, is *)
(* only ever counted up.                                                   *)
Mishaps(n) == faults + dev[n].resends

LEMMA FaultsGrow == ASSUME IInv, [Next]_vars PROVE faults <= faults'
<1>0. faults \in Nat
  BY DEF IInv, TypeOK, LinkTypeOK
<1>1. CASE UNCHANGED vars
  BY <1>0, <1>1 DEF vars
<1>2. CASE DebounceOver
  BY <1>0, <1>2 DEF DebounceOver
<1>3. ASSUME NEW n \in Nonces,
             AnnouncementIgnored(n) \/ AnnouncementUnsupported(n) \/ AttemptStarts(n)
      PROVE  faults <= faults'
  BY <1>0, <1>3 DEF AnnouncementIgnored, AnnouncementUnsupported, AttemptStarts, Announces
<1>4. ASSUME NEW n \in Nonces, DevHandles(n) \/ DevResends(n) \/ DevQuits(n)
      PROVE  faults <= faults'
  BY <1>0, <1>4 DEF DevHandles, DevStart, DevChunk, DevFinish, DevOther, DevResends, DevQuits,
                    Answer, Fault
<1>5. CASE InAttempt
  <2> USE <1>0 DEF Fault
  <2>1. CASE NotifyAck \/ FanetAck
    <3>1. TxError("FANET_ACK") \/ SendFanetAck
      BY <2>1 DEF NotifyAck, FanetAck
    <3>2. QED BY <3>1 DEF SendFanetAck, TxError
  <2>2. CASE NotifyAbort \/ Abort
    BY <2>2 DEF NotifyAbort, Abort, AbortAndLeaveFast, Transmit
  <2>3. CASE SendStart \/ SendChunk \/ SendFinish
    <3>1. \/ Fault(<<"tx", "START">>) \/ TxError("CHUNK") \/ TxError("FINISH")
          \/ Transmit("START", 0) \/ Transmit("CHUNK", seq) \/ Transmit("FINISH", 0)
      BY <2>3 DEF SendStart, SendChunk, SendFinish, StartRefusedByRadio
    <3>2. QED BY <3>1 DEF Transmit, TxError
  <2>4. CASE StartTimeout \/ ChunkTimeout \/ FinishTimeout
    BY <2>4 DEF StartTimeout, ChunkTimeout, FinishTimeout, TimedOut
  <2>5. CASE ReadChunk
    BY <2>5 DEF ReadChunk
  <2>6. CASE \/ QueryFails \/ LeftToOtherStation \/ NoUpdate \/ QueryOffered \/ Obtain
             \/ StartAck \/ ForeignPacket \/ ChunkAck \/ PostStats \/ FinishAck \/ Report
    <3>1. UNCHANGED faults
      BY <2>6 DEF QueryFails, LeftToOtherStation, NoUpdate, QueryOffered, Obtain, StartAck,
                  ForeignPacket, ChunkAck, PostStats, FinishAck, Report
    <3>2. QED BY <3>1
  <2>7. QED BY <1>5, <2>1, <2>2, <2>3, <2>4, <2>5, <2>6 DEF InAttempt
<1>6. QED BY <1>1, <1>2, <1>3, <1>4, <1>5 DEF Next

LEMMA ResendsGrow ==
  ASSUME IInv, [Next]_vars, NEW m \in Nonces
  PROVE  dev[m].resends <= dev'[m].resends
<1>0. /\ dev[m].resends \in Nat
      /\ dev \in [Nonces -> [state : DevStates, next : 0..Total, own : 0..Total,
                             resends : 0..MaxResends, verdict : {"none", "good", "bad"}]]
  BY CountsAssumption DEF IInv, TypeOK, LinkTypeOK
<1>1. CASE UNCHANGED vars \/ DebounceOver
  BY <1>0, <1>1 DEF vars, DebounceOver, devVars
<1>2. ASSUME NEW n \in Nonces,
             AnnouncementIgnored(n) \/ AnnouncementUnsupported(n) \/ AttemptStarts(n)
      PROVE  dev'[m].resends = dev[m].resends
  BY <1>0, <1>2 DEF AnnouncementIgnored, AnnouncementUnsupported, AttemptStarts, Announces
<1>3. ASSUME NEW n \in Nonces, DevHandles(n) \/ DevQuits(n)
      PROVE  dev'[m].resends = dev[m].resends
  <2>1. CASE DevStart(n)
    BY <1>0, <2>1 DEF DevStart
  <2>2. CASE DevChunk(n)
    BY <1>0, <2>2 DEF DevChunk
  <2>3. CASE DevFinish(n)
    BY <1>0, <2>3 DEF DevFinish
  <2>4. CASE DevOther(n)
    BY <1>0, <2>4 DEF DevOther
  <2>5. CASE DevQuits(n)
    BY <1>0, <2>5 DEF DevQuits
  <2>6. QED BY <1>3, <2>1, <2>2, <2>3, <2>4, <2>5 DEF DevHandles
<1>4. ASSUME NEW n \in Nonces, DevResends(n)
      PROVE  dev'[m].resends \in {dev[m].resends, dev[m].resends + 1}
  BY <1>0, <1>4 DEF DevResends
<1>5. CASE InAttempt
  <2>1. dev'[m].resends = dev[m].resends
    BY <1>0, <1>5, LinkEffect DEF Quiet, Hands, Sends, SendFanetAck, Transmit, devVars
  <2>2. QED BY <1>0, <2>1
<1>6. QED BY <1>0, <1>1, <1>2, <1>3, <1>4, <1>5 DEF Next

LEMMA MishapsGrow ==
  ASSUME IInv, [Next]_vars, NEW n \in Nonces
  PROVE  Mishaps(n) \in Nat /\ Mishaps(n)' \in Nat /\ Mishaps(n) <= Mishaps(n)'
<1>1. faults \in Nat /\ dev[n].resends \in Nat
  BY CountsAssumption DEF IInv, TypeOK, LinkTypeOK
<1>2. faults' \in Nat /\ dev'[n].resends \in Nat
  BY StepIInv, CountsAssumption DEF IInv, TypeOK, LinkTypeOK
<1>3. faults <= faults' /\ dev[n].resends <= dev'[n].resends
  BY FaultsGrow, ResendsGrow
<1>4. QED BY <1>1, <1>2, <1>3 DEF Mishaps

(* A sensor that has acknowledged with RX has been in the transfer, and so *)
(* has the one that gets chunks, which gets nothing else.                  *)
Chunks == {"read", "chunk", "chunkWait"}
Begun == {"RX", "READY", "idle"}

TransferInv ==
  /\ pc \in {"start", "startWait"} \cup Chunks => fast
  /\ \A a \in rx : a.status = "RX" => dev[a.from].state \in Begun
  /\ pc \in Chunks => \A n \in ann : dev[n].state \in Begun
  /\ pc \in Before \cup Chunks => \A n \in ann : \A p \in inbox[n] : p.op \in {"START", "CHUNK"}

(* Where the station can be at the end of a step that leads to a chunk.    *)
LEMMA TransferSteps ==
  ASSUME IInv, InAttempt, pc' \in Before \cup Chunks
  PROVE  /\ pc \in Before \cup Chunks /\ ann' = ann
         /\ \A n \in ann : \A p \in inbox'[n] : p \in inbox[n] \/ p.op \in {"START", "CHUNK"}
         /\ pc' \in Chunks => pc \in Chunks \/ \E a \in rx : a.from \in ann /\ a.status = "RX"
         /\ pc' \in {"start", "startWait"} \cup Chunks =>
              fast' = TRUE \/ (fast' = fast /\ pc \in {"start", "startWait"} \cup Chunks)
<1> USE DEF Before, Chunks
<1>1. \A op \in {"START", "CHUNK"}, k \in 0..Total : Transmit(op, k) =>
        \A n \in ann : \A p \in inbox'[n] : p \in inbox[n] \/ p.op \in {"START", "CHUNK"}
  BY DEF Transmit, IInv, TypeOK, StationTypeOK
<1>2. 0 \in 0..Total /\ seq \in 0..Total
  BY CountsAssumption DEF IInv, TypeOK, StationTypeOK
<1>3. CASE QueryFails \/ LeftToOtherStation \/ NoUpdate \/ NotifyAck \/ NotifyAbort \/ Report
  BY <1>3 DEF QueryFails, LeftToOtherStation, NoUpdate, NotifyAck, NotifyAbort, Report, Return
<1>4. CASE QueryOffered \/ Obtain
  BY <1>4 DEF QueryOffered, Obtain, EndsWith, devVars
<1>5. CASE FanetAck
  <2>1. /\ SendFanetAck /\ fast' = TRUE /\ pc' = "start" /\ UNCHANGED ann /\ pc = "fanetAck"
    BY <1>5 DEF FanetAck, EndsWith, ApplyRadioMode
  <2>2. UNCHANGED inbox
    BY <2>1 DEF SendFanetAck
  <2>3. QED BY <2>1, <2>2
<1>6. CASE SendStart
  <2>1. pc' = "startWait" /\ Transmit("START", 0) /\ UNCHANGED <<fast, ann>> /\ pc = "start"
    BY <1>6 DEF SendStart, StartRefusedByRadio, EndsWith
  <2>2. QED BY <1>1, <1>2, <2>1
<1>7. CASE StartAck
  BY <1>7 DEF StartAck, AbortsWith, Ours, devVars
<1>8. CASE ForeignPacket
  BY <1>8 DEF ForeignPacket, devVars
<1>9. CASE ReadChunk
  BY <1>9 DEF ReadChunk, devVars
<1>10. CASE SendChunk
  <2>1. /\ TxError("CHUNK") \/ Transmit("CHUNK", seq)
        /\ UNCHANGED <<fast, ann>> /\ pc = "chunk"
    BY <1>10 DEF SendChunk
  <2>2. QED BY <1>1, <1>2, <2>1 DEF TxError, devVars
<1>11. CASE ChunkAck \/ ChunkTimeout
  <2>1. pc = "chunkWait" /\ UNCHANGED <<fast, ann, devVars>>
    BY <1>11 DEF ChunkAck, ChunkTimeout
  <2>2. QED BY <2>1 DEF devVars
<1>12. CASE StartTimeout \/ PostStats \/ SendFinish \/ FinishAck \/ FinishTimeout \/ Abort
  BY <1>12 DEF StartTimeout, PostStats, SendFinish, FinishAck, FinishTimeout, Abort, AbortsWith,
               EndsWith
<1>13. QED
  BY <1>3, <1>4, <1>5, <1>6, <1>7, <1>8, <1>9, <1>10, <1>11, <1>12 DEF InAttempt

LEMMA TransferStation == ASSUME IInv, TransferInv, InAttempt PROVE TransferInv'
<1>1. rx' \subseteq rx
  BY LinkEffect DEF Quiet, Hands, Sends, Transmit
<1>2. \A n \in Nonces : dev[n].state \in Begun => dev'[n].state \in Begun
  BY StorageKept DEF Begun
<1>3. (\A a \in rx : a.from \in Nonces) /\ ann \in SUBSET Nonces
  BY DEF IInv, TypeOK, StationTypeOK, LinkTypeOK, Acks
<1>4. \A a \in rx' : a.status = "RX" => dev'[a.from].state \in Begun
  BY <1>1, <1>2, <1>3 DEF TransferInv
<1>5. CASE pc' \in Before \cup Chunks
  <2>1. pc' \in {"start", "startWait"} \cup Chunks => fast'
    BY <1>5, TransferSteps DEF TransferInv
  <2>2. pc' \in Chunks => \A n \in ann' : dev'[n].state \in Begun
    <3>1. SUFFICES ASSUME pc' \in Chunks, NEW n \in ann PROVE dev'[n].state \in Begun
      BY <1>5, TransferSteps
    <3>2. CASE pc \in Chunks
      BY <1>2, <1>3, <3>2 DEF TransferInv
    <3>3. CASE \E a \in rx : a.from \in ann /\ a.status = "RX"
      <4>1. PICK a \in rx : a.from \in ann /\ a.status = "RX"
        BY <3>3
      <4>2. a.from = n
        BY <4>1 DEF IInv, StageInv
      <4>3. QED BY <1>2, <1>3, <4>1, <4>2 DEF TransferInv
    <3>4. QED BY <1>5, <3>1, <3>2, <3>3, TransferSteps
  <2>3. \A n \in ann' : \A p \in inbox'[n] : p.op \in {"START", "CHUNK"}
    BY <1>5, TransferSteps DEF TransferInv
  <2>4. QED BY <1>4, <2>1, <2>2, <2>3 DEF TransferInv
<1>6. CASE pc' \notin Before \cup Chunks
  BY <1>4, <1>6 DEF TransferInv, Before, Chunks
<1>7. QED BY <1>5, <1>6

LEMMA TransferStep == ASSUME IInv, TransferInv, [Next]_vars PROVE TransferInv'
<1>0. /\ (\A a \in rx : a.from \in Nonces) /\ ann \in SUBSET Nonces
      /\ dev \in [Nonces -> [state : DevStates, next : 0..Total, own : 0..Total,
                             resends : 0..MaxResends, verdict : {"none", "good", "bad"}]]
      /\ inbox \in [Nonces -> SUBSET Packets]
  BY DEF IInv, TypeOK, StationTypeOK, LinkTypeOK, Acks
<1>1. CASE UNCHANGED vars \/ DebounceOver
  BY <1>1 DEF vars, DebounceOver, devVars, TransferInv
<1>2. ASSUME NEW n \in Nonces,
             AnnouncementIgnored(n) \/ AnnouncementUnsupported(n) \/ AttemptStarts(n)
      PROVE  TransferInv'
  <2>1. /\ pc = "listen" /\ dev[n].state \in {"off", "window"} /\ UNCHANGED <<inbox, rx>>
        /\ dev' = [dev EXCEPT ![n].state = "window"]
        /\ pc' = "listen" \/ (pc' = "query" /\ ann' = {n})
    BY <1>2 DEF AnnouncementIgnored, AnnouncementUnsupported, AttemptStarts, Announces
  <2>2. inbox[n] = {}
    BY <2>1 DEF IInv, SensorInv
  <2>3. \A m \in Nonces : dev[m].state \in Begun => dev'[m].state \in Begun
    BY <1>0, <2>1 DEF Begun
  <2>4. QED BY <1>0, <2>1, <2>2, <2>3 DEF TransferInv, Before, Chunks
<1>3. ASSUME NEW n \in Nonces, DevHandles(n) \/ DevResends(n) \/ DevQuits(n)
      PROVE  TransferInv'
  <2>1. DevKeeps(n)
    BY <1>3, DevLinkType
  <2>2. /\ dev[n].state \in Begun => dev'[n].state \in Begun
        /\ inbox'[n] \subseteq inbox[n]
        /\ \A a \in rx' \ rx : a.from = n /\ (a.status = "RX" => dev'[n].state \in Begun)
    <3> USE DEF Begun, Handles, Answer, Heard
    <3>1. CASE DevStart(n)
      BY <1>0, <3>1 DEF DevStart
    <3>2. CASE DevChunk(n)
      BY <1>0, <3>2 DEF DevChunk
    <3>3. CASE DevFinish(n)
      BY <1>0, <3>3 DEF DevFinish
    <3>4. CASE DevOther(n)
      BY <1>0, <3>4 DEF DevOther
    <3>5. CASE DevResends(n)
      BY <1>0, <3>5 DEF DevResends
    <3>6. CASE DevQuits(n)
      BY <1>0, <3>6 DEF DevQuits
    <3>7. QED BY <1>3, <3>1, <3>2, <3>3, <3>4, <3>5, <3>6 DEF DevHandles
  <2>3. \A m \in Nonces : /\ dev[m].state \in Begun => dev'[m].state \in Begun
                          /\ inbox'[m] \subseteq inbox[m]
    BY <2>1, <2>2 DEF DevKeeps
  <2>4. QED BY <1>0, <2>1, <2>2, <2>3 DEF DevKeeps, TransferInv
<1>4. CASE InAttempt
  BY <1>4, TransferStation
<1>5. QED BY <1>1, <1>2, <1>3, <1>4 DEF Next

LEMMA TransferInvariance == Spec => []TransferInv
<1>1. Init => TransferInv
  BY DEF Init, TransferInv, Before, Chunks
<1>2. IInv /\ TransferInv /\ [Next]_vars => TransferInv'
  BY TransferStep
<1>3. QED BY <1>1, <1>2, Invariance, PTL DEF Spec

(* The transfer to n is under way, with no more attempts made at the chunk *)
(* in hand than things went wrong beyond b; the one under way does not     *)
(* count where the answer that n gives, or has given, accepts the chunk.   *)
Transferring(n) == pc \in Chunks /\ ann = {n}

Answered(n) ==
  \/ rx = {} /\ inbox[n] # {} /\ \A p \in inbox[n] : p.op = "CHUNK" /\ p.seq = seq
  \/ rx # {} /\ \A a \in rx : a.next >= seq + 1

Within(n, b) ==
  /\ Transferring(n) /\ Listeners = {n} /\ dev[n].state = "RX"
  /\ pc = "read" => b <= Mishaps(n)
  /\ pc = "chunk" => attempt + b <= Mishaps(n)
  /\ pc = "chunkWait" =>
       /\ \A a \in rx : a.from = n /\ a.status = "RX"
       /\ attempt + b + 1 <= Mishaps(n) \/ (attempt + b <= Mishaps(n) /\ Answered(n))

Budget(n, b) == Within(n, b) \/ acked[n] = Total \/ Mishaps(n) >= b + MaxAttempts

(* Nobody is late or gives up, no image goes bad, no sensor refuses.       *)
OnlyLosses ==
  /\ <<"late">> \notin FaultKinds /\ <<"quit">> \notin FaultKinds
  /\ <<"read">> \notin FaultKinds /\ <<"refuse", "CHUNK">> \notin FaultKinds

(* An attempt that something had gone wrong for.                           *)
LEMMA AttemptPaid ==
  ASSUME IInv, [Next]_vars, NEW n \in Nonces, NEW b \in Nat, NextAttempt, Transferring(n),
         attempt + b + 1 <= Mishaps(n)', UNCHANGED ann, Listeners' = {n}, dev'[n].state = "RX"
  PROVE  Budget(n, b)'
<1>0. /\ attempt \in 0..(MaxAttempts - 1) /\ MaxAttempts \in Nat /\ attempt \in Nat
      /\ Mishaps(n)' \in Nat
  BY CountsAssumption, MishapsGrow DEF IInv, TypeOK, StationTypeOK
<1>1. CASE LastAttempt
  <2>1. Mishaps(n)' >= b + MaxAttempts
    BY <1>0, <1>1 DEF LastAttempt
  <2>2. QED BY <2>1 DEF Budget
<1>2. CASE ~LastAttempt
  <2>1. attempt' = attempt + 1 /\ pc' = "chunk"
    BY <1>2 DEF NextAttempt
  <2>2. attempt' + b <= Mishaps(n)'
    BY <1>0, <2>1
  <2>3. QED BY <2>1, <2>2 DEF Budget, Within, Transferring, Chunks
<1>3. QED BY <1>1, <1>2

LEMMA WithinStation ==
  ASSUME IInv, [Next]_vars, InAttempt, OnlyLosses, NEW n \in Nonces, NEW b \in Nat, Within(n, b)
  PROVE  Budget(n, b)'
<1>0. /\ Mishaps(n) \in Nat /\ Mishaps(n)' \in Nat /\ Mishaps(n) <= Mishaps(n)'
      /\ attempt \in Nat /\ seq \in Nat /\ Total \in Nat /\ seq < Total
      /\ SeqMod \in Nat /\ Total < SeqMod
      /\ faults \in Nat /\ dev[n].resends \in Nat
      /\ \A a \in rx : a.next \in Nat
      /\ inbox \in [Nonces -> SUBSET Packets] /\ acked \in [Nonces -> 0..Total]
  <2>1. Mishaps(n) \in Nat /\ Mishaps(n)' \in Nat /\ Mishaps(n) <= Mishaps(n)'
    BY MishapsGrow
  <2>2. /\ attempt \in Nat /\ seq \in Nat /\ Total \in Nat /\ SeqMod \in Nat
        /\ Total < SeqMod /\ acked \in [Nonces -> 0..Total]
    BY CountsAssumption DEF IInv, TypeOK, StationTypeOK
  <2>3. /\ faults \in Nat /\ dev[n].resends \in Nat /\ (\A a \in rx : a.next \in Nat)
        /\ inbox \in [Nonces -> SUBSET Packets]
    BY CountsAssumption DEF IInv, TypeOK, LinkTypeOK, Acks
  <2>4. seq < Total
    BY DEF IInv, StageInv, Within, Transferring, Chunks
  <2>5. QED BY <2>1, <2>2, <2>3, <2>4
<1>1. ReadChunk \/ SendChunk \/ ChunkAck \/ ChunkTimeout
  <2>1. ~ForeignPacket
    BY DEF ForeignPacket, Ours, Within, Transferring, Chunks
  <2>2. pc \in Chunks
    BY DEF Within, Transferring
  <2>3. QED
    BY <2>1, <2>2 DEF InAttempt, Chunks, QueryFails, LeftToOtherStation, NoUpdate, NotifyAck,
       NotifyAbort, QueryOffered, Obtain, FanetAck, SendStart, StartAck, StartTimeout, PostStats,
       SendFinish, FinishAck, FinishTimeout, Abort, Report
<1>2. CASE ReadChunk
  <2>1. pc = "read" /\ pc' = "chunk" /\ attempt' = 0 /\ UNCHANGED <<ann, dev>>
    BY <1>2 DEF ReadChunk, Fault, OnlyLosses, devVars
  <2>2. attempt' + b <= Mishaps(n)'
    BY <1>0, <2>1 DEF Within
  <2>3. Within(n, b)'
    BY <2>1, <2>2 DEF Within, Transferring, Listeners, Chunks
  <2>4. QED BY <2>3 DEF Budget
<1>3. CASE SendChunk
  <2>1. pc = "chunk" /\ UNCHANGED <<ann, dev>> /\ attempt + b <= Mishaps(n)
    BY <1>3 DEF SendChunk, TxError, Transmit, devVars, Within
  <2>2. Listeners' = {n} /\ dev'[n].state = "RX"
    BY <2>1 DEF Listeners, Within
  <2>3. CASE TxError("CHUNK") /\ NextAttempt
    <3>1. attempt + b + 1 <= Mishaps(n)'
      BY <1>0, <2>1, <2>3 DEF TxError, Fault, Mishaps
    <3>2. QED BY <2>1, <2>2, <2>3, <3>1, AttemptPaid DEF Within
  <2>4. CASE Transmit("CHUNK", seq) /\ pc' = "chunkWait" /\ UNCHANGED <<attempt, seq>>
    <3>1. PICK heard \in SUBSET Listeners :
            /\ inbox' = [m \in Nonces |-> IF m \in heard
                           THEN {[op |-> "CHUNK", of |-> o, seq |-> seq] : o \in ann}
                           ELSE inbox[m]]
            /\ IF Listeners \cap ann \subseteq heard THEN UNCHANGED faults
               ELSE Fault(<<"lose", "CHUNK">>)
      BY <2>4 DEF Transmit
    <3>2. rx' = {}
      BY <2>4 DEF Transmit
    <3>3. CASE n \in heard
      <4>1. inbox'[n] = {[op |-> "CHUNK", of |-> n, seq |-> seq]}
        BY <3>1, <3>3 DEF Within, Transferring
      <4>2. Answered(n)'
        BY <2>4, <3>2, <4>1 DEF Answered
      <4>3. attempt' + b <= Mishaps(n)'
        BY <1>0, <2>1, <2>4
      <4>4. Within(n, b)'
        BY <2>1, <2>2, <2>4, <3>2, <4>2, <4>3 DEF Within, Transferring, Chunks
      <4>5. QED BY <4>4 DEF Budget
    <3>4. CASE n \notin heard
      <4>1. faults' = faults + 1
        BY <3>1, <3>4 DEF Fault, Within, Transferring
      <4>2. attempt' + b + 1 <= Mishaps(n)'
        BY <1>0, <2>1, <2>4, <4>1 DEF Mishaps
      <4>3. Within(n, b)'
        BY <2>1, <2>2, <2>4, <3>2, <4>2 DEF Within, Transferring, Chunks
      <4>4. QED BY <4>3 DEF Budget
    <3>5. QED BY <3>3, <3>4
  <2>5. QED BY <1>3, <2>3, <2>4 DEF SendChunk
<1>4. CASE ChunkAck
  <2>1. PICK a \in rx : \/ Accepts(a) /\ ChunkAccepted
                        \/ a.status = "ERR_SIZE" /\ ChunkFails
                        \/ ~Accepts(a) /\ a.status # "ERR_SIZE" /\ NextAttempt
    BY <1>4 DEF ChunkAck
  <2>2. /\ pc = "chunkWait" /\ rx' = {} /\ UNCHANGED <<ann, dev>> /\ a.status = "RX"
        /\ attempt + b + 1 <= Mishaps(n) \/ (attempt + b <= Mishaps(n) /\ Answered(n))
    BY <1>4 DEF ChunkAck, devVars, Within
  <2>3. Listeners' = {n} /\ dev'[n].state = "RX"
    BY <2>2 DEF Listeners, Within
  <2>4. (seq + 1) % SeqMod = seq + 1
    <3>1. seq + 1 \in Nat /\ seq + 1 < SeqMod
      BY <1>0
    <3>2. QED BY <1>0, <3>1, SmallMod
  <2>5. CASE ChunkAccepted /\ seq + 1 < Total
    <3>1. pc' = "read" /\ b <= Mishaps(n)'
      BY <1>0, <2>2, <2>5 DEF ChunkAccepted
    <3>2. Within(n, b)'
      BY <2>2, <2>3, <3>1 DEF Within, Transferring, Chunks
    <3>3. QED BY <3>2 DEF Budget
  <2>6. CASE ChunkAccepted /\ ~(seq + 1 < Total)
    <3>1. acked'[n] = Total
      BY <1>0, <2>6 DEF ChunkAccepted, Within, Transferring
    <3>2. QED BY <3>1 DEF Budget
  <2>7. CASE ~Accepts(a) /\ NextAttempt
    <3>1. ~Answered(n)
      BY <1>0, <2>2, <2>4, <2>7 DEF Answered, Accepts
    <3>2. attempt + b + 1 <= Mishaps(n)'
      BY <1>0, <2>2, <3>1
    <3>3. QED BY <2>2, <2>3, <2>7, <3>2, AttemptPaid DEF Within
  <2>8. QED BY <2>1, <2>2, <2>5, <2>6, <2>7
<1>5. CASE ChunkTimeout
  <2>1. /\ pc = "chunkWait" /\ rx = {} /\ NextAttempt /\ UNCHANGED <<ann, dev>> /\ inbox[n] = {}
    BY <1>5 DEF ChunkTimeout, TimedOut, Fault, OnlyLosses, devVars, Within, Transferring
  <2>2. ~Answered(n)
    BY <2>1 DEF Answered
  <2>3. attempt + b + 1 <= Mishaps(n)'
    BY <1>0, <2>1, <2>2 DEF Within
  <2>4. Listeners' = {n} /\ dev'[n].state = "RX"
    BY <2>1 DEF Listeners, Within
  <2>5. QED BY <2>1, <2>3, <2>4, AttemptPaid DEF Within
<1>6. QED BY <1>1, <1>2, <1>3, <1>4, <1>5

(* The sensor served answers a chunk it wants or already has; no other one *)
(* is in the transfer.                                                     *)
LEMMA WithinSensors ==
  ASSUME IInv, TransferInv, [Next]_vars, OnlyLosses,
         NEW n \in Nonces, NEW b \in Nat, Within(n, b),
         NEW m \in Nonces, DevHandles(m) \/ DevResends(m) \/ DevQuits(m)
  PROVE  Within(n, b)'
<1>0. /\ Mishaps(n) \in Nat /\ Mishaps(n)' \in Nat /\ Mishaps(n) <= Mishaps(n)'
      /\ attempt \in Nat /\ seq \in Nat /\ faults \in Nat
  <2>1. Mishaps(n) \in Nat /\ Mishaps(n)' \in Nat /\ Mishaps(n) <= Mishaps(n)'
    BY MishapsGrow
  <2>2. attempt \in Nat /\ seq \in Nat /\ faults \in Nat
    BY CountsAssumption DEF IInv, TypeOK, StationTypeOK, LinkTypeOK
  <2>3. QED BY <2>1, <2>2
<1>t. /\ dev \in [Nonces -> [state : DevStates, next : 0..Total, own : 0..Total,
                             resends : 0..MaxResends, verdict : {"none", "good", "bad"}]]
      /\ inbox \in [Nonces -> SUBSET Packets] /\ rx \in SUBSET Acks
  BY DEF IInv, TypeOK, LinkTypeOK
<1>k. UNCHANGED <<pc, ann, fast, attempt, seq>> /\ \A l \in Nonces \ {m} : dev'[l] = dev[l]
  BY DevLinkType DEF DevKeeps, local
<1>q. ~DevQuits(m)
  BY DEF DevQuits, Fault, OnlyLosses
<1>1. CASE m # n
  <2>1. dev[m].state \notin {"fast", "RX"}
    BY <1>1 DEF Within, Listeners
  <2>2. DevOther(m)
    BY <1>q, <2>1 DEF DevHandles, DevStart, DevChunk, DevFinish, DevResends
  <2>3. /\ UNCHANGED <<dev, rx, faults>> /\ inbox'[n] = inbox[n]
    BY <1>1, <1>t, <2>1, <2>2 DEF DevOther, Handles
  <2>4. QED
    BY <1>k, <2>3 DEF Within, Transferring, Listeners, Answered, Mishaps
<1>2. CASE m = n
  <2>0. /\ dev[n].state = "RX" /\ fast = TRUE /\ SensorInv(n) /\ ann = {n} /\ pc \in Chunks
        /\ \A p \in inbox[n] : p.op \in {"START", "CHUNK"}
        /\ dev[n].next \in Nat /\ Total \in Nat /\ acked[n] \in Nat /\ dev[n].resends \in Nat
        /\ \A a \in rx : a.next \in Nat
        /\ \A p \in inbox[n] : p.seq \in Nat
    <3>1. dev[n].state = "RX" /\ ann = {n} /\ pc \in Chunks
      BY DEF Within, Transferring
    <3>2. fast = TRUE /\ \A p \in inbox[n] : p.op \in {"START", "CHUNK"}
      BY <3>1 DEF TransferInv, IInv, TypeOK, StationTypeOK
    <3>3. SensorInv(n) /\ acked[n] \in Nat /\ Total \in Nat
      BY CountsAssumption DEF IInv, TypeOK, StationTypeOK
    <3>4. /\ dev[n].next \in Nat /\ dev[n].resends \in Nat /\ (\A a \in rx : a.next \in Nat)
          /\ \A p \in inbox[n] : p.seq \in Nat
      BY <1>t, CountsAssumption DEF Acks, Packets
    <3>5. QED BY <3>1, <3>2, <3>3, <3>4
  <2>1. /\ seq <= dev[n].next /\ dev[n].next <= seq + 1
        /\ rx # {} /\ (\A a \in rx : a.from = n /\ a.status = "RX" /\ a.next >= seq + 1)
             => dev[n].next = seq + 1
    <3>1. seq <= dev[n].next /\ dev[n].next <= seq + 1
      BY <1>0, <2>0 DEF SensorInv
    <3>2. \A a \in rx : a.from = n /\ a.status = "RX" => a.next <= dev[n].next
      BY DEF IInv, AckInv
    <3>3. QED BY <1>0, <2>0, <3>1, <3>2
  <2>2. CASE DevResends(n)
    <3>1. /\ dev'[n].resends = dev[n].resends + 1 /\ dev'[n].state = "RX"
          /\ rx' = {[from |-> n, next |-> dev[n].next, status |-> "RX"]} /\ UNCHANGED faults
      BY <1>t, <2>0, <2>2 DEF DevResends, Heard
    <3>2. Listeners' = {n}
      BY <1>2, <1>k, <3>1 DEF Within, Listeners
    <3>3. Mishaps(n)' = Mishaps(n) + 1
      BY <1>0, <2>0, <3>1 DEF Mishaps
    <3>4. /\ pc = "read" => b <= Mishaps(n)'
          /\ pc = "chunk" => attempt + b <= Mishaps(n)'
          /\ pc = "chunkWait" => attempt + b + 1 <= Mishaps(n)'
      BY <1>0, <3>3 DEF Within
    <3>5. QED BY <1>k, <2>0, <3>1, <3>2, <3>4 DEF Within, Transferring
  <2>3. CASE DevOther(n)
    <3>1. \E p \in inbox[n] : p.op = "START"
      BY <2>0, <2>3 DEF DevOther
    <3>2. rx' = rx /\ UNCHANGED <<dev, faults>>
      BY <2>0, <2>3 DEF DevOther
    <3>3. Answered(n) => Answered(n)'
      BY <1>k, <3>1, <3>2 DEF Answered
    <3>4. QED BY <1>k, <3>2, <3>3 DEF Within, Transferring, Listeners, Mishaps
  <2>4. CASE DevChunk(n)
    <3>1. PICK p \in inbox[n] :
            \/ /\ p.seq = dev[n].next
               /\ dev' = [dev EXCEPT ![n].next = @ + 1,
                                     ![n].own = IF p.of = n /\ @ = p.seq THEN @ + 1 ELSE @]
               /\ Answer(n, "CHUNK", p.seq + 1, "RX")
            \/ /\ p.seq # dev[n].next
               /\ UNCHANGED dev
               /\ Answer(n, "CHUNK", dev[n].next, "RX")
      BY <2>4 DEF DevChunk, Fault, OnlyLosses
    <3>2. dev'[n].state = "RX" /\ dev'[n].resends = dev[n].resends
      BY <1>t, <2>0, <3>1
    <3>3. Listeners' = {n}
      BY <1>2, <1>k, <3>2 DEF Within, Listeners
    <3>4. PICK next \in Nat :
            /\ next = IF p.seq = dev[n].next THEN p.seq + 1 ELSE dev[n].next
            /\ Answer(n, "CHUNK", next, "RX")
      BY <2>0, <3>1
    <3>5. CASE faults' = faults + 1 /\ rx' = rx
      <4>1. Mishaps(n)' = Mishaps(n) + 1
        BY <1>0, <2>0, <3>2, <3>5 DEF Mishaps
      <4>2. /\ pc = "read" => b <= Mishaps(n)'
            /\ pc = "chunk" => attempt + b <= Mishaps(n)'
            /\ pc = "chunkWait" => attempt + b + 1 <= Mishaps(n)'
        BY <1>0, <4>1 DEF Within
      <4>3. QED BY <1>k, <2>0, <3>2, <3>3, <3>5, <4>2 DEF Within, Transferring
    <3>6. CASE faults' = faults /\ rx' = {[from |-> n, next |-> next, status |-> "RX"]}
      <4>1. Mishaps(n)' = Mishaps(n)
        BY <3>2, <3>6 DEF Mishaps
      <4>2. pc = "chunkWait" /\ Answered(n) => Answered(n)'
        <5>1. SUFFICES ASSUME pc = "chunkWait", Answered(n) PROVE next >= seq + 1
          BY <1>k, <3>6 DEF Answered
        <5>2. CASE \A q \in inbox[n] : q.seq = seq
          BY <1>0, <2>0, <2>1, <3>4, <5>2
        <5>3. CASE rx # {} /\ \A a \in rx : a.next >= seq + 1
          <6>1. dev[n].next = seq + 1
            BY <2>1, <5>1, <5>3 DEF Within
          <6>2. QED BY <1>0, <2>0, <3>4, <6>1
        <5>4. QED BY <5>1, <5>2, <5>3 DEF Answered
      <4>3. QED BY <1>k, <2>0, <3>2, <3>3, <3>6, <4>1, <4>2 DEF Within, Transferring
    <3>7. QED BY <2>0, <3>4, <3>5, <3>6 DEF Answer, Heard, Fault
  <2>5. QED
    BY <1>2, <1>q, <2>0, <2>2, <2>3, <2>4 DEF DevHandles, DevStart, DevFinish
<1>3. QED BY <1>1, <1>2

LEMMA BudgetStep ==
  ASSUME IInv, TransferInv, [Next]_vars, OnlyLosses, NEW n \in Nonces, NEW b \in Nat, Budget(n, b)
  PROVE  Budget(n, b)'
<1>1. CASE Mishaps(n) >= b + MaxAttempts
  <2>1. Mishaps(n)' >= b + MaxAttempts
    BY <1>1, MishapsGrow, CountsAssumption
  <2>2. QED BY <2>1 DEF Budget
<1>2. CASE acked[n] = Total
  <2>1. acked'[n] = Total
    <3>1. CASE InAttempt
      <4>1. /\ dev[n].next \in 0..Total /\ seq \in Nat /\ Total \in Nat
            /\ acked \in [Nonces -> 0..Total]
        BY CountsAssumption DEF IInv, TypeOK, StationTypeOK, LinkTypeOK
      <4>2. n \in ann => seq = Total
        BY <1>2 DEF IInv, SensorInv
      <4>3. Counts
        BY <3>1, StationEffect
      <4>4. QED BY <1>2, <4>1, <4>2, <4>3 DEF Counts
    <3>2. CASE UNCHANGED vars \/ DebounceOver
      BY <1>2, <3>2 DEF vars, DebounceOver, ghosts
    <3>3. ASSUME NEW m \in Nonces,
                 AnnouncementIgnored(m) \/ AnnouncementUnsupported(m) \/ AttemptStarts(m)
          PROVE  acked' = acked
      BY <3>3 DEF AnnouncementIgnored, AnnouncementUnsupported, AttemptStarts, Announces, ghosts
    <3>4. ASSUME NEW m \in Nonces, DevHandles(m) \/ DevResends(m) \/ DevQuits(m)
          PROVE  acked' = acked
      BY <3>4, DevLinkType DEF DevKeeps, ghosts
    <3>5. QED BY <1>2, <3>1, <3>2, <3>3, <3>4 DEF Next
  <2>2. QED BY <2>1 DEF Budget
<1>3. CASE Within(n, b)
  <2>1. CASE InAttempt
    BY <1>3, <2>1, WithinStation
  <2>2. CASE UNCHANGED vars \/ DebounceOver
    <3>1. UNCHANGED <<pc, ann, attempt, seq, dev, inbox, rx, faults>>
      BY <2>2 DEF vars, DebounceOver, local, devVars
    <3>2. Within(n, b)'
      BY <1>3, <3>1 DEF Within, Transferring, Listeners, Answered, Mishaps
    <3>3. QED BY <3>2 DEF Budget
  <2>3. ASSUME NEW m \in Nonces PROVE ~Announces(m)
    BY <1>3 DEF Announces, Within, Transferring, Chunks
  <2>4. ASSUME NEW m \in Nonces, DevHandles(m) \/ DevResends(m) \/ DevQuits(m)
        PROVE  Budget(n, b)'
    BY <1>3, <2>4, WithinSensors DEF Budget
  <2>5. QED
    BY <2>1, <2>2, <2>3, <2>4 DEF Next, AnnouncementIgnored, AnnouncementUnsupported, AttemptStarts
<1>4. QED BY <1>1, <1>2, <1>3 DEF Budget

(* From the moment a transfer starts (streamFirmware) with no other sensor *)
(* in one, where only packets are lost and transmissions refused, the      *)
(* station does not give it up before losses and unasked acknowledgements  *)
(* together have been as many as OTA_GS_CHUNK_MAX_ATTEMPTS: until then it  *)
(* is sending chunks, or all of them have been accepted.  This is the part *)
(* of LossTolerated that says what may not happen.                         *)
THEOREM NotGivenUp ==
  ASSUME OnlyLosses, NEW n \in Nonces, NEW b \in Nat
  PROVE  Spec => [](/\ pc = "read" /\ ann = {n} /\ seq = 0 /\ Listeners = {n}
                    /\ Mishaps(n) = b
                    => [](Mishaps(n) < b + MaxAttempts => Transferring(n) \/ acked[n] = Total))
<1> DEFINE Starts == /\ pc = "read" /\ ann = {n} /\ seq = 0 /\ Listeners = {n}
                     /\ Mishaps(n) = b
           Goes == Mishaps(n) < b + MaxAttempts => Transferring(n) \/ acked[n] = Total
<1>1. IInv /\ TransferInv /\ Starts => Budget(n, b)
  <2>1. SUFFICES ASSUME IInv, TransferInv, Starts PROVE Within(n, b)
    BY DEF Budget
  <2>2. dev[n].state \in Begun /\ dev[n].state \in {"fast", "RX"}
    BY <2>1 DEF TransferInv, Chunks, Listeners
  <2>3. QED BY <2>1, <2>2 DEF Within, Transferring, Chunks, Begun
<1>2. IInv /\ TransferInv /\ Budget(n, b) /\ [Next]_vars => Budget(n, b)'
  BY BudgetStep
<1>3. IInv /\ Budget(n, b) => Goes
  <2>1. SUFFICES ASSUME IInv, Budget(n, b), Mishaps(n) < b + MaxAttempts
                 PROVE  Transferring(n) \/ acked[n] = Total
    OBVIOUS
  <2>2. Mishaps(n) \in Nat /\ MaxAttempts \in Nat
    BY <2>1, CountsAssumption DEF Mishaps, IInv, TypeOK, LinkTypeOK
  <2>3. ~(Mishaps(n) >= b + MaxAttempts)
    BY <2>1, <2>2
  <2>4. QED BY <2>1, <2>3 DEF Budget, Within
<1> HIDE DEF Starts, Goes
<1>4. Spec => [](Starts => []Goes)
  BY <1>1, <1>2, <1>3, Invariance, TransferInvariance, PTL DEF Spec
<1>5. QED BY <1>4, PTL DEF Starts, Goes
=============================================================================
