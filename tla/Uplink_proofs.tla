--------------------------- MODULE Uplink_proofs ---------------------------
(***************************************************************************)
(* Proofs about Uplink, for any number of events and payloads and any      *)
(* capacity of the queue.                                                  *)
(***************************************************************************)
EXTENDS Uplink, TLAPS

(* Why no data comes first: whoever is fully registered on a connection    *)
(* that is up has sent its status on that very connection.                 *)
Registered == initOk = "full" /\ link = "up" => "status" \in wire

Login == StatusBeforeData /\ Registered

(* Every step keeps the order of the lines.                                *)
LEMMA LoginStep ==
  ASSUME Login, [Next]_uplinkVars
  PROVE  Login'
<1> USE DEF Login, StatusBeforeData, Registered
<1>1. CASE Run /\ Alone
  BY <1>1 DEF Run, connection
<1>2. CASE CheckClientConnected /\ Alone
  BY <1>2 DEF CheckClientConnected, connection
<1>3. CASE Connect2Server /\ Alone
  BY <1>3 DEF Connect2Server, LoginState, NotYet, Refused, LoggedIn, connection
<1>4. CASE ReadClient /\ Alone
  BY <1>4 DEF ReadClient
<1>5. CASE SendStatus /\ Alone
  BY <1>5 DEF SendStatus, SendReceiverBeacon, SendReceiverStatus, NothingDue, Got
<1>6. CASE UpdateSettings /\ Alone
  BY <1>6 DEF UpdateSettings
<1>7. CASE Outside /\ Alone
  BY <1>7 DEF Outside, RunsOut, NetworkUp, NetworkLost, ClockSet, Answers, Closes, UploadBegins,
    UploadEnds, connection, aprsVars
<1>8. CASE Sends
  BY <1>8 DEF Sends, SendData, Got, aprsVars
<1>9. CASE Weather \/ LookAtAprs \/ Tracking \/ NetTask \/ UNCHANGED uplinkVars
  BY <1>9 DEF Weather, LookAtAprs, Tracking, NetTask, uplinkVars, vars, connection, aprsVars
<1>10. QED
  BY <1>1, <1>2, <1>3, <1>4, <1>5, <1>6, <1>7, <1>8, <1>9 DEF Next, RadioTask, AprsTask

(* The server gets no data on a connection before the station's status     *)
(* (Aprs::connect2Server forgets the login of the last connection).        *)
THEOREM NoDataBeforeStatus == Spec => []StatusBeforeData
<1>1. UplinkInit => Login
  BY DEF UplinkInit, Init, Login, StatusBeforeData, Registered
<1>2. Login /\ [Next]_uplinkVars => Login'
  BY LoginStep
<1>3. Login => StatusBeforeData
  BY DEF Login
<1>4. QED BY <1>1, <1>2, <1>3, PTL DEF Spec

-----------------------------------------------------------------------------
(* The ring: where an index goes that runs over its end.                   *)
LEMMA Wraps ==
  ASSUME NEW n \in 0..(2 * Capacity - 1)
  PROVE  n % Capacity = IF n < Capacity THEN n ELSE n - Capacity
BY QueueAssumption

LEMMA Place ==
  ASSUME NEW h \in 0..(Capacity - 1), NEW i \in 0..Capacity
  PROVE  (h + i) % Capacity = IF h + i < Capacity THEN h + i ELSE h + i - Capacity
<1> DEFINE n == h + i
<1>1. n \in 0..(2 * Capacity - 1)
  BY QueueAssumption
<1> HIDE DEF n
<1>2. n % Capacity = IF n < Capacity THEN n ELSE n - Capacity
  BY <1>1, Wraps
<1>3. n = h + i
  BY DEF n
<1>4. QED BY <1>2, <1>3, QueueAssumption

LEMMA Within ==
  ASSUME NEW h \in 0..(Capacity - 1), NEW i \in 0..(Capacity - 1)
  PROVE  (h + i) % Capacity \in 0..(Capacity - 1)
<1>1. i \in 0..Capacity
  BY QueueAssumption
<1>2. (h + i) % Capacity = IF h + i < Capacity THEN h + i ELSE h + i - Capacity
  BY <1>1, Place
<1>3. QED BY <1>2, QueueAssumption

(* Two places of the ring at different distances from its head differ.     *)
LEMMA Apart ==
  ASSUME NEW h \in 0..(Capacity - 1), NEW i \in 0..(Capacity - 1), NEW j \in 0..(Capacity - 1),
         i # j
  PROVE  /\ (h + i) % Capacity # (h + j) % Capacity
         /\ (h + i) % Capacity \in 0..(Capacity - 1)
<1>1. i \in 0..Capacity /\ j \in 0..Capacity
  BY QueueAssumption
<1>2. /\ (h + i) % Capacity = IF h + i < Capacity THEN h + i ELSE h + i - Capacity
      /\ (h + j) % Capacity = IF h + j < Capacity THEN h + j ELSE h + j - Capacity
  BY <1>1, Place
<1>3. QED BY <1>2, QueueAssumption

(* The head moves on: every place is one nearer to it.                     *)
LEMMA Nearer ==
  ASSUME NEW h \in 0..(Capacity - 1), NEW i \in 0..(Capacity - 1)
  PROVE  /\ (h + 1) % Capacity \in 0..(Capacity - 1)
         /\ i + 1 < Capacity => (((h + 1) % Capacity) + i) % Capacity = (h + (i + 1)) % Capacity
<1>1. 1 \in 0..Capacity
  BY QueueAssumption
<1>2. (h + 1) % Capacity = IF h + 1 < Capacity THEN h + 1 ELSE h + 1 - Capacity
  BY <1>1, Place
<1>3. (h + 1) % Capacity \in 0..(Capacity - 1)
  BY <1>2, QueueAssumption
<1>4. ASSUME i + 1 < Capacity
      PROVE  (((h + 1) % Capacity) + i) % Capacity = (h + (i + 1)) % Capacity
  <2> DEFINE g == (h + 1) % Capacity
             k == i + 1
  <2>1. g \in 0..(Capacity - 1) /\ i \in 0..Capacity /\ k \in 0..Capacity
    BY <1>3, <1>4, QueueAssumption
  <2> HIDE DEF g, k
  <2>2. (g + i) % Capacity = IF g + i < Capacity THEN g + i ELSE g + i - Capacity
    BY <2>1, Place
  <2>3. (h + k) % Capacity = IF h + k < Capacity THEN h + k ELSE h + k - Capacity
    BY <2>1, Place
  <2>4. g = IF h + 1 < Capacity THEN h + 1 ELSE h + 1 - Capacity
    BY <1>2 DEF g
  <2>5. k = i + 1
    BY DEF k
  <2>6. (g + i) % Capacity = (h + k) % Capacity
    BY <1>4, <2>2, <2>3, <2>4, <2>5, QueueAssumption
  <2>7. QED BY <2>6 DEF g, k
<1>5. QED BY <1>3, <1>4

Queue == QueueTypeOK /\ LatestKept

LEMMA EnqueueKeeps ==
  ASSUME Queue, Enqueue
  PROVE  Queue'
<1> DEFINE kept == IF qcount = Capacity THEN qcount - 1 ELSE qcount
<1>1. /\ Capacity \in Nat /\ Capacity > 0
      /\ qhead \in 0..(Capacity - 1) /\ qcount \in 0..Capacity
      /\ items \in [0..(Capacity - 1) -> Nat]
      /\ posting \in Nat /\ last \in Nat /\ posted \in Nat
  BY QueueAssumption DEF Queue, QueueTypeOK
<1>2. kept \in 0..(Capacity - 1)
  BY <1>1
<1>3. /\ qhead' = HeadAfterDrop /\ qcount' = kept + 1 /\ last' = last + 1
      /\ posting' = posting /\ posted' = posted
  BY DEF Enqueue
<1>4. items' = [items EXCEPT ![(qhead' + kept) % Capacity] = last']
  BY DEF Enqueue
(* What the queue keeps of the old payloads, seen from the new head.       *)
<1>5. /\ qhead' \in 0..(Capacity - 1)
      /\ \A i \in 0..(kept - 1) : items[(qhead' + i) % Capacity] = last - kept + 1 + i
  <2>1. \A i \in 0..(qcount - 1) : items[(qhead + i) % Capacity] = last - qcount + 1 + i
    BY DEF Queue, LatestKept
  <2>2. CASE qcount < Capacity
    <3>1. qhead' = qhead /\ kept = qcount
      BY <1>1, <1>3, <2>2 DEF HeadAfterDrop
    <3>2. QED BY <1>1, <2>1, <3>1
  <2>3. CASE qcount = Capacity
    <3>1. qhead' = (qhead + 1) % Capacity /\ kept = Capacity - 1
      BY <1>1, <1>3, <2>3 DEF HeadAfterDrop
    <3>2. qhead' \in 0..(Capacity - 1)
      <4>1. 0 \in 0..(Capacity - 1)
        BY <1>1
      <4>2. QED BY <1>1, <3>1, <4>1, Nearer
    <3>3. ASSUME NEW i \in 0..(kept - 1)
          PROVE  items[(qhead' + i) % Capacity] = last - kept + 1 + i
      <4>1. i \in 0..(Capacity - 1) /\ i + 1 < Capacity /\ i + 1 \in 0..(qcount - 1)
        BY <1>1, <2>3, <3>1
      <4>2. (qhead' + i) % Capacity = (qhead + (i + 1)) % Capacity
        BY <1>1, <3>1, <4>1, Nearer
      <4>3. items[(qhead + (i + 1)) % Capacity] = last - qcount + 1 + (i + 1)
        BY <2>1, <4>1
      <4>4. last - qcount + 1 + (i + 1) = last - kept + 1 + i
        BY <1>1, <2>3, <3>1, <4>1
      <4>5. QED BY <4>2, <4>3, <4>4
    <3>4. QED BY <3>2, <3>3
  <2>4. QED BY <1>1, <2>2, <2>3
<1>6. ASSUME NEW i \in 0..(qcount' - 1)
      PROVE  items'[(qhead' + i) % Capacity] = last' - qcount' + 1 + i
  <2>1. i \in 0..kept /\ i \in 0..(Capacity - 1) /\ qcount' - 1 = kept
    BY <1>1, <1>2, <1>3
  <2>2. (qhead' + kept) % Capacity \in 0..(Capacity - 1)
    BY <1>1, <1>2, <1>5, Within
  <2>3. CASE i = kept
    <3>1. items'[(qhead' + kept) % Capacity] = last'
      BY <1>1, <1>4, <2>2
    <3>2. last' - qcount' + 1 + kept = last'
      BY <1>1, <1>2, <1>3
    <3>3. QED BY <2>3, <3>1, <3>2
  <2>4. CASE i # kept
    <3>1. /\ (qhead' + i) % Capacity # (qhead' + kept) % Capacity
          /\ (qhead' + i) % Capacity \in 0..(Capacity - 1)
      BY <1>2, <1>5, <2>1, <2>4, Apart
    <3>2. items[(qhead' + i) % Capacity] = last - kept + 1 + i
      BY <1>2, <1>5, <2>1, <2>4
    <3>3. items'[(qhead' + i) % Capacity] = items[(qhead' + i) % Capacity]
      BY <1>1, <1>4, <2>2, <3>1
    <3>4. last' - qcount' + 1 + i = last - kept + 1 + i
      BY <1>1, <1>2, <1>3, <2>1
    <3>5. QED BY <3>2, <3>3, <3>4
  <2>5. QED BY <2>3, <2>4
<1>7. /\ qcount' \in 0..Capacity /\ last' \in Nat /\ last' - qcount' \in Int
      /\ last - qcount <= last' - qcount'
  BY <1>1, <1>2, <1>3
<1>8. items' \in [0..(Capacity - 1) -> Nat]
  BY <1>1, <1>4, <1>7
<1>9. QueueTypeOK'
  BY <1>1, <1>3, <1>5, <1>7, <1>8 DEF QueueTypeOK
<1>10. /\ posting' # 0 => posting' \in (posted' + 1)..(last' - qcount')
       /\ posted' <= last' - qcount'
  BY <1>1, <1>3, <1>7 DEF Queue, LatestKept
<1>11. QED BY <1>6, <1>9, <1>10 DEF Queue, LatestKept

LEMMA PopKeeps ==
  ASSUME Queue, Pop
  PROVE  Queue'
<1>1. /\ Capacity \in Nat /\ Capacity > 0
      /\ qhead \in 0..(Capacity - 1) /\ qcount \in 0..Capacity
      /\ items \in [0..(Capacity - 1) -> Nat]
      /\ posting \in Nat /\ last \in Nat /\ posted \in Nat
  BY QueueAssumption DEF Queue, QueueTypeOK
<1>2. /\ qhead' = (qhead + 1) % Capacity /\ qcount' = qcount - 1 /\ qcount > 0
      /\ items' = [items EXCEPT ![qhead] = 0] /\ posting' = items[qhead]
      /\ last' = last /\ posted' = posted
  BY DEF Pop
<1>3. \A i \in 0..(qcount - 1) : items[(qhead + i) % Capacity] = last - qcount + 1 + i
  BY DEF Queue, LatestKept
<1>4. 0 \in 0..(Capacity - 1) /\ 0 \in 0..(qcount - 1)
  BY <1>1, <1>2
<1>5. (qhead + 0) % Capacity = qhead
  BY <1>1, <1>4, Wraps
<1>6. qhead' \in 0..(Capacity - 1)
  BY <1>1, <1>2, <1>4, Nearer
<1>7. items[qhead] = last - qcount + 1
  <2>1. items[(qhead + 0) % Capacity] = last - qcount + 1 + 0
    BY <1>3, <1>4
  <2>2. last - qcount + 1 + 0 = last - qcount + 1
    BY <1>1
  <2>3. QED BY <1>5, <2>1, <2>2
<1>8. ASSUME NEW i \in 0..(qcount' - 1)
      PROVE  items'[(qhead' + i) % Capacity] = last' - qcount' + 1 + i
  <2>1. /\ i \in 0..(Capacity - 1) /\ i + 1 < Capacity /\ i + 1 # 0
        /\ i + 1 \in 0..(qcount - 1) /\ i + 1 \in 0..(Capacity - 1)
    BY <1>1, <1>2
  <2>2. (qhead' + i) % Capacity = (qhead + (i + 1)) % Capacity
    BY <1>1, <1>2, <2>1, Nearer
  <2>3. /\ (qhead + (i + 1)) % Capacity # (qhead + 0) % Capacity
        /\ (qhead + (i + 1)) % Capacity \in 0..(Capacity - 1)
    BY <1>1, <1>4, <2>1, Apart
  <2>4. items[(qhead + (i + 1)) % Capacity] = last - qcount + 1 + (i + 1)
    BY <1>3, <2>1
  <2>5. items'[(qhead + (i + 1)) % Capacity] = items[(qhead + (i + 1)) % Capacity]
    BY <1>1, <1>2, <1>5, <2>3
  <2>6. last' - qcount' + 1 + i = last - qcount + 1 + (i + 1)
    BY <1>1, <1>2, <2>1
  <2>7. QED BY <2>2, <2>4, <2>5, <2>6
<1>9. items[qhead] \in Nat /\ qcount' \in 0..Capacity /\ last' - qcount' = last - qcount + 1
  BY <1>1, <1>2
<1>10. QueueTypeOK'
  <2>1. items' \in [0..(Capacity - 1) -> Nat]
    BY <1>1, <1>2
  <2>2. QED BY <1>1, <1>2, <1>6, <1>9, <2>1 DEF QueueTypeOK
<1>11. /\ posting' # 0 => posting' \in (posted' + 1)..(last' - qcount')
       /\ posted' <= last' - qcount'
  BY <1>1, <1>2, <1>7, <1>9 DEF Queue, LatestKept
<1>12. QED BY <1>8, <1>10, <1>11 DEF Queue, LatestKept

LEMMA PostKeeps ==
  ASSUME Queue, Post
  PROVE  Queue'
BY QueueAssumption DEF Queue, QueueTypeOK, LatestKept, Post

LEMMA QueueStarts == UplinkInit => Queue
BY QueueAssumption DEF UplinkInit, QueueInit, Queue, QueueTypeOK, LatestKept

LEMMA QueueStep ==
  ASSUME Queue, [Next]_uplinkVars
  PROVE  Queue'
<1>1. CASE Enqueue
  BY <1>1, EnqueueKeeps
<1>2. CASE Forwards
  BY <1>2, PopKeeps, PostKeeps DEF Forwards
<1>3. CASE UNCHANGED queueVars
  BY <1>3 DEF Queue, QueueTypeOK, LatestKept, queueVars
<1>4. QED
  BY <1>1, <1>2, <1>3 DEF Next, RadioTask, Weather, LookAtAprs, Tracking, Sends, NetTask,
    ForwardBegins, ForwardEnds, Alone, uplinkVars

(* The queue holds the newest payloads in their order, and the backend     *)
(* gets none twice nor an older one after a newer (enqueue_forward_payload *)
(* and process_forward_queue).                                             *)
THEOREM QueueKeepsLatest == Spec => []LatestKept
<1>1. Queue /\ [Next]_uplinkVars => Queue'
  BY QueueStep
<1>2. Queue => LatestKept
  BY DEF Queue
<1>3. QED BY QueueStarts, <1>1, <1>2, PTL DEF Spec

-----------------------------------------------------------------------------
(* The types, taken apart: flags and places.                               *)
Flags ==
  /\ sendAPRS \in BOOLEAN /\ connected \in BOOLEAN /\ status \in BOOLEAN
  /\ network \in BOOLEAN /\ timeSet \in BOOLEAN /\ otaUploadInProgress \in BOOLEAN
  /\ deaf \in BOOLEAN

Places ==
  /\ initOk \in {"none", "connected", "registered", "full"} /\ elapsed \subseteq Timers
  /\ step \in {"idle", "check", "read", "status", "connect"}
  /\ link \in {"none", "up", "dead"} /\ rx \in {"nothing", "answer", "half"}
  /\ wire \subseteq {"login", "beacon", "status", "data"} /\ events \in Nat

LEMMA Typed == TypeOK <=> Flags /\ Places
<1>1. {Levels[i] : i \in 1..4} = {"none", "connected", "registered", "full"}
  <2>1. 1..4 = {1, 2, 3, 4}
    OBVIOUS
  <2>2. QED BY <2>1 DEF Levels
<1>2. QED BY <1>1 DEF TypeOK, Flags, Places

LEMMA FlagsStep ==
  ASSUME Flags, [Next]_uplinkVars
  PROVE  Flags'
<1> USE DEF Flags
<1>1. CASE Run \/ CheckClientConnected
  BY <1>1 DEF Run, CheckClientConnected, StillConnected, Noticed, connection, outside
<1>2. CASE Connect2Server
  BY <1>2 DEF Connect2Server, NotYet, Refused, LoggedIn, connection
<1>3. CASE ReadClient
  BY <1>3 DEF ReadClient, outside
<1>4. CASE SendStatus
  BY <1>4 DEF SendStatus, SendReceiverBeacon, SendReceiverStatus, NothingDue, outside
<1>5. CASE UpdateSettings
  BY <1>5 DEF UpdateSettings
<1>6. CASE Outside
  BY <1>6 DEF Outside, RunsOut, NetworkUp, NetworkLost, ClockSet, Answers, Closes, UploadBegins,
    UploadEnds, connection, aprsVars, outside
<1>7. CASE Sends
  BY <1>7 DEF Sends, SendData, aprsVars, outside
<1>8. CASE UNCHANGED vars
  BY <1>8 DEF vars, connection, aprsVars, outside
<1>9. QED
  BY <1>1, <1>2, <1>3, <1>4, <1>5, <1>6, <1>7, <1>8
  DEF Next, RadioTask, AprsTask, Weather, LookAtAprs, Tracking, NetTask, uplinkVars

LEMMA PlacesStep ==
  ASSUME Places, [Next]_uplinkVars
  PROVE  Places'
<1> USE DEF Places
<1>0. Event => events' \in Nat
  BY DEF Event
<1>1. CASE Run \/ CheckClientConnected
  BY <1>1 DEF Run, CheckClientConnected, connection, outside
<1>2. CASE Connect2Server
  <2>1. CASE NotYet
    BY <1>2, <2>1 DEF Connect2Server, LoginState, NotYet, connection
  <2>2. CASE Refused
    BY <1>0, <1>2, <2>2 DEF Connect2Server, LoginState, Refused
  <2>3. CASE LoggedIn
    BY <1>2, <2>3 DEF Connect2Server, LoginState, LoggedIn
  <2>4. QED BY <1>2, <2>1, <2>2, <2>3 DEF Connect2Server
<1>3. CASE ReadClient
  BY <1>3 DEF ReadClient, Timers, outside
<1>4. CASE SendStatus
  BY <1>4 DEF SendStatus, SendReceiverBeacon, SendReceiverStatus, NothingDue, Got, outside
<1>5. CASE UpdateSettings
  BY <1>0, <1>5 DEF UpdateSettings
<1>6. CASE Outside
  <2>1. CASE \E timer \in Timers : RunsOut(timer)
    BY <2>1 DEF RunsOut, connection, aprsVars, outside
  <2>2. CASE NetworkUp \/ ClockSet
    BY <2>2 DEF NetworkUp, ClockSet, connection, aprsVars
  <2>3. CASE NetworkLost \/ Closes
    BY <1>0, <2>3 DEF NetworkLost, Closes, aprsVars
  <2>4. CASE Answers
    BY <1>0, <2>4 DEF Answers, aprsVars
  <2>5. CASE UploadBegins \/ UploadEnds
    BY <1>0, <2>5 DEF UploadBegins, UploadEnds, connection, aprsVars
  <2>6. QED BY <1>6, <2>1, <2>2, <2>3, <2>4, <2>5 DEF Outside
<1>7. CASE Sends
  BY <1>7 DEF Sends, SendData, Got, aprsVars, outside
<1>8. CASE UNCHANGED vars
  BY <1>8 DEF vars, connection, aprsVars, outside
<1>9. QED
  BY <1>1, <1>2, <1>3, <1>4, <1>5, <1>6, <1>7, <1>8
  DEF Next, RadioTask, AprsTask, Weather, LookAtAprs, Tracking, NetTask, uplinkVars

(* The types of the connection, the queue and the tasks.                   *)
THEOREM TypeCorrect == Spec => []UplinkTypeOK
<1> DEFINE Types == /\ Flags /\ Places /\ Queue
                    /\ radio \in {"idle", "weather", "send"} /\ forwarding \in BOOLEAN
<1>1. UplinkInit => Types
  <2> SUFFICES ASSUME UplinkInit
               PROVE  Types
    OBVIOUS
  <2>1. Flags
    BY DEF UplinkInit, Init, Flags
  <2>2. Places
    BY DEF UplinkInit, Init, Places
  <2>3. QED BY <2>1, <2>2, QueueStarts DEF UplinkInit
<1>2. Types /\ [Next]_uplinkVars => Types'
  <2> SUFFICES ASSUME Types, [Next]_uplinkVars
               PROVE  Types'
    OBVIOUS
  <2>1. Flags' /\ Places' /\ Queue'
    BY FlagsStep, PlacesStep, QueueStep
  <2>2. (radio \in {"idle", "weather", "send"} /\ forwarding \in BOOLEAN)'
    BY DEF Next, RadioTask, Weather, LookAtAprs, Tracking, Sends, NetTask, ForwardBegins,
      Forwards, ForwardEnds, Alone, uplinkVars
  <2>3. QED BY <2>1, <2>2
<1>3. Types => UplinkTypeOK
  BY Typed DEF UplinkTypeOK, Queue
<1>4. QED BY <1>1, <1>2, <1>3, PTL DEF Spec
=============================================================================
