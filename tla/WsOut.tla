------------------------------- MODULE WsOut -------------------------------
(***************************************************************************)
(* What the station sends over its websockets                              *)
(* (components/bdgs/web/bd_ws_out.cpp, called from ws_handler and          *)
(* on_socket_close in web/bd_http.cpp).                                    *)
(*                                                                         *)
(* Any task adds frames to the two rings, under the lock, and then asks    *)
(* for a job of the HTTP server task (schedule_job, three unlocked steps   *)
(* on s_job_queued_ms).  The HTTP server task alone sends, client by       *)
(* client (send_pass), and takes the lock for each frame.  The mailbox of  *)
(* that task may lose a job without an error.                              *)
(*                                                                         *)
(* A frame's size is not modelled: a new one takes the place of any number *)
(* of the oldest ones.  A message longer than kMaxFrame goes nowhere       *)
(* (frame_fits) and is not among the messages here.  Whether a socket      *)
(* takes a frame is its peer's choice, each time it is asked.  A session   *)
(* that close_client wants closed closes later or not at all: its job goes *)
(* through the same mailbox.                                               *)
(*                                                                         *)
(* A definition named ...Mutant is what a slip in the code would make of   *)
(* the one after it; it is used nowhere.                                   *)
(***************************************************************************)
EXTENDS Naturals, Sequences

CONSTANTS
  Tasks,      \* tasks that send: radio, network, power, ...
  Http,       \* the HTTP server task
  Fds,        \* sockets; never more than there are client slots
  RingFrames, \* bound: frames a ring holds at most
  PerPass,    \* kFramesPerPass
  MailSlots,  \* jobs the mailbox of the HTTP server task takes
  MaxFrames,  \* bound: nothing more is begun when so many messages were sent
  MaxWaits,   \* bound: long pauses
  MayLose     \* whether others' jobs fill the mailbox

ASSUME SizesAssumption ==
  /\ RingFrames \in Nat \ {0} /\ PerPass \in Nat \ {0}
  /\ MailSlots \in Nat /\ MaxFrames \in Nat /\ MaxWaits \in Nat
  /\ MayLose \in BOOLEAN
ASSUME HttpAssumption == Http \notin Tasks

Rings == {"reply", "event"}
kBroadcast == "all"
ASSUME FdsAssumption == kBroadcast \notin Fds
Stages == {"loop", "add", "load", "store", "queue", "hello", "clear", "collect", "next", "send",
           "after"}

VARIABLES
  ring,     \* the frames in each ring, the oldest first
  rd,       \* frames that have left each ring so far
  client,   \* s_clients, by socket
  open,     \* sockets with an open websocket
  queued,   \* s_job_queued_ms: no job, one queued lately, or over kJobLostMs ago
  jobs,     \* send_pass jobs in the mailbox
  pc,       \* where each task is
  back,     \* where the HTTP server task goes on after schedule_job
  todo,     \* fds[] of the pass
  cur,      \* {the client being served}
  left,     \* frames it may still get in this pass
  full,     \* its socket has taken all it can in this pass
  more,     \* the pass leaves something to send
  sent,     \* messages so far; the number of the last one
  waits,    \* long pauses so far
  lost,     \* history variable: a job was lost, and no message was sent since
            \* that should have another one queued
  owed,     \* history variable: messages a client should get and has not
  busy      \* history variable: a client has taken a frame since the last pause

rings == <<ring, rd>>
job == <<queued, jobs, lost>>
pass == <<todo, cur, left, full, more>>
vars == <<rings, client, open, job, pc, back, pass, sent, waits, owed, busy>>

NoClient == [used |-> FALSE, resync |-> FALSE, status |-> FALSE,
             pos |-> [r \in Rings |-> 0], stalled |-> "no"]

Init ==
  /\ ring = [r \in Rings |-> <<>>] /\ rd = [r \in Rings |-> 0]
  /\ client = [f \in Fds |-> NoClient]
  /\ open = {}
  /\ queued = "none" /\ jobs = 0 /\ lost = FALSE
  /\ pc = [t \in Tasks \cup {Http} |-> "loop"] /\ back = "loop"
  /\ todo = {} /\ cur = {} /\ left = 0 /\ full = FALSE /\ more = FALSE
  /\ sent = 0 /\ waits = 0
  /\ owed = [f \in Fds |-> {}] /\ busy = [f \in Fds |-> FALSE]

Clients == {f \in Fds : client[f].used}

-----------------------------------------------------------------------------
(* The rings.                                                              *)

Wr(r) == rd[r] + Len(ring[r])
Frame(r, p) == ring[r][p - rd[r] + 1]
For(frame, f) == frame.to \in {kBroadcast, f}

(* Frames of ring r that client f has still to be looked through. *)
Waiting(f, r) == client[f].pos[r] .. (Wr(r) - 1)

HasFrames(f) ==
  client[f].resync \/ client[f].status \/ \E r \in Rings : client[f].pos[r] # Wr(r)

(* A client that had not got beyond the frames that leave is moved on, and *)
(* told, if one of them was for it (evict_oldest).                         *)
MovedOnMutant(f, r, gone) ==
  [client[f] EXCEPT !.pos[r] = gone,
     !.resync = @ \/ \E p \in client[f].pos[r] .. (gone - 1) : Frame(r, p).to = f]
MovedOn(f, r, gone) ==
  [client[f] EXCEPT !.pos[r] = gone,
     !.resync = @ \/ \E p \in client[f].pos[r] .. (gone - 1) : For(Frame(r, p), f)]

(* ring_add: as many of the oldest frames leave as its size takes. *)
RingAdd(r, to) == \E n \in 0 .. Len(ring[r]) :
  LET gone == rd[r] + n IN
  /\ Len(ring[r]) - n < RingFrames
  /\ ring' = [ring EXCEPT ![r] =
                Append(SubSeq(@, n + 1, Len(@)), [to |-> to, id |-> sent + 1])]
  /\ rd' = [rd EXCEPT ![r] = gone]
  /\ client' = [f \in Fds |->
       IF client[f].used /\ client[f].pos[r] < gone THEN MovedOn(f, r, gone) ELSE client[f]]

NewMessage(receivers) ==
  /\ sent' = sent + 1
  /\ owed' = [f \in Fds |-> IF f \in receivers THEN owed[f] \cup {sent + 1} ELSE owed[f]]

-----------------------------------------------------------------------------
(* The tasks that send.                                                    *)

Goto(t, stage) == pc' = [pc EXCEPT ![t] = stage]

(* A message for which schedule_job will be called: unless the mark of the *)
(* last job is a fresh one, a job lost before is no excuse.                *)
SendsAnew == lost' = (lost /\ queued = "fresh") /\ UNCHANGED <<queued, jobs>>

(* bd_ws_broadcast adds to the event ring, without looking again whether   *)
(* there is a client.                                                      *)
ToAll == NewMessage(Clients) /\ RingAdd("event", kBroadcast)

(* bd_ws_send *)
ToOne(f) ==
  IF f \in Clients THEN NewMessage({f}) /\ RingAdd("reply", f)
  ELSE UNCHANGED <<rings, client, sent, owed>>

(* bd_ws_request_status *)
WantStatus(f) ==
  /\ client' = [client EXCEPT ![f].status = @ \/ client[f].used]
  /\ UNCHANGED <<rings, sent, owed>>

(* bd_ws_note_dropped: a message that was not built, for want of memory. *)
NotBuilt ==
  /\ NewMessage(Clients)
  /\ client' = [f \in Fds |-> [client[f] EXCEPT !.resync = @ \/ client[f].used]]
  /\ UNCHANGED rings

(* bd_ws_broadcast looks for a client first, and then takes the lock. *)
HasClients(t) ==
  /\ pc[t] = "loop" /\ Clients # {} /\ sent < MaxFrames
  /\ Goto(t, "add")
  /\ UNCHANGED <<rings, client, open, job, back, pass, sent, waits, owed, busy>>

Broadcast(t) ==
  /\ pc[t] = "add"
  /\ ToAll /\ SendsAnew
  /\ Goto(t, "load")
  /\ UNCHANGED <<open, back, pass, waits, busy>>

SendOther(t) ==
  /\ pc[t] = "loop" /\ sent < MaxFrames
  /\ NotBuilt \/ \E f \in Fds : ToOne(f)
  /\ SendsAnew /\ Goto(t, "load")
  /\ UNCHANGED <<open, back, pass, waits, busy>>

-----------------------------------------------------------------------------
(* schedule_job, in any task.                                              *)

Scheduled(t) == Goto(t, IF t = Http THEN back ELSE "loop")

LoadMutant(t) ==
  /\ pc[t] = "load"
  /\ IF queued # "none" THEN Scheduled(t) ELSE Goto(t, "store")
  /\ UNCHANGED <<rings, client, open, job, back, pass, sent, waits, owed, busy>>

Load(t) ==
  /\ pc[t] = "load"
  /\ IF queued = "fresh" THEN Scheduled(t) ELSE Goto(t, "store")
  /\ UNCHANGED <<rings, client, open, job, back, pass, sent, waits, owed, busy>>

Store(t) ==
  /\ pc[t] = "store"
  /\ queued' = "fresh"
  /\ Goto(t, "queue")
  /\ UNCHANGED <<rings, client, open, jobs, lost, back, pass, sent, waits, owed, busy>>

(* httpd_queue_work: the job arrives; or it is refused, or lost without an *)
(* error.                                                                  *)
Queue(t) ==
  /\ pc[t] = "queue"
  /\ \/ jobs < MailSlots /\ jobs' = jobs + 1 /\ UNCHANGED <<queued, lost>>
     \/ /\ MayLose \/ jobs = MailSlots
        /\ queued' \in {queued, "none"} /\ lost' = TRUE /\ UNCHANGED jobs
  /\ Scheduled(t)
  /\ UNCHANGED <<rings, client, open, back, pass, sent, waits, owed, busy>>

-----------------------------------------------------------------------------
(* send_pass.                                                              *)

ClearMutant ==
  /\ pc[Http] = "clear"
  /\ Goto(Http, "collect")
  /\ UNCHANGED <<rings, client, open, job, back, pass, sent, waits, owed, busy>>

(* s_job_queued_ms.store(0) *)
Clear ==
  /\ pc[Http] = "clear"
  /\ queued' = "none"
  /\ Goto(Http, "collect")
  /\ UNCHANGED <<rings, client, open, jobs, lost, back, pass, sent, waits, owed, busy>>

Collect ==
  /\ pc[Http] = "collect"
  /\ todo' = {f \in Clients : HasFrames(f)}
  /\ cur' = {} /\ left' = 0 /\ full' = FALSE /\ more' = FALSE
  /\ Goto(Http, "next")
  /\ UNCHANGED <<rings, client, open, job, back, sent, waits, owed, busy>>

NextClient == \E f \in todo :
  /\ pc[Http] = "next"
  /\ todo' = todo \ {f} /\ cur' = {f} /\ left' = PerPass /\ full' = FALSE
  /\ Goto(Http, "send")
  /\ UNCHANGED <<rings, client, open, job, back, more, sent, waits, owed, busy>>

Forget(f) ==
  /\ client' = [client EXCEPT ![f] = NoClient]
  /\ owed' = [owed EXCEPT ![f] = {}]

(* A client whose socket takes nothing: noted, and given up in the end. *)
SkipStalled == \E f \in todo :
  /\ pc[Http] = "next"
  /\ todo' = todo \ {f}
  /\ IF client[f].stalled = "old" THEN Forget(f)
     ELSE client' = [client EXCEPT ![f].stalled = "fresh"] /\ UNCHANGED owed
  /\ UNCHANGED <<rings, open, job, pc, back, cur, left, full, more, sent, waits, busy>>

PassOver ==
  /\ pc[Http] = "next" /\ todo = {}
  /\ back' = "loop" /\ more' = FALSE
  /\ Goto(Http, IF more THEN "load" ELSE "loop")
  /\ UNCHANGED <<rings, client, open, job, todo, cur, left, full, sent, waits, owed, busy>>

(* The frame client f is given from ring r: the first one for it; those    *)
(* for others are passed over.                                             *)
NextPos(f, r, p) ==
  /\ p \in Waiting(f, r) /\ For(Frame(r, p), f)
  /\ \A q \in Waiting(f, r) : q < p => ~For(Frame(r, q), f)
NothingIn(f, r) == \A p \in Waiting(f, r) : ~For(Frame(r, p), f)

(* What waits in the rings for client f. *)
Pending(f) == UNION {{Frame(r, p).id : p \in {q \in Waiting(f, r) : For(Frame(r, q), f)}}
                     : r \in Rings}

(* take_frame: what is given, and what it leaves of client f. *)
TakeResync(f) ==
  /\ client[f].resync
  /\ client' = [client EXCEPT ![f].resync = FALSE]
  /\ owed' = [owed EXCEPT ![f] = @ \cap Pending(f)]

TakeStatus(f) ==
  /\ ~client[f].resync /\ client[f].status
  /\ client' = [client EXCEPT ![f].status = FALSE]
  /\ UNCHANGED owed

TakeFrom(f, r, p) ==
  /\ ~client[f].resync /\ ~client[f].status
  /\ r = "event" => NothingIn(f, "reply")
  /\ NextPos(f, r, p)
  /\ client' = [client EXCEPT ![f].pos =
       [s \in Rings |-> IF s = r THEN p + 1 ELSE IF s = "reply" THEN Wr(s) ELSE @[s]]]
  /\ owed' = [owed EXCEPT ![f] = @ \ {Frame(r, p).id}]

(* Nothing for it: its positions are at the end of both rings. *)
TakesNothing(f) ==
  /\ ~client[f].resync /\ ~client[f].status /\ \A r \in Rings : NothingIn(f, r)
  /\ client' = [client EXCEPT ![f].pos = [r \in Rings |-> Wr(r)]]
  /\ UNCHANGED owed

(* One turn of the loop over kFramesPerPass. *)
Turn(f) == pc[Http] = "send" /\ left > 0 /\ ~full

SendFrame == \E f \in cur :
  /\ Turn(f)
  /\ \/ TakeResync(f) \/ TakeStatus(f)
     \/ \E r \in Rings : \E p \in Waiting(f, r) : TakeFrom(f, r, p)
  /\ busy' = [busy EXCEPT ![f] = TRUE]
  /\ left' = left - 1 /\ full' \in BOOLEAN
  /\ UNCHANGED <<rings, open, job, pc, back, todo, cur, more, sent, waits>>

(* httpd_ws_send_frame_async fails: the frame is gone, and so is the client. *)
SendFails == \E f \in cur :
  /\ Turn(f) /\ (client[f].resync \/ client[f].status \/ Pending(f) # {})
  /\ Forget(f)
  /\ cur' = {} /\ left' = 0
  /\ Goto(Http, "next")
  /\ UNCHANGED <<rings, open, job, back, todo, full, more, sent, waits, busy>>

LoopOver == \E f \in cur :
  /\ pc[Http] = "send"
  /\ \/ Turn(f) /\ TakesNothing(f)
     \/ ~Turn(f) /\ UNCHANGED <<client, owed>>
  /\ Goto(Http, "after")
  /\ UNCHANGED <<rings, open, job, back, pass, sent, waits, busy>>

(* What the pass does last for a client.                                   *)
After == \E f \in cur :
  /\ pc[Http] = "after"
  /\ client' = [client EXCEPT ![f].stalled = IF full THEN @ ELSE "no"]
  /\ more' = (more \/ (client[f].used /\ ~full /\ HasFrames(f)))
  /\ cur' = {} /\ left' = 0 /\ full' = FALSE
  /\ Goto(Http, "next")
  /\ UNCHANGED <<rings, open, job, back, todo, sent, waits, owed, busy>>

-----------------------------------------------------------------------------
(* The HTTP server task between its jobs.                                  *)

JobRuns ==
  /\ pc[Http] = "loop" /\ jobs > 0
  /\ jobs' = jobs - 1
  /\ Goto(Http, "clear")
  /\ UNCHANGED <<rings, client, open, queued, lost, back, pass, sent, waits, owed, busy>>

FirstPosMutant(r) == rd[r]
FirstPos(r) == Wr(r)

(* ws_handler, the handshake: the client sees nothing sent before.         *)
Connect(f) ==
  /\ pc[Http] = "loop" /\ f \notin open /\ sent < MaxFrames
  /\ open' = open \cup {f}
  /\ client' = [client EXCEPT ![f] =
       [NoClient EXCEPT !.used = TRUE, !.pos = [r \in Rings |-> FirstPos(r)]]]
  /\ cur' = {f}
  /\ Goto(Http, "hello")
  /\ UNCHANGED <<rings, job, back, todo, left, full, more, sent, waits, owed, busy>>

(* The hello message. *)
Hello == \E f \in cur :
  /\ pc[Http] = "hello"
  /\ NewMessage({f}) /\ RingAdd("reply", f)
  /\ cur' = {}
  /\ SendsAnew /\ Goto(Http, "load")
  /\ UNCHANGED <<open, back, todo, left, full, more, waits, busy>>

(* A request: what it makes the station send.  A command's answer, and     *)
(* what is waiting, go out at once (bd_ws_out_flush); the progress of an   *)
(* upload waits for a job.                                                 *)
Command == \E f \in Fds :
  /\ pc[Http] = "loop" /\ open # {} /\ sent < MaxFrames
  /\ ToOne(f) \/ WantStatus(f) \/ (Clients # {} /\ ToAll)
  /\ back' \in {"clear", "loop"}
  /\ SendsAnew /\ Goto(Http, "load")
  /\ UNCHANGED <<open, pass, waits, busy>>

(* A close frame: the socket stays until its peer closes it.               *)
Leave(f) ==
  /\ pc[Http] = "loop" /\ f \in open
  /\ Forget(f)
  /\ UNCHANGED <<rings, open, job, pc, back, pass, sent, waits, busy>>

(* on_socket_close: the peer is gone, the server needs the socket, or      *)
(* close_client asked for it.                                              *)
SocketCloses(f) ==
  /\ pc[Http] = "loop" /\ f \in open
  /\ open' = open \ {f}
  /\ Forget(f)
  /\ UNCHANGED <<rings, job, pc, back, pass, sent, waits, busy>>

-----------------------------------------------------------------------------
(* Time.                                                                   *)

Later(when) == IF when = "fresh" THEN "old" ELSE when

(* Over kJobLostMs without the job having run. *)
ShortPause ==
  /\ queued = "fresh" /\ queued' = "old"
  /\ UNCHANGED <<rings, client, open, jobs, lost, pc, back, pass, sent, waits, owed, busy>>

(* Over kStallCloseMs. *)
LongPause ==
  /\ waits < MaxWaits /\ waits' = waits + 1
  /\ queued' = Later(queued)
  /\ client' = [f \in Fds |-> [client[f] EXCEPT !.stalled = Later(@)]]
  /\ busy' = [f \in Fds |-> FALSE]
  /\ UNCHANGED <<rings, open, jobs, lost, pc, back, pass, sent, owed>>

Schedule(t) == Load(t) \/ Store(t) \/ Queue(t)

SendPass ==
  \/ Clear \/ Collect \/ NextClient \/ SkipStalled \/ PassOver
  \/ SendFrame \/ SendFails \/ LoopOver \/ After

HttpStep == JobRuns \/ Hello \/ Schedule(Http) \/ SendPass

Next ==
  \/ \E t \in Tasks : HasClients(t) \/ Broadcast(t) \/ SendOther(t) \/ Schedule(t)
  \/ HttpStep \/ Command
  \/ \E f \in Fds : Connect(f) \/ Leave(f) \/ SocketCloses(f)
  \/ ShortPause \/ LongPause

Spec == Init /\ [][Next]_vars

(* Tasks go on with what they have begun, and the server takes a job       *)
(* before it goes on to the next request.                                  *)
FairSpec ==
  /\ Spec
  /\ WF_vars(HttpStep) /\ SF_vars(JobRuns)
  /\ \A t \in Tasks : WF_vars(Broadcast(t) \/ Schedule(t))

-----------------------------------------------------------------------------
(* Properties.                                                             *)

Frames == [to : Fds \cup {kBroadcast}, id : Nat]

(* Each variable has the values the program can give it; a client's        *)
(* position is never outside what a ring holds.                            *)
TypeOK ==
  /\ ring \in [Rings -> Seq(Frames)] /\ rd \in [Rings -> Nat]
  /\ \A r \in Rings : Len(ring[r]) <= RingFrames
  /\ \A f \in Clients, r \in Rings : client[f].pos[r] \in rd[r] .. Wr(r)
  /\ \A f \in Fds : client[f].stalled \in {"no", "fresh", "old"}
  /\ open \subseteq Fds /\ Clients \subseteq open
  /\ queued \in {"none", "fresh", "old"} /\ jobs \in 0 .. MailSlots
  /\ pc \in [Tasks \cup {Http} -> Stages] /\ back \in {"loop", "clear"}
  /\ todo \subseteq Fds /\ cur \subseteq Fds /\ left \in 0 .. PerPass
  /\ full \in BOOLEAN /\ more \in BOOLEAN
  /\ sent \in Nat /\ waits \in Nat /\ lost \in BOOLEAN
  /\ owed \in [Fds -> SUBSET Nat] /\ busy \in [Fds -> BOOLEAN]

(* Nothing is lost without the client knowing: what it has not got still   *)
(* waits for it, or it will be told to resync.                             *)
NoSilentLoss == \A f \in Clients : client[f].resync \/ owed[f] \subseteq Pending(f)

(* What waits for a client is what it should get and has not: no frame is  *)
(* sent twice, and none to the next client that has the same socket.       *)
NothingStale == \A f \in Clients : Pending(f) \subseteq owed[f]

(* No wake-up is lost: once a sender has come to schedule_job, all that    *)
(* waits for a client goes out without a further message having to come,   *)
(* unless its socket took no more, or the job was lost; and after a job    *)
(* that was lost, once kJobLostMs are over, the same is true again.        *)
Refused(f) == client[f].stalled # "no" \/ (full /\ f \in cur)
Due(f) == client[f].resync \/ Pending(f) # {}
Delivered == \A f \in Fds :
  ((\E t \in Tasks \cup {Http} : pc[t] = "load") /\ f \in Clients /\ Due(f))
    ~> (f \notin Clients \/ ~Due(f) \/ Refused(f) \/ lost)

(* "A client that takes nothing for this long is gone": none other is      *)
(* closed for being slow (kStallCloseMs, and the log text of send_pass).   *)
OnlyStalledClosed ==
  [][\A f \in Clients : pc[Http] = "next" /\ ~client'[f].used => ~busy[f]]_vars
=============================================================================
