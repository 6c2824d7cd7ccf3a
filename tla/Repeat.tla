------------------------------- MODULE Repeat -------------------------------
(***************************************************************************)
(* Which packets of a sender reach the station directly, through a         *)
(* repeater, or both (components/bdgs/radio/bd_repeat.cpp).  A repeater    *)
(* clears the forward bit of a packet and sends it again.  The radio task  *)
(* collects the copies of a packet for a while, then reports it as an      *)
(* event and counts it for its sender; a copy that comes later still       *)
(* upgrades the event.  The HTTP server lists senders and events, or       *)
(* clears them, under a lock it takes for one entry at a time.             *)
(*                                                                         *)
(* A packet is its sender and its content, which stands for its checksum;  *)
(* signal levels and delays are left out.                                  *)
(*                                                                         *)
(* A definition named ...Mutant is what a slip in the code would make of   *)
(* the one after it; it is used nowhere.                                   *)
(***************************************************************************)
EXTENDS Integers, FiniteSets, Sequences

CONSTANTS
  Senders,
  Contents,      \* what a packet says, of any tracked type but the name
  Names,         \* what a name packet says
  Forwarded,     \* bound: what is sent with the forward bit
  OpenPackets,   \* kOpenPackets, 8
  Sources,       \* kSources, 16
  Events,        \* kEvents, 120
  CopyWindow,    \* kCopyWindowMs, 3500
  LateCopy,      \* kLateCopyMs, 60000
  MaxTime,       \* bound: how long it runs
  MaxFrames,     \* bound: how many frames are received
  MaxRequests,   \* bound: how often the lists are asked for or cleared
  NONE

ASSUME RepeatAssumption ==
  /\ {OpenPackets, Sources, Events, CopyWindow} \subseteq Nat \ {0}
  /\ LateCopy \in Nat /\ CopyWindow <= LateCopy
  /\ {MaxTime, MaxFrames, MaxRequests} \subseteq Nat
  /\ Contents \cap Names = {} /\ Forwarded \subseteq Contents \cup Names

VARIABLES
  now,           \* millis()
  frames,        \* how many frames were received
  requests,      \* how often the lists were asked for or cleared
  pc,            \* radio task: "idle", "tick" in bd_repeat_tick, "match" in bd_repeat_note
  frame,         \* what it was called with, NONE for a tick alone
  open,          \* s_open
  sources,       \* s_sources
  slots,         \* s_events
  head, count,   \* s_event_head, s_event_count
  seq,           \* s_event_seq
  reader,        \* bd_repeat_write: head and count it read, the events it wrote, those that
                 \* were there when it began; or NONE
  evicted        \* history variable: an entry of the table of sources was replaced

radio == <<pc, frame, open, frames>>
ring == <<slots, head, count, seq>>
vars == <<now, requests, radio, sources, ring, reader, evicted>>

Kinds == {"both", "direct", "repeated", "plain"}
Type(content) == IF content \in Names THEN "name" ELSE "data"
Slots == 1..OpenPackets
Entries == 1..Sources

Init ==
  /\ now = 0 /\ frames = 0 /\ requests = 0 /\ pc = "idle" /\ frame = NONE
  /\ open = [i \in Slots |-> NONE] /\ sources = [i \in Entries |-> NONE]
  /\ slots = [i \in 0..(Events - 1) |-> NONE] /\ head = 0 /\ count = 0 /\ seq = 0
  /\ reader = NONE /\ evicted = FALSE

Frame == [sender : Senders, content : Contents \cup Names, forward : BOOLEAN]
Packet == [sender : Senders, content : Contents \cup Names, direct : BOOLEAN,
           copies : 0..255, opened : Nat]
Event == [seq : Nat, sender : Senders, content : Contents \cup Names, kind : Kinds,
          copies : 0..255, opened : Nat]
Source == [sender : Senders, flagTypes : SUBSET {"name", "data"}, counts : [Kinds -> Nat],
           extra : Nat, last : Nat]
Reading == [head : 0..(Events - 1), count : 0..Events, written : Seq(Nat), since : SUBSET Nat]

ASSUME NoneAssumption == NONE \notin Packet \cup Event \cup Source \cup Reading

TypeOK ==
  /\ {now, frames, requests} \subseteq Nat /\ pc \in {"idle", "tick", "match"}
  /\ frame \in Frame \cup {NONE} /\ (pc = "match" => frame # NONE)
  /\ open \in [Slots -> Packet \cup {NONE}] /\ sources \in [Entries -> Source \cup {NONE}]
  /\ slots \in [0..(Events - 1) -> Event \cup {NONE}]
  /\ head \in 0..(Events - 1) /\ count \in 0..Events /\ seq \in Nat
  /\ reader \in Reading \cup {NONE} /\ evicted \in BOOLEAN

-----------------------------------------------------------------------------
(* source_for: the entry of a sender; else a free one, else the one whose  *)
(* last packet is the oldest.                                              *)
First(S) == CHOOSE i \in S : \A j \in S : i <= j
LastOf(S) == CHOOSE i \in S : \A j \in S : j <= i

EntryOf(s) ==
  LET own == {i \in Entries : sources[i] # NONE /\ sources[i].sender = s}
      free == {i \in Entries : sources[i] = NONE}
  IN  CASE own # {} -> First(own)
        [] own = {} /\ free # {} -> LastOf(free)
        [] OTHER -> First({i \in Entries : \A j \in Entries : sources[i].last <= sources[j].last})

Known(s) == \E i \in Entries : sources[i] # NONE /\ sources[i].sender = s

SourceFor(s) ==
  IF Known(s) THEN sources[EntryOf(s)]
  ELSE [sender |-> s, flagTypes |-> {}, counts |-> [k \in Kinds |-> 0], extra |-> 0, last |-> 0]

Put(s, entry) ==
  /\ sources' = [sources EXCEPT ![EntryOf(s)] = entry]
  /\ evicted' = (evicted \/ (~Known(s) /\ sources[EntryOf(s)] # NONE))

-----------------------------------------------------------------------------
(* close_packet                                                            *)
KindOf(p, flagTypes) ==
  CASE p.direct /\ p.copies > 0 -> "both"
    [] p.direct /\ p.copies = 0 -> "direct"
    [] ~p.direct /\ Type(p.content) \in flagTypes -> "repeated"
    [] OTHER -> "plain"

ClosePacket(p) ==
  LET s == SourceFor(p.sender)
      flags == s.flagTypes \cup (IF p.direct THEN {Type(p.content)} ELSE {})
      kind == KindOf(p, flags)
  IN  /\ Put(p.sender, [s EXCEPT !.flagTypes = flags, !.counts[kind] = @ + 1, !.last = p.opened,
                                 !.extra = IF p.copies > 1 THEN @ + p.copies - 1 ELSE @])
      /\ seq' = seq + 1
      /\ slots' = [slots EXCEPT ![head] =
           [seq |-> seq', sender |-> p.sender, content |-> p.content, kind |-> kind,
            copies |-> p.copies, opened |-> p.opened]]
      /\ head' = (head + 1) % Events
      /\ count' = IF count < Events THEN count + 1 ELSE count

(* bd_repeat_tick, one packet at a time, in the order of the slots.        *)
Due == {i \in Slots : open[i] # NONE /\ now - open[i].opened >= CopyWindow}

Tick ==
  /\ pc = "idle" /\ Due # {} /\ pc' = "tick"
  /\ UNCHANGED <<now, requests, frame, open, frames, sources, ring, reader, evicted>>

TickCloses ==
  /\ pc = "tick" /\ Due # {}
  /\ ClosePacket(open[First(Due)]) /\ open' = [open EXCEPT ![First(Due)] = NONE]
  /\ UNCHANGED <<now, requests, pc, frame, frames, reader>>

TickEnds ==
  /\ pc = "tick" /\ Due = {}
  /\ pc' = IF frame = NONE THEN "idle" ELSE "match"
  /\ UNCHANGED <<now, requests, frame, open, frames, sources, ring, reader, evicted>>

-----------------------------------------------------------------------------
(* bd_repeat_note, up to its tick: note_name makes an entry of its own.    *)
Note(f) ==
  /\ f.forward => f.content \in Forwarded
  /\ pc = "idle" /\ frames < MaxFrames /\ frames' = frames + 1
  /\ frame' = f /\ pc' = "tick"
  /\ IF f.content \in Names THEN Put(f.sender, SourceFor(f.sender))
                            ELSE UNCHANGED <<sources, evicted>>
  /\ UNCHANGED <<now, requests, open, ring, reader>>

Same(x) == x # NONE /\ x.sender = frame.sender /\ x.content = frame.content
More(copies) == IF copies < 255 THEN copies + 1 ELSE copies

(* The open packets a frame may be a copy of; it is one of the newest.     *)
MatchesMutant == {i \in Slots : ~frame.forward /\ Same(open[i]) /\ open[i].copies = 0}

Matches == {i \in Slots : ~frame.forward /\ Same(open[i])}

Newest == First({i \in Matches : \A j \in Matches : open[j].opened <= open[i].opened})

CopyOfOpen ==
  /\ open' = [open EXCEPT ![Newest].copies = More(@)]
  /\ UNCHANGED <<sources, ring, evicted>>

(* upgrade_reported_packet: the newest event first, and none that stands   *)
(* behind one from too long ago.                                           *)
Place(i) == (head - i) % Events
Late(i) == now - slots[Place(i)].opened > LateCopy

Upgradable ==
  {i \in 1..count : /\ Same(slots[Place(i)]) /\ slots[Place(i)].kind \in {"both", "direct"}
                    /\ \A j \in 1..i : ~Late(j)}

UpgradedMutant(s) == [s EXCEPT !.counts["both"] = @ + 1]

Upgraded(s) ==
  [s EXCEPT !.counts["direct"] = IF @ > 0 THEN @ - 1 ELSE @, !.counts["both"] = @ + 1]

UpgradeReported ==
  LET at == Place(First(Upgradable))
      s == SourceFor(frame.sender)
  IN  /\ IF slots[at].kind = "both"
           THEN /\ slots' = [slots EXCEPT ![at].copies = More(@)]
                /\ Put(frame.sender, [s EXCEPT !.extra = @ + 1])
           ELSE /\ slots' = [slots EXCEPT ![at].kind = "both", ![at].copies = 1]
                /\ Put(frame.sender, Upgraded(s))
      /\ UNCHANGED <<open, head, count, seq>>

(* Neither: a packet of its own, in a free slot or in the oldest one's,    *)
(* which is reported at once.                                              *)
Opened == [sender |-> frame.sender, content |-> frame.content, direct |-> frame.forward,
           copies |-> IF frame.forward THEN 0 ELSE 1, opened |-> now]

SlotFor ==
  LET free == {i \in Slots : open[i] = NONE}
  IN  IF free # {} THEN First(free)
      ELSE First({i \in Slots : \A j \in Slots : open[i].opened <= open[j].opened})

NewPacket ==
  /\ open' = [open EXCEPT ![SlotFor] = Opened]
  /\ IF open[SlotFor] = NONE THEN UNCHANGED <<sources, ring, evicted>>
                             ELSE ClosePacket(open[SlotFor])

Match ==
  /\ pc = "match" /\ pc' = "idle" /\ frame' = NONE
  /\ \/ Matches # {} /\ CopyOfOpen
     \/ Matches = {} /\ ~frame.forward /\ Upgradable # {} /\ UpgradeReported
     \/ Matches = {} /\ (frame.forward \/ Upgradable = {}) /\ NewPacket
  /\ UNCHANGED <<now, requests, frames, reader>>

-----------------------------------------------------------------------------
(* The HTTP server.  bd_repeat_write reads head and count once, then every *)
(* event under the lock.                                                   *)
InRing == {slots[Place(i)].seq : i \in 1..count}

Request == requests < MaxRequests /\ requests' = requests + 1

WriteBegins ==
  /\ Request /\ reader = NONE
  /\ reader' = [head |-> head, count |-> count, written |-> <<>>, since |-> InRing]
  /\ UNCHANGED <<now, radio, sources, ring, evicted>>

ReadAtMutant == slots[(head - count + Len(reader.written)) % Events]

ReadAt == slots[(reader.head - reader.count + Len(reader.written)) % Events]

WriteEvent ==
  /\ reader # NONE /\ Len(reader.written) < reader.count
  /\ reader' = [reader EXCEPT !.written = Append(@, ReadAt.seq)]
  /\ UNCHANGED <<now, requests, radio, sources, ring, evicted>>

WriteEnds ==
  /\ reader # NONE /\ Len(reader.written) = reader.count
  /\ reader' = NONE
  /\ UNCHANGED <<now, requests, radio, sources, ring, evicted>>

(* bd_repeat_reset; what is open stays, and so do the numbers.             *)
Reset ==
  /\ Request /\ sources' = [i \in Entries |-> NONE] /\ head' = 0 /\ count' = 0 /\ evicted' = FALSE
  /\ UNCHANGED <<now, radio, slots, seq, reader>>

(* Time matters from the first frame to the last; the task may be held for *)
(* long by an exchange with a sensor.                                      *)
Passes ==
  /\ pc = "idle" /\ frames > 0
  /\ frames < MaxFrames \/ \E i \in Slots : open[i] # NONE
  /\ now < MaxTime /\ now' = now + 1
  /\ UNCHANGED <<requests, radio, sources, ring, reader, evicted>>

Next ==
  \/ \E f \in Frame : Note(f)
  \/ Tick \/ TickCloses \/ TickEnds \/ Match
  \/ WriteBegins \/ WriteEvent \/ WriteEnds \/ Reset \/ Passes

Spec == Init /\ [][Next]_vars

-----------------------------------------------------------------------------
(* A copy of a packet that was heard directly is not taken for another     *)
(* packet in the minute after it; but where the events were not reported   *)
(* in the order of the packets, one from longer ago hides those behind it. *)
CopiesAreMatched ==
  \A i \in Slots, j \in 1..count :
    LET p == open[i]
        d == slots[Place(j)]
    IN  /\ p # NONE /\ ~p.direct /\ p.sender = d.sender /\ p.content = d.content
        /\ d.kind \in {"both", "direct"} /\ p.opened - d.opened \in 1..LateCopy
        => \E h \in 1..j : p.opened - slots[Place(h)].opened > LateCopy

(* The counts of a sender are those of its events, as long as neither the  *)
(* table nor the list was too small.                                       *)
EventsOf(s, kind) ==
  {i \in 1..count : slots[Place(i)].sender = s /\ slots[Place(i)].kind = kind}

ListsAgree ==
  ~evicted /\ count < Events =>
    \A i \in Entries : sources[i] # NONE =>
      \A kind \in Kinds : sources[i].counts[kind] = Cardinality(EventsOf(sources[i].sender, kind))

(* A list holds every event that was there from its beginning to its end,  *)
(* once, whatever is reported meanwhile.                                   *)
ListedOnce ==
  reader # NONE /\ Len(reader.written) = reader.count =>
    \A n \in reader.since \cap InRing :
      Cardinality({i \in 1..Len(reader.written) : reader.written[i] = n}) = 1
=============================================================================
