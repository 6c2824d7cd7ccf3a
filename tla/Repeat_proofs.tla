---------------------------- MODULE Repeat_proofs ----------------------------
(***************************************************************************)
(* Proofs about Repeat, for any number of senders, open packets, entries   *)
(* and events, and any lengths of time.                                    *)
(***************************************************************************)
EXTENDS Repeat, FiniteSetTheorems, SequenceTheorems, WellFoundedInduction, TLAPS

(* A set of numbers has a least one, and a bounded one a greatest; First   *)
(* and LastOf find them.                                                   *)
LEMMA HasLeast ==
  ASSUME NEW S \in SUBSET Nat, S # {}
  PROVE  \E i \in S : \A j \in S : i <= j
<1> DEFINE R == OpToRel(<, Nat)
<1>1. PICK x \in S : \A y \in S : <<y, x>> \notin R
  <2>1. IsWellFoundedOn(R, Nat)
    BY NatLessThanWellFounded
  <2> HIDE DEF R
  <2>2. QED BY <2>1, WFMin
<1>2. R = {ss \in Nat \X Nat : ss[1] < ss[2]}
  BY Zenon DEF OpToRel
<1> HIDE DEF R
<1>3. ASSUME NEW y \in S
      PROVE  x <= y
  <2>1. <<y, x>> \in Nat \X Nat /\ <<y, x>> \notin R
    BY <1>1
  <2>2. ~(y < x)
    BY <1>2, <2>1
  <2>3. QED BY <2>2
<1>4. QED BY <1>3

LEMMA FirstIsLeast ==
  ASSUME NEW S \in SUBSET Nat, S # {}
  PROVE  First(S) \in S /\ \A j \in S : First(S) <= j
BY HasLeast DEF First

LEMMA LastIsIn ==
  ASSUME NEW n \in Nat, NEW S \in SUBSET (1..n), S # {}
  PROVE  LastOf(S) \in S
<1> DEFINE T == {n - i : i \in S}
<1>1. \A i \in S : i \in Nat /\ n - i \in Nat
  OBVIOUS
<1>2. T \in SUBSET Nat /\ T # {}
  BY <1>1
<1>3. \E m \in T : \A j \in T : m <= j
  <2> HIDE DEF T
  <2>1. QED BY <1>2, HasLeast
<1>4. PICK i \in S : \A j \in T : n - i <= j
  BY <1>3
<1>5. ASSUME NEW j \in S
      PROVE  j <= i
  <2>1. n - i <= n - j
    BY <1>4
  <2>2. QED BY <1>1, <2>1
<1>6. QED BY <1>5 DEF LastOf

-----------------------------------------------------------------------------
(* The ring: where an index goes that falls below its start.               *)
LEMMA Wraps ==
  ASSUME NEW n \in -Events..(2 * Events - 1)
  PROVE  n % Events = IF n < 0 THEN n + Events ELSE IF n < Events THEN n ELSE n - Events
BY RepeatAssumption

LEMMA PlaceIs ==
  ASSUME NEW h \in 0..(Events - 1), NEW i \in 0..Events
  PROVE  /\ (h - i) % Events = IF h < i THEN h - i + Events ELSE h - i
         /\ (h - i) % Events \in 0..(Events - 1)
<1> DEFINE n == h - i
<1>1. n \in -Events..(2 * Events - 1)
  BY RepeatAssumption
<1> HIDE DEF n
<1>2. n % Events = IF n < 0 THEN n + Events ELSE IF n < Events THEN n ELSE n - Events
  BY <1>1, Wraps
<1>3. n = h - i
  BY DEF n
<1>4. QED BY <1>2, <1>3, RepeatAssumption

(* Two places at different distances from the head differ.                 *)
LEMMA Apart ==
  ASSUME NEW h \in 0..(Events - 1), NEW i \in 1..Events, NEW j \in 1..Events, i # j
  PROVE  (h - i) % Events # (h - j) % Events
<1>1. i \in 0..Events /\ j \in 0..Events
  BY RepeatAssumption
<1>2. /\ (h - i) % Events = IF h < i THEN h - i + Events ELSE h - i
      /\ (h - j) % Events = IF h < j THEN h - j + Events ELSE h - j
  BY <1>1, PlaceIs
<1>3. QED BY <1>2, RepeatAssumption

(* The head moves on: every place is one further from it.                  *)
LEMMA Further ==
  ASSUME NEW h \in 0..(Events - 1), NEW i \in 0..(Events - 1)
  PROVE  /\ (h + 1) % Events \in 0..(Events - 1)
         /\ (((h + 1) % Events) - (i + 1)) % Events = (h - i) % Events
         /\ i > 0 => (h - i) % Events # h
<1> DEFINE g == (h + 1) % Events
           k == i + 1
           n == h + 1
<1>1. g = IF h + 1 < Events THEN h + 1 ELSE 0
  <2>1. n \in -Events..(2 * Events - 1)
    BY RepeatAssumption
  <2> HIDE DEF n
  <2>2. n % Events = IF n < 0 THEN n + Events ELSE IF n < Events THEN n ELSE n - Events
    BY <2>1, Wraps
  <2>3. n = h + 1
    BY DEF n
  <2>4. QED BY <2>2, <2>3, RepeatAssumption
<1>2. g \in 0..(Events - 1) /\ i \in 0..Events /\ k \in 0..Events
  BY <1>1, RepeatAssumption
<1> HIDE DEF g
<1>3. /\ (h - i) % Events = IF h < i THEN h - i + Events ELSE h - i
      /\ (g - k) % Events = IF g < k THEN g - k + Events ELSE g - k
  BY <1>2, PlaceIs
<1>4. QED BY <1>1, <1>2, <1>3, RepeatAssumption DEF g

-----------------------------------------------------------------------------
(* The table: the entry of a sender is its own, or a free one if there is  *)
(* one.                                                                    *)
Table == sources \in [Entries -> Source \cup {NONE}]

LEMMA EntryIs ==
  ASSUME Table, NEW s
  PROVE  /\ EntryOf(s) \in Entries
         /\ Known(s) => sources[EntryOf(s)] # NONE /\ sources[EntryOf(s)].sender = s
         /\ ~Known(s) /\ (\E i \in Entries : sources[i] = NONE) => sources[EntryOf(s)] = NONE
<1> DEFINE own == {i \in Entries : sources[i] # NONE /\ sources[i].sender = s}
           free == {i \in Entries : sources[i] = NONE}
           oldest == {i \in Entries : \A j \in Entries : sources[i].last <= sources[j].last}
<1>1. /\ Sources \in Nat \ {0} /\ Entries \subseteq Nat /\ Entries # {} /\ Entries = 1..Sources
      /\ own \subseteq Entries /\ free \subseteq Entries /\ oldest \subseteq Entries
  BY RepeatAssumption DEF Entries
<1>2. EntryOf(s) = CASE own # {} -> First(own)
                     [] own = {} /\ free # {} -> LastOf(free)
                     [] OTHER -> First(oldest)
  BY DEF EntryOf
<1>3. Known(s) <=> own # {}
  BY DEF Known
<1>4. CASE own # {}
  <2>1. EntryOf(s) = First(own)
    BY <1>2, <1>4
  <2>2. First(own) \in own
    <3>1. own \in SUBSET Nat
      BY <1>1
    <3> HIDE DEF own
    <3>2. QED BY <1>4, <3>1, FirstIsLeast
  <2>3. QED BY <1>1, <1>3, <1>4, <2>1, <2>2
<1>5. CASE own = {} /\ free # {}
  <2>1. EntryOf(s) = LastOf(free)
    BY <1>2, <1>5
  <2>2. LastOf(free) \in free
    <3>1. free \in SUBSET (1..Sources)
      BY <1>1
    <3> HIDE DEF free
    <3>2. QED BY <1>1, <1>5, <3>1, LastIsIn
  <2>3. QED BY <1>1, <1>3, <1>5, <2>1, <2>2
<1>6. CASE own = {} /\ free = {}
  <2>1. EntryOf(s) = First(oldest)
    BY <1>2, <1>6
  <2>2. oldest # {}
    <3> DEFINE times == {sources[i].last : i \in Entries}
    <3>1. \A i \in Entries : sources[i].last \in Nat
      BY <1>6 DEF Table, Source
    <3>2. times \in SUBSET Nat /\ times # {}
      BY <1>1, <3>1
    <3>3. \E m \in times : \A j \in times : m <= j
      <4> HIDE DEF times
      <4>1. QED BY <3>2, HasLeast
    <3>4. QED BY <3>3
  <2>3. First(oldest) \in oldest
    <3>1. oldest \in SUBSET Nat
      BY <1>1
    <3> HIDE DEF oldest
    <3>2. QED BY <2>2, <3>1, FirstIsLeast
  <2>4. \A i \in Entries : sources[i] # NONE
    BY <1>6
  <2>5. QED BY <1>3, <1>6, <2>1, <2>3, <2>4
<1>7. QED BY <1>4, <1>5, <1>6

LEMMA SourceForIs ==
  ASSUME Table, NEW s \in Senders
  PROVE  SourceFor(s) \in Source /\ SourceFor(s).sender = s
<1>1. CASE Known(s)
  BY <1>1, EntryIs DEF SourceFor, Table
<1>2. CASE ~Known(s)
  BY <1>2 DEF SourceFor, Source, Kinds
<1>3. QED BY <1>1, <1>2

LEMMA PutTypes ==
  ASSUME Table, evicted \in BOOLEAN, NEW s, NEW entry \in Source, Put(s, entry)
  PROVE  Table' /\ evicted' \in BOOLEAN
BY DEF Put, Table, Entries

-----------------------------------------------------------------------------
(* What close_packet does to the list: the packet is its newest event, and *)
(* the others are one place further back.                                  *)
At(i) == slots[Place(i)]

LEMMA Closed ==
  ASSUME TypeOK, NEW p \in Packet, ClosePacket(p)
  PROVE  /\ slots' = [slots EXCEPT ![head] = slots'[head]]
         /\ slots'[head] \in Event /\ slots'[head].seq = seq + 1
         /\ slots'[head].sender = p.sender /\ slots'[head].content = p.content
         /\ slots'[head].opened = p.opened
         /\ slots'[head].kind \in {"both", "direct"} => p.direct
         /\ slots' \in [0..(Events - 1) -> Event \cup {NONE}]
         /\ seq' = seq + 1 /\ head' \in 0..(Events - 1)
         /\ count' = (IF count < Events THEN count + 1 ELSE count) /\ count' \in 1..Events
         /\ At(1)' = slots'[head]
         /\ \A j \in 1..(count' - 1) : At(j + 1)' = At(j)
<1> DEFINE s == SourceFor(p.sender)
           flags == s.flagTypes \cup (IF p.direct THEN {Type(p.content)} ELSE {})
           kind == KindOf(p, flags)
           e == [seq |-> seq + 1, sender |-> p.sender, content |-> p.content, kind |-> kind,
                 copies |-> p.copies, opened |-> p.opened]
<1>1. /\ Events \in Nat \ {0} /\ head \in 0..(Events - 1) /\ count \in 0..Events /\ seq \in Nat
      /\ slots \in [0..(Events - 1) -> Event \cup {NONE}]
  BY RepeatAssumption DEF TypeOK
<1>2. kind \in Kinds /\ (kind \in {"both", "direct"} => p.direct)
  BY DEF KindOf, Kinds
<1>3. /\ seq' = seq + 1 /\ slots' = [slots EXCEPT ![head] = e]
      /\ head' = (head + 1) % Events
      /\ count' = IF count < Events THEN count + 1 ELSE count
  BY DEF ClosePacket
<1>4. e \in Event
  BY <1>1, <1>2 DEF Event, Packet
<1> HIDE DEF e
<1>5. slots'[head] = e /\ slots' \in [0..(Events - 1) -> Event \cup {NONE}]
  BY <1>1, <1>3, <1>4
<1>6. head' \in 0..(Events - 1) /\ count' \in 1..Events
  BY <1>1, <1>3, Further
<1>7. Place(1)' = head
  <2>1. (head' - (0 + 1)) % Events = (head - 0) % Events
    BY <1>1, <1>3, Further
  <2>2. (head - 0) % Events = head
    BY <1>1, PlaceIs
  <2>3. QED BY <2>1, <2>2 DEF Place
<1>8. ASSUME NEW j \in 1..(count' - 1)
      PROVE  At(j + 1)' = At(j)
  <2>1. j \in 0..(Events - 1) /\ j > 0
    BY <1>1, <1>3
  <2>2. (head' - (j + 1)) % Events = (head - j) % Events /\ (head - j) % Events # head
    BY <1>1, <1>3, <2>1, Further
  <2>3. (head - j) % Events \in 0..(Events - 1)
    BY <1>1, <2>1, PlaceIs
  <2>4. QED BY <1>1, <1>3, <2>2, <2>3 DEF At, Place
<1>9. e.kind = kind /\ e.seq = seq + 1 /\ e.sender = p.sender /\ e.content = p.content
      /\ e.opened = p.opened
  BY DEF e
<1>10. QED BY <1>2, <1>3, <1>4, <1>5, <1>6, <1>7, <1>8, <1>9 DEF At

(* And to the table: one more event of its kind is counted for the sender. *)
LEMMA Counted ==
  ASSUME TypeOK, NEW p \in Packet, ClosePacket(p)
  PROVE  \E entry \in Source :
           /\ Put(p.sender, entry) /\ entry.sender = p.sender
           /\ entry.counts = [SourceFor(p.sender).counts EXCEPT ![slots'[head].kind] = @ + 1]
<1> DEFINE s == SourceFor(p.sender)
           flags == s.flagTypes \cup (IF p.direct THEN {Type(p.content)} ELSE {})
           kind == KindOf(p, flags)
           entry == [s EXCEPT !.flagTypes = flags, !.counts[kind] = @ + 1, !.last = p.opened,
                              !.extra = IF p.copies > 1 THEN @ + p.copies - 1 ELSE @]
<1>1. s \in Source /\ s.sender = p.sender
  BY SourceForIs DEF Packet, TypeOK, Table
<1>2. kind \in Kinds /\ flags \in SUBSET {"name", "data"}
  BY <1>1 DEF KindOf, Kinds, Source, Type
<1>3. p.opened \in Nat /\ p.copies \in 0..255
  BY DEF Packet
<1>4. Put(p.sender, entry)
  BY DEF ClosePacket
<1>5. slots'[head].kind = kind
  BY DEF ClosePacket, TypeOK
<1> HIDE DEF s, flags, kind
<1>6. /\ entry = [s EXCEPT !.flagTypes = flags, !.counts[kind] = @ + 1, !.last = p.opened,
                           !.extra = entry.extra]
      /\ entry.extra = IF p.copies > 1 THEN s.extra + p.copies - 1 ELSE s.extra
      /\ entry.sender = s.sender /\ entry.counts = [s.counts EXCEPT ![kind] = @ + 1]
  BY <1>1 DEF Source
<1>7. entry.extra \in Nat
  BY <1>1, <1>3, <1>6 DEF Source
<1>8. s.counts \in [Kinds -> Nat] /\ entry.counts \in [Kinds -> Nat]
  BY <1>1, <1>2, <1>6 DEF Source
<1>9. entry \in Source
  BY <1>1, <1>2, <1>3, <1>6, <1>7, <1>8 DEF Source
<1>10. QED BY <1>1, <1>4, <1>5, <1>6, <1>9 DEF s

-----------------------------------------------------------------------------
(* What is open was opened in the past; and where two packets are alike,   *)
(* one that came by a repeater first is not the later one, as it would     *)
(* have been taken for a copy of the other.                                *)
Alike(p, q) == p.sender = q.sender /\ p.content = q.content

OpenPast == \A i \in Slots : open[i] # NONE => open[i].opened <= now

OpenOnce ==
  \A i, k \in Slots :
    open[i] # NONE /\ open[k] # NONE /\ Alike(open[i], open[k]) /\ ~open[i].direct
      => open[i].opened <= open[k].opened

(* The slots the code takes are slots it may take.                         *)
LEMMA DueIs ==
  ASSUME TypeOK, Due # {}
  PROVE  First(Due) \in Slots /\ open[First(Due)] # NONE /\ open[First(Due)] \in Packet
<1>1. Due \in SUBSET Nat
  BY RepeatAssumption DEF Due, Slots
<1>2. First(Due) \in Due
  BY <1>1, FirstIsLeast
<1>3. QED BY <1>2 DEF Due, TypeOK

LEMMA NewestIs ==
  ASSUME TypeOK, OpenPast, Matches # {}
  PROVE  Newest \in Slots /\ Same(open[Newest]) /\ open[Newest] \in Packet
<1> DEFINE newest == {i \in Matches : \A j \in Matches : open[j].opened <= open[i].opened}
           ages == {now - open[i].opened : i \in Matches}
<1>1. \A i \in Matches : /\ i \in Nat /\ i \in Slots /\ Same(open[i]) /\ open[i] \in Packet
                         /\ open[i].opened \in Nat /\ now - open[i].opened \in Nat
  <2>1. TAKE i \in Matches
  <2>2. i \in Slots /\ Same(open[i]) /\ open[i] # NONE
    BY DEF Matches, Same
  <2>3. open[i] \in Packet
    BY <2>2 DEF TypeOK
  <2>4. open[i].opened \in Nat /\ open[i].opened <= now /\ now \in Nat
    BY <2>2, <2>3 DEF OpenPast, Packet, TypeOK
  <2>5. i \in Nat
    BY <2>2, RepeatAssumption DEF Slots
  <2>6. QED BY <2>2, <2>3, <2>4, <2>5
<1>2. ages \in SUBSET Nat /\ ages # {}
  BY <1>1
<1>3. \E m \in ages : \A a \in ages : m <= a
  <2> HIDE DEF ages
  <2>1. QED BY <1>2, HasLeast
<1>4. PICK i \in Matches : \A a \in ages : now - open[i].opened <= a
  BY <1>3
<1>5. ASSUME NEW j \in Matches
      PROVE  open[j].opened <= open[i].opened
  <2>1. now - open[i].opened <= now - open[j].opened
    BY <1>4
  <2>2. now \in Nat
    BY DEF TypeOK
  <2>3. QED BY <1>1, <2>1, <2>2
<1>6. newest # {} /\ newest \in SUBSET Nat
  BY <1>1, <1>5
<1>7. First(newest) \in newest
  <2> HIDE DEF newest
  <2>1. QED BY <1>6, FirstIsLeast
<1>8. QED BY <1>1, <1>7 DEF Newest

LEMMA SlotForIs ==
  ASSUME TypeOK
  PROVE  SlotFor \in Slots
<1> DEFINE free == {i \in Slots : open[i] = NONE}
           oldest == {i \in Slots : \A j \in Slots : open[i].opened <= open[j].opened}
<1>1. Slots \subseteq Nat /\ Slots # {}
  BY RepeatAssumption DEF Slots
<1>2. SlotFor = IF free # {} THEN First(free) ELSE First(oldest)
  BY DEF SlotFor
<1>3. CASE free # {}
  <2>1. free \in SUBSET Nat
    BY <1>1
  <2>2. First(free) \in free
    <3> HIDE DEF free
    <3>1. QED BY <1>3, <2>1, FirstIsLeast
  <2>3. QED BY <1>2, <1>3, <2>2
<1>4. CASE free = {}
  <2> DEFINE times == {open[i].opened : i \in Slots}
  <2>1. \A i \in Slots : open[i].opened \in Nat
    BY <1>4 DEF TypeOK, Packet
  <2>2. times \in SUBSET Nat /\ times # {}
    BY <1>1, <2>1
  <2>3. \E m \in times : \A j \in times : m <= j
    <3> HIDE DEF times
    <3>1. QED BY <2>2, HasLeast
  <2>4. oldest # {} /\ oldest \in SUBSET Nat
    <3>1. PICK i \in Slots : \A j \in times : open[i].opened <= j
      BY <2>3
    <3>2. i \in oldest
      BY <3>1
    <3>3. QED BY <1>1, <3>2
  <2>5. First(oldest) \in oldest
    <3> HIDE DEF oldest
    <3>1. QED BY <2>4, FirstIsLeast
  <2>6. QED BY <1>2, <1>4, <2>5
<1>5. QED BY <1>3, <1>4

LEMMA UpgradableIs ==
  ASSUME TypeOK, Upgradable # {}
  PROVE  LET i == First(Upgradable)
         IN  /\ i \in 1..count /\ Place(i) \in 0..(Events - 1) /\ Same(At(i)) /\ At(i) \in Event
             /\ At(i).kind \in {"both", "direct"}
<1> DEFINE i == First(Upgradable)
<1>1. Upgradable \in SUBSET Nat
  BY DEF Upgradable, TypeOK
<1>2. i \in Upgradable
  BY <1>1, FirstIsLeast
<1> HIDE DEF i
<1>3. i \in 1..count /\ Same(At(i)) /\ At(i).kind \in {"both", "direct"}
  BY <1>2 DEF Upgradable, At
<1>4. i \in 0..Events
  BY <1>3, RepeatAssumption DEF TypeOK
<1>5. Place(i) \in 0..(Events - 1)
  BY <1>4, PlaceIs DEF Place, TypeOK
<1>6. QED BY <1>3, <1>5 DEF i, At, Same, TypeOK

-----------------------------------------------------------------------------
(* The events of the ring are numbered down from the last, and no two      *)
(* slots hold the same number, not even those behind a reset.              *)
Numbered ==
  /\ \A p \in 0..(Events - 1) : slots[p] # NONE => slots[p].seq \in 1..seq
  /\ \A p, q \in 0..(Events - 1) :
       slots[p] # NONE /\ slots[q] # NONE /\ slots[p].seq = slots[q].seq => p = q
  /\ \A i \in 1..count : At(i) # NONE /\ At(i).seq = seq - i + 1

(* What a reader finds: it goes through the places of the events that were *)
(* there when it began, whose last number was base.  In each is that       *)
(* event, or a later one that took its place; and an event that was        *)
(* replaced before it was written is nowhere any more.                     *)
Position(r, k) == (r.head - (r.count - k + 1)) % Events
Number(r, base, k) == base - r.count + k

ListingOf(base) ==
  /\ Len(reader.written) <= reader.count
  /\ reader.since = {Number(reader, base, k) : k \in 1..reader.count}
  /\ \A k \in 1..reader.count :
       /\ slots[Position(reader, k)] # NONE
       /\ \/ slots[Position(reader, k)].seq = Number(reader, base, k)
          \/ /\ slots[Position(reader, k)].seq > base
             /\ \A p \in 0..(Events - 1) :
                  slots[p] # NONE => slots[p].seq # Number(reader, base, k)
  /\ \A k \in 1..Len(reader.written) :
       \/ reader.written[k] = Number(reader, base, k)
       \/ /\ reader.written[k] > base
          /\ \A p \in 0..(Events - 1) :
               slots[p] # NONE => slots[p].seq # Number(reader, base, k)

Listing == reader # NONE => \E base \in 0..seq : ListingOf(base)

LEMMA AtIs ==
  ASSUME TypeOK, NEW i \in 1..count
  PROVE  Place(i) \in 0..(Events - 1) /\ (At(i) # NONE => At(i) \in Event)
<1>1. i \in 0..Events /\ head \in 0..(Events - 1)
  BY RepeatAssumption DEF TypeOK
<1>2. Place(i) \in 0..(Events - 1)
  BY <1>1, PlaceIs DEF Place
<1>3. QED BY <1>2 DEF At, TypeOK

LEMMA PositionIs ==
  ASSUME TypeOK, reader # NONE, NEW k \in 1..reader.count
  PROVE  /\ Position(reader, k) \in 0..(Events - 1)
         /\ slots[Position(reader, k)] # NONE => slots[Position(reader, k)] \in Event
<1>1. reader \in Reading
  BY DEF TypeOK
<1>2. reader.head \in 0..(Events - 1) /\ reader.count - k + 1 \in 0..Events
  BY <1>1, RepeatAssumption DEF Reading
<1>3. Position(reader, k) \in 0..(Events - 1)
  BY <1>2, PlaceIs DEF Position
<1>4. QED BY <1>3 DEF TypeOK

(* The next one the reader reads.                                          *)
LEMMA NextRead ==
  ASSUME TypeOK, reader # NONE, Len(reader.written) < reader.count
  PROVE  LET k == Len(reader.written) + 1
         IN  k \in 1..reader.count /\ ReadAt = slots[Position(reader, k)]
<1> DEFINE k == Len(reader.written) + 1
<1>1. reader \in Reading
  BY DEF TypeOK
<1>2. /\ reader.head \in Nat /\ reader.count \in Nat /\ Len(reader.written) \in Nat
  BY <1>1, RepeatAssumption DEF Reading
<1>3. /\ k \in 1..reader.count
      /\ reader.head - (reader.count - k + 1) = reader.head - reader.count + Len(reader.written)
  BY <1>2
<1>4. QED BY <1>3 DEF ReadAt, Position

-----------------------------------------------------------------------------
(* The types.                                                              *)
TaskTypes ==
  /\ {now, frames, requests} \subseteq Nat /\ pc \in {"idle", "tick", "match"}
  /\ frame \in Frame \cup {NONE} /\ (pc = "match" => frame # NONE)

OpenTypes == open \in [Slots -> Packet \cup {NONE}]

ListTypes ==
  /\ slots \in [0..(Events - 1) -> Event \cup {NONE}]
  /\ head \in 0..(Events - 1) /\ count \in 0..Events /\ seq \in Nat

ReaderTypes == reader \in Reading \cup {NONE}

LEMMA Typed ==
  TypeOK <=> /\ TaskTypes /\ OpenTypes /\ Table /\ ListTypes /\ ReaderTypes
             /\ evicted \in BOOLEAN
BY DEF TypeOK, TaskTypes, OpenTypes, Table, ListTypes, ReaderTypes

LEMMA TaskTypesStep ==
  ASSUME TypeOK, [Next]_vars
  PROVE  TaskTypes'
<1> USE DEF TypeOK, TaskTypes
<1>1. CASE \E f \in Frame : Note(f)
  BY <1>1 DEF Note
<1>2. CASE Tick \/ TickCloses \/ TickEnds \/ Match
  BY <1>2 DEF Tick, TickCloses, TickEnds, Match
<1>3. CASE WriteBegins \/ WriteEvent \/ WriteEnds \/ Reset \/ Passes
  BY <1>3 DEF WriteBegins, WriteEvent, WriteEnds, Reset, Passes, Request, radio
<1>4. CASE UNCHANGED vars
  BY <1>4 DEF vars, radio
<1>5. QED BY <1>1, <1>2, <1>3, <1>4 DEF Next

LEMMA OpenTypesStep ==
  ASSUME TypeOK, OpenPast, [Next]_vars
  PROVE  OpenTypes'
<1>1. OpenTypes
  BY Typed
<1>2. CASE UNCHANGED open
  BY <1>1, <1>2 DEF OpenTypes, Slots
<1>3. CASE TickCloses
  BY <1>1, <1>3 DEF TickCloses, OpenTypes, Slots
<1>4. CASE Match
  <2>1. frame \in Frame /\ now \in Nat
    BY <1>4 DEF Match, TypeOK
  <2>2. CASE Matches # {} /\ CopyOfOpen
    <3> DEFINE n == Newest
               p == [open[n] EXCEPT !.copies = More(@)]
    <3>1. n \in Slots /\ open[n] \in Packet
      BY <2>2, NewestIs
    <3>2. open' = [open EXCEPT ![n] = p]
      BY <2>2 DEF CopyOfOpen
    <3> HIDE DEF n
    <3>3. More(open[n].copies) \in 0..255
      BY <3>1 DEF More, Packet
    <3>4. p \in Packet
      BY <3>1, <3>3 DEF Packet
    <3>5. QED BY <1>1, <3>1, <3>2, <3>4 DEF OpenTypes, Slots
  <2>3. CASE UpgradeReported
    BY <1>2, <2>3 DEF UpgradeReported
  <2>4. CASE NewPacket
    <3>1. Opened \in Packet
      BY <2>1 DEF Opened, Packet, Frame
    <3>2. open' = [open EXCEPT ![SlotFor] = Opened]
      BY <2>4 DEF NewPacket
    <3>3. QED BY <1>1, <3>1, <3>2, SlotForIs DEF OpenTypes, Slots
  <2>5. QED BY <1>4, <2>2, <2>3, <2>4 DEF Match
<1>5. CASE (\E f \in Frame : Note(f)) \/ Tick \/ TickEnds
  BY <1>2, <1>5 DEF Note, Tick, TickEnds
<1>6. CASE WriteBegins \/ WriteEvent \/ WriteEnds \/ Reset \/ Passes \/ UNCHANGED vars
  BY <1>2, <1>6 DEF WriteBegins, WriteEvent, WriteEnds, Reset, Passes, vars, radio
<1>7. QED BY <1>3, <1>4, <1>5, <1>6 DEF Next

(* What upgrade_reported_packet does: one event of the sender becomes one  *)
(* that was heard both ways, or has one more copy.                         *)
LEMMA Reported ==
  ASSUME TypeOK, frame # NONE, Upgradable # {}, UpgradeReported
  PROVE  LET at == Place(First(Upgradable))
         IN  /\ at \in 0..(Events - 1) /\ slots[at] \in Event /\ slots'[at] \in Event
             /\ slots[at].sender = frame.sender /\ slots[at].kind \in {"both", "direct"}
             /\ slots' = [slots EXCEPT ![at] = slots'[at]] /\ slots'[at].kind = "both"
             /\ slots'[at].seq = slots[at].seq /\ slots'[at].sender = slots[at].sender
             /\ slots'[at].content = slots[at].content /\ slots'[at].opened = slots[at].opened
             /\ UNCHANGED <<open, head, count, seq>>
<1> DEFINE at == Place(First(Upgradable))
<1>1. /\ at \in 0..(Events - 1) /\ slots[at] \in Event /\ slots[at].sender = frame.sender
      /\ slots[at].kind \in {"both", "direct"} /\ First(Upgradable) \in 1..count
  BY UpgradableIs DEF At, Same
<1>2. slots \in [0..(Events - 1) -> Event \cup {NONE}]
  BY DEF TypeOK
<1>3. UNCHANGED <<open, head, count, seq>>
  BY DEF UpgradeReported
<1>4. CASE slots[at].kind = "both"
  <2> DEFINE e == [slots[at] EXCEPT !.copies = More(@)]
  <2>1. slots' = [slots EXCEPT ![at] = e]
    BY <1>4 DEF UpgradeReported
  <2> HIDE DEF at
  <2>2. More(slots[at].copies) \in 0..255
    BY <1>1 DEF More, Event
  <2>3. /\ e \in Event /\ e.kind = "both" /\ e.seq = slots[at].seq /\ e.sender = slots[at].sender
        /\ e.content = slots[at].content /\ e.opened = slots[at].opened
    BY <1>1, <1>4, <2>2 DEF Event
  <2> HIDE DEF e
  <2>4. slots'[at] = e
    BY <1>1, <1>2, <2>1
  <2>5. QED BY <1>1, <1>3, <2>1, <2>3, <2>4 DEF at
<1>5. CASE slots[at].kind # "both"
  <2> DEFINE e == [slots[at] EXCEPT !.kind = "both", !.copies = 1]
  <2>1. slots' = [slots EXCEPT ![at].kind = "both", ![at].copies = 1]
    BY <1>5 DEF UpgradeReported
  <2> HIDE DEF at
  <2>2. slots' = [slots EXCEPT ![at] = e]
    BY <1>1, <1>2, <2>1 DEF Event
  <2>3. /\ e \in Event /\ e.kind = "both" /\ e.seq = slots[at].seq /\ e.sender = slots[at].sender
        /\ e.content = slots[at].content /\ e.opened = slots[at].opened
    <3>1. "both" \in Kinds /\ 1 \in 0..255
      BY DEF Kinds
    <3>2. QED BY <1>1, <3>1 DEF Event
  <2> HIDE DEF e
  <2>4. slots'[at] = e
    BY <1>1, <1>2, <2>2
  <2>5. QED BY <1>1, <1>3, <2>2, <2>3, <2>4 DEF at
<1>6. QED BY <1>4, <1>5

LEMMA Recounted ==
  ASSUME TypeOK, frame # NONE, Upgradable # {}, UpgradeReported
  PROVE  LET s == SourceFor(frame.sender)
             kind == slots[Place(First(Upgradable))].kind
         IN  \E entry \in Source :
               /\ Put(frame.sender, entry) /\ entry.sender = frame.sender
               /\ kind = "both" => entry.counts = s.counts
               /\ kind = "direct" =>
                    entry.counts = [s.counts EXCEPT !["direct"] = IF @ > 0 THEN @ - 1 ELSE @,
                                                    !["both"] = @ + 1]
<1> DEFINE s == SourceFor(frame.sender)
           at == Place(First(Upgradable))
<1>1. s \in Source /\ s.sender = frame.sender
  BY SourceForIs DEF TypeOK, Frame, Table
<1>2. slots[at].kind \in {"both", "direct"}
  BY UpgradableIs DEF At
<1>3. CASE slots[at].kind = "both"
  <2> DEFINE entry == [s EXCEPT !.extra = @ + 1]
  <2>1. Put(frame.sender, entry)
    BY <1>3 DEF UpgradeReported
  <2> HIDE DEF s, at
  <2>2. entry \in Source /\ entry.sender = frame.sender /\ entry.counts = s.counts
    BY <1>1 DEF Source
  <2>3. QED BY <1>3, <2>1, <2>2 DEF s, at
<1>4. CASE slots[at].kind = "direct"
  <2> DEFINE entry == Upgraded(s)
             counts == [s.counts EXCEPT !["direct"] = IF @ > 0 THEN @ - 1 ELSE @, !["both"] = @ + 1]
  <2>1. Put(frame.sender, entry)
    BY <1>4 DEF UpgradeReported
  <2> HIDE DEF s, at
  <2>2. s.counts \in [Kinds -> Nat]
    BY <1>1 DEF Source
  <2>3. counts \in [Kinds -> Nat]
    BY <2>2 DEF Kinds
  <2>4. entry = [s EXCEPT !.counts = counts]
    BY <1>1, <2>2 DEF Upgraded, Source, Kinds
  <2> HIDE DEF counts, entry
  <2>5. entry \in Source /\ entry.sender = frame.sender /\ entry.counts = counts
    BY <1>1, <2>3, <2>4 DEF Source
  <2>6. QED BY <1>4, <2>1, <2>5 DEF s, at, counts
<1>5. QED BY <1>2, <1>3, <1>4

LEMMA ListTypesStep ==
  ASSUME TypeOK, [Next]_vars
  PROVE  ListTypes'
<1>1. ListTypes
  BY Typed
<1>2. CASE UNCHANGED ring
  BY <1>1, <1>2 DEF ListTypes, ring
<1>3. ASSUME NEW p \in Packet, ClosePacket(p)
      PROVE  ListTypes'
  <2>1. /\ slots' \in [0..(Events - 1) -> Event \cup {NONE}]
        /\ seq' = seq + 1 /\ head' \in 0..(Events - 1) /\ count' \in 1..Events
    BY <1>3, Closed
  <2>2. seq' \in Nat /\ count' \in 0..Events
    BY <1>1, <2>1, RepeatAssumption DEF ListTypes
  <2>3. QED BY <2>1, <2>2 DEF ListTypes
<1>4. CASE TickCloses
  BY <1>3, <1>4, DueIs DEF TickCloses
<1>5. CASE Match
  <2>1. CASE CopyOfOpen
    BY <1>2, <2>1 DEF CopyOfOpen
  <2>2. CASE Upgradable # {} /\ UpgradeReported
    <3>1. frame # NONE
      BY <1>5 DEF Match, TypeOK
    <3>2. slots' \in [0..(Events - 1) -> Event \cup {NONE}] /\ UNCHANGED <<head, count, seq>>
      BY <1>1, <2>2, <3>1, Reported DEF ListTypes
    <3>3. QED BY <1>1, <3>2 DEF ListTypes
  <2>3. CASE NewPacket
    <3>1. CASE open[SlotFor] = NONE
      BY <1>2, <2>3, <3>1 DEF NewPacket
    <3>2. CASE open[SlotFor] # NONE
      BY <1>3, <2>3, <3>2, SlotForIs DEF NewPacket, TypeOK
    <3>3. QED BY <3>1, <3>2
  <2>4. QED BY <1>5, <2>1, <2>2, <2>3 DEF Match
<1>6. CASE Reset
  BY <1>1, <1>6, RepeatAssumption DEF Reset, ListTypes
<1>7. CASE (\E f \in Frame : Note(f)) \/ Tick \/ TickEnds
  BY <1>2, <1>7 DEF Note, Tick, TickEnds
<1>8. CASE WriteBegins \/ WriteEvent \/ WriteEnds \/ Passes \/ UNCHANGED vars
  BY <1>2, <1>8 DEF WriteBegins, WriteEvent, WriteEnds, Passes, vars
<1>9. QED BY <1>4, <1>5, <1>6, <1>7, <1>8 DEF Next

LEMMA TableTypesStep ==
  ASSUME TypeOK, [Next]_vars
  PROVE  Table' /\ evicted' \in BOOLEAN
<1>1. Table /\ evicted \in BOOLEAN
  BY Typed
<1>2. CASE UNCHANGED <<sources, evicted>>
  BY <1>1, <1>2 DEF Table, Entries
<1>3. ASSUME NEW p \in Packet, ClosePacket(p)
      PROVE  Table' /\ evicted' \in BOOLEAN
  BY <1>1, <1>3, Counted, PutTypes
<1>4. CASE TickCloses
  BY <1>3, <1>4, DueIs DEF TickCloses
<1>5. CASE Match
  <2>1. CASE CopyOfOpen
    BY <1>2, <2>1 DEF CopyOfOpen
  <2>2. CASE Upgradable # {} /\ UpgradeReported
    <3>1. frame # NONE
      BY <1>5 DEF Match, TypeOK
    <3>2. QED BY <1>1, <2>2, <3>1, Recounted, PutTypes
  <2>3. CASE NewPacket
    <3>1. CASE open[SlotFor] = NONE
      BY <1>2, <2>3, <3>1 DEF NewPacket
    <3>2. CASE open[SlotFor] # NONE
      BY <1>3, <2>3, <3>2, SlotForIs DEF NewPacket, TypeOK
    <3>3. QED BY <3>1, <3>2
  <2>4. QED BY <1>5, <2>1, <2>2, <2>3 DEF Match
<1>6. CASE Reset
  BY <1>6 DEF Reset, Table, Entries
<1>7. CASE \E f \in Frame : Note(f)
  <2>1. PICK f \in Frame : Note(f)
    BY <1>7
  <2>2. CASE f.content \in Names
    <3>1. SourceFor(f.sender) \in Source /\ Put(f.sender, SourceFor(f.sender))
      BY <1>1, <2>1, <2>2, SourceForIs DEF Note, Frame
    <3>2. QED BY <1>1, <3>1, PutTypes
  <2>3. CASE f.content \notin Names
    BY <1>2, <2>1, <2>3 DEF Note
  <2>4. QED BY <2>2, <2>3
<1>8. CASE Tick \/ TickEnds \/ WriteBegins \/ WriteEvent \/ WriteEnds \/ Passes \/ UNCHANGED vars
  BY <1>2, <1>8 DEF Tick, TickEnds, WriteBegins, WriteEvent, WriteEnds, Passes, vars
<1>9. QED BY <1>4, <1>5, <1>6, <1>7, <1>8 DEF Next

-----------------------------------------------------------------------------
(* Every step keeps the numbers: close_packet adds the next one, and an    *)
(* upgraded event keeps its own.                                           *)
LEMMA NumberedClose ==
  ASSUME TypeOK, Numbered, NEW packet \in Packet, ClosePacket(packet)
  PROVE  Numbered'
<1>1. /\ seq \in Nat /\ count \in 0..Events /\ head \in 0..(Events - 1) /\ Events \in Nat \ {0}
      /\ slots \in [0..(Events - 1) -> Event \cup {NONE}]
  BY RepeatAssumption DEF TypeOK
<1>2. /\ slots' = [slots EXCEPT ![head] = slots'[head]]
      /\ slots'[head] \in Event /\ slots'[head].seq = seq + 1 /\ seq' = seq + 1
      /\ count' = (IF count < Events THEN count + 1 ELSE count) /\ count' \in 1..Events
      /\ At(1)' = slots'[head]
      /\ \A j \in 1..(count' - 1) : At(j + 1)' = At(j)
  BY Closed
<1>3. \A p \in 0..(Events - 1) : p # head => slots'[p] = slots[p]
  BY <1>1, <1>2
<1>4. slots'[head] # NONE
  BY <1>2, NoneAssumption
<1>5. \A p \in 0..(Events - 1) : slots'[p] # NONE => slots'[p].seq \in 1..seq'
  <2>1. TAKE p \in 0..(Events - 1)
  <2>2. CASE p = head
    BY <1>1, <1>2, <2>2
  <2>3. CASE p # head
    BY <1>1, <1>2, <1>3, <2>3 DEF Numbered
  <2>4. QED BY <2>2, <2>3
<1>6. \A p, q \in 0..(Events - 1) :
        slots'[p] # NONE /\ slots'[q] # NONE /\ slots'[p].seq = slots'[q].seq => p = q
  <2>1. \A p \in 0..(Events - 1) : p # head /\ slots'[p] # NONE => slots'[p].seq # seq + 1
    BY <1>1, <1>3 DEF Numbered
  <2>2. QED BY <1>2, <1>3, <2>1 DEF Numbered
<1>7. ASSUME NEW i \in 1..count'
      PROVE  At(i)' # NONE /\ At(i)'.seq = seq' - i + 1
  <2>1. CASE i = 1
    BY <1>1, <1>2, <1>4, <2>1
  <2>2. CASE i # 1
    <3>1. PICK j \in 1..(count' - 1) : i = j + 1 /\ j \in 1..count
      <4>1. i - 1 \in 1..(count' - 1) /\ i = (i - 1) + 1 /\ i - 1 \in 1..count
        BY <1>1, <1>2, <2>2
      <4>2. QED BY <4>1
    <3>2. At(i)' = At(j)
      BY <1>2, <3>1
    <3>3. At(j) # NONE /\ At(j).seq = seq - j + 1
      BY <3>1 DEF Numbered
    <3>4. QED BY <1>1, <1>2, <3>1, <3>2, <3>3
  <2>3. QED BY <2>1, <2>2
<1>8. QED BY <1>5, <1>6, <1>7 DEF Numbered

LEMMA NumbersStay ==
  ASSUME TypeOK, frame # NONE, Upgradable # {}, UpgradeReported
  PROVE  /\ UNCHANGED <<open, head, count, seq>>
         /\ \A p \in 0..(Events - 1) :
              /\ slots'[p] # NONE <=> slots[p] # NONE
              /\ slots[p] # NONE => /\ slots'[p].seq = slots[p].seq
                                    /\ slots'[p].sender = slots[p].sender
                                    /\ slots'[p].content = slots[p].content
                                    /\ slots'[p].opened = slots[p].opened
                                    /\ slots'[p].kind \in {"both", "direct"} =>
                                         slots[p].kind \in {"both", "direct"}
<1> DEFINE at == Place(First(Upgradable))
<1>1. /\ at \in 0..(Events - 1) /\ slots[at] \in Event /\ slots'[at] \in Event
      /\ slots[at].kind \in {"both", "direct"}
      /\ slots' = [slots EXCEPT ![at] = slots'[at]]
      /\ slots'[at].seq = slots[at].seq /\ slots'[at].sender = slots[at].sender
      /\ slots'[at].content = slots[at].content /\ slots'[at].opened = slots[at].opened
      /\ UNCHANGED <<open, head, count, seq>>
  BY Reported
<1> HIDE DEF at
<1>2. slots[at] # NONE /\ slots'[at] # NONE
  BY <1>1, NoneAssumption
<1>3. \A p \in 0..(Events - 1) : p # at => slots'[p] = slots[p]
  BY <1>1 DEF TypeOK
<1>4. QED BY <1>1, <1>2, <1>3

(* The steps of the list: an event is added, one is upgraded, all are      *)
(* dropped, or nothing changes.                                            *)
LEMMA ListSteps ==
  ASSUME TypeOK, [Next]_vars
  PROVE  \/ UNCHANGED ring
         \/ \E p \in Packet : ClosePacket(p) /\ UNCHANGED reader
         \/ frame # NONE /\ Upgradable # {} /\ UpgradeReported /\ UNCHANGED reader
         \/ Reset
<1>1. CASE TickCloses
  BY <1>1, DueIs DEF TickCloses
<1>2. CASE Match
  <2>1. CASE CopyOfOpen
    BY <2>1 DEF CopyOfOpen
  <2>2. CASE Upgradable # {} /\ UpgradeReported
    BY <1>2, <2>2 DEF Match, TypeOK
  <2>3. CASE NewPacket
    <3>1. CASE open[SlotFor] = NONE
      BY <2>3, <3>1 DEF NewPacket
    <3>2. CASE open[SlotFor] # NONE
      BY <1>2, <2>3, <3>2, SlotForIs DEF NewPacket, Match, TypeOK
    <3>3. QED BY <3>1, <3>2
  <2>4. QED BY <1>2, <2>1, <2>2, <2>3 DEF Match
<1>3. CASE (\E f \in Frame : Note(f)) \/ Tick \/ TickEnds
  BY <1>3 DEF Note, Tick, TickEnds
<1>4. CASE WriteBegins \/ WriteEvent \/ WriteEnds \/ Passes \/ UNCHANGED vars
  BY <1>4 DEF WriteBegins, WriteEvent, WriteEnds, Passes, vars
<1>5. QED BY <1>1, <1>2, <1>3, <1>4 DEF Next

LEMMA NumberedStep ==
  ASSUME TypeOK, Numbered, [Next]_vars
  PROVE  Numbered'
<1>1. CASE UNCHANGED ring
  BY <1>1 DEF Numbered, ring, At, Place
<1>2. CASE \E p \in Packet : ClosePacket(p)
  BY <1>2, NumberedClose
<1>3. CASE frame # NONE /\ Upgradable # {} /\ UpgradeReported
  <2>1. /\ UNCHANGED <<head, count, seq>>
        /\ \A p \in 0..(Events - 1) :
              /\ slots'[p] # NONE <=> slots[p] # NONE
              /\ slots[p] # NONE => slots'[p].seq = slots[p].seq
    BY <1>3, NumbersStay
  <2>2. \A i \in 1..count : Place(i) \in 0..(Events - 1) /\ Place(i)' = Place(i)
    BY <2>1, AtIs DEF Place
  <2>3. QED BY <2>1, <2>2 DEF Numbered, At
<1>4. CASE Reset
  BY <1>4 DEF Reset, Numbered
<1>5. QED BY <1>1, <1>2, <1>3, <1>4, ListSteps

-----------------------------------------------------------------------------
(* The reader finds what it looks for, whatever is reported meanwhile.     *)
LEMMA ListingClose ==
  ASSUME TypeOK, Numbered, reader # NONE, NEW base \in 0..seq, ListingOf(base),
         NEW packet \in Packet, ClosePacket(packet), UNCHANGED reader
  PROVE  base \in 0..seq' /\ ListingOf(base)'
<1>1. /\ seq \in Nat /\ head \in 0..(Events - 1)
      /\ slots \in [0..(Events - 1) -> Event \cup {NONE}] /\ reader \in Reading
  BY DEF TypeOK
<1>2. /\ slots' = [slots EXCEPT ![head] = slots'[head]]
      /\ slots'[head] \in Event /\ slots'[head].seq = seq + 1 /\ seq' = seq + 1
  BY Closed
<1>3. slots'[head] # NONE /\ \A p \in 0..(Events - 1) : p # head => slots'[p] = slots[p]
  BY <1>1, <1>2, NoneAssumption
<1>4. \A k \in 1..reader.count : Number(reader, base, k) \in Int /\ Number(reader, base, k) <= base
  BY <1>1 DEF Number, Reading
<1>5. ASSUME NEW n \in Int, n <= base, \A p \in 0..(Events - 1) : slots[p] # NONE => slots[p].seq # n
      PROVE  \A p \in 0..(Events - 1) : slots'[p] # NONE => slots'[p].seq # n
  <2>1. slots'[head].seq # n
    BY <1>1, <1>2, <1>5
  <2>2. QED BY <1>3, <1>5, <2>1
<1>6. ASSUME NEW k \in 1..reader.count
      PROVE  /\ slots'[Position(reader, k)] # NONE
             /\ \/ slots'[Position(reader, k)].seq = Number(reader, base, k)
                \/ /\ slots'[Position(reader, k)].seq > base
                   /\ \A p \in 0..(Events - 1) :
                        slots'[p] # NONE => slots'[p].seq # Number(reader, base, k)
  <2> DEFINE q == Position(reader, k)
             n == Number(reader, base, k)
  <2>1. q \in 0..(Events - 1)
    BY PositionIs
  <2>2. /\ slots[q] # NONE
        /\ \/ slots[q].seq = n
           \/ slots[q].seq > base /\ \A p \in 0..(Events - 1) : slots[p] # NONE => slots[p].seq # n
    BY DEF ListingOf
  <2>3. n \in Int /\ n <= base
    BY <1>4
  <2> HIDE DEF q, n
  <2>4. CASE q # head
    BY <1>3, <1>5, <2>1, <2>2, <2>3, <2>4 DEF q, n
  <2>5. CASE q = head
    <3>1. slots'[q] # NONE /\ slots'[q].seq > base
      BY <1>1, <1>2, <1>3, <2>5
    <3>2. \A p \in 0..(Events - 1) : slots'[p] # NONE => slots'[p].seq # n
      <4>1. \A p \in 0..(Events - 1) : p # head /\ slots[p] # NONE => slots[p].seq # n
        BY <2>1, <2>2, <2>5 DEF Numbered
      <4>2. slots'[head].seq # n
        BY <1>1, <1>2, <2>3
      <4>3. QED BY <1>3, <4>1, <4>2
    <3>3. QED BY <3>1, <3>2 DEF q, n
  <2>6. QED BY <2>4, <2>5
<1>7. ASSUME NEW k \in 1..Len(reader.written)
      PROVE  \/ reader.written[k] = Number(reader, base, k)
             \/ /\ reader.written[k] > base
                /\ \A p \in 0..(Events - 1) :
                     slots'[p] # NONE => slots'[p].seq # Number(reader, base, k)
  <2>1. k \in 1..reader.count
    BY <1>1 DEF ListingOf, Reading
  <2>2. Number(reader, base, k) \in Int /\ Number(reader, base, k) <= base
    BY <1>4, <2>1
  <2>3. QED BY <1>5, <2>2 DEF ListingOf
<1>8. /\ Len(reader.written) <= reader.count
      /\ reader.since = {Number(reader, base, k) : k \in 1..reader.count}
  BY DEF ListingOf
<1>9. reader' = reader /\ base \in 0..seq'
  BY <1>1, <1>2
<1>10. QED
  BY <1>6, <1>7, <1>8, <1>9 DEF ListingOf, Position, Number

LEMMA ListingSame ==
  ASSUME TypeOK, reader # NONE, NEW base \in 0..seq, ListingOf(base), UNCHANGED <<reader, seq>>,
         \A p \in 0..(Events - 1) : /\ slots'[p] # NONE <=> slots[p] # NONE
                                    /\ slots[p] # NONE => slots'[p].seq = slots[p].seq
  PROVE  base \in 0..seq' /\ ListingOf(base)'
<1>1. /\ Len(reader.written) <= reader.count
      /\ reader.since = {Number(reader, base, k) : k \in 1..reader.count}
  BY DEF ListingOf
<1>2. ASSUME NEW k \in 1..reader.count
      PROVE  /\ slots'[Position(reader, k)] # NONE
             /\ \/ slots'[Position(reader, k)].seq = Number(reader, base, k)
                \/ /\ slots'[Position(reader, k)].seq > base
                   /\ \A p \in 0..(Events - 1) :
                        slots'[p] # NONE => slots'[p].seq # Number(reader, base, k)
  BY PositionIs DEF ListingOf
<1>3. ASSUME NEW k \in 1..Len(reader.written)
      PROVE  \/ reader.written[k] = Number(reader, base, k)
             \/ /\ reader.written[k] > base
                /\ \A p \in 0..(Events - 1) :
                     slots'[p] # NONE => slots'[p].seq # Number(reader, base, k)
  BY DEF ListingOf
<1>4. QED BY <1>1, <1>2, <1>3 DEF ListingOf, Position, Number

LEMMA ListingBegins ==
  ASSUME TypeOK, Numbered, WriteBegins, NEW base, base = seq
  PROVE  reader' \in Reading /\ ListingOf(base)'
<1>1. /\ seq \in Nat /\ head \in 0..(Events - 1) /\ count \in 0..Events
  BY DEF TypeOK
<1>2. /\ reader' = [head |-> head, count |-> count, written |-> <<>>, since |-> InRing]
      /\ UNCHANGED <<slots, head, count, seq>>
  BY DEF WriteBegins, ring
<1>3. reader'.head = head /\ reader'.count = count /\ reader'.written = <<>> /\ reader'.since = InRing
  BY <1>2
<1>4. ASSUME NEW k \in 1..count
      PROVE  /\ slots[Position(reader', k)] # NONE
             /\ slots[Position(reader', k)].seq = Number(reader', base, k)
             /\ Number(reader', base, k) \in InRing
  <2> DEFINE i == count - k + 1
  <2>1. i \in 1..count /\ seq - i + 1 = seq - count + k
    BY <1>1
  <2>2. At(i) # NONE /\ At(i).seq = seq - i + 1 /\ At(i).seq \in InRing
    BY <2>1 DEF Numbered, InRing, At
  <2>3. slots[Position(reader', k)] = At(i)
    BY <1>3 DEF Position, At, Place
  <2>4. QED BY <1>3, <2>1, <2>2, <2>3 DEF Number
<1>5. InRing = {Number(reader', base, k) : k \in 1..count}
  <2>1. ASSUME NEW n \in InRing
        PROVE  n \in {Number(reader', base, k) : k \in 1..count}
    <3>1. PICK i \in 1..count : n = At(i).seq
      BY DEF InRing, At
    <3>2. n = seq - i + 1
      BY <3>1 DEF Numbered
    <3>3. count - i + 1 \in 1..count /\ n = Number(reader', base, count - i + 1)
      BY <1>1, <1>3, <3>2 DEF Number
    <3>4. QED BY <3>3
  <2>2. QED BY <1>4, <2>1
<1>6. reader' \in Reading
  <2>1. InRing \in SUBSET Nat
    <3>1. \A i \in 1..count : At(i).seq \in Nat
      BY AtIs DEF Numbered, Event
    <3>2. QED BY <3>1 DEF InRing, At
  <2>2. <<>> \in Seq(Nat)
    OBVIOUS
  <2>3. QED BY <1>1, <1>2, <2>1, <2>2 DEF Reading
<1>7. Len(reader'.written) = 0 /\ Len(reader'.written) <= reader'.count
  BY <1>1, <1>3
<1>8. \A k \in 1..Len(reader'.written) : FALSE
  BY <1>7
<1>9. reader'.since = {Number(reader', base, k) : k \in 1..reader'.count}
  BY <1>3, <1>5
<1>10. \A k \in 1..reader'.count :
         /\ slots'[Position(reader', k)] # NONE
         /\ slots'[Position(reader', k)].seq = Number(reader', base, k)
  BY <1>2, <1>3, <1>4
<1>11. QED
  BY <1>6, <1>7, <1>8, <1>9, <1>10 DEF ListingOf, Position, Number

LEMMA ListingWrites ==
  ASSUME TypeOK, NEW base \in 0..seq, ListingOf(base), WriteEvent
  PROVE  reader' \in Reading /\ ListingOf(base)'
<1> DEFINE k == Len(reader.written) + 1
<1>1. reader # NONE /\ reader \in Reading /\ UNCHANGED slots
  BY DEF WriteEvent, TypeOK, ring
<1>2. k \in 1..reader.count /\ ReadAt = slots[Position(reader, k)]
  BY <1>1, NextRead DEF WriteEvent
<1>3. /\ slots[Position(reader, k)] # NONE
      /\ \/ slots[Position(reader, k)].seq = Number(reader, base, k)
         \/ /\ slots[Position(reader, k)].seq > base
            /\ \A p \in 0..(Events - 1) :
                 slots[p] # NONE => slots[p].seq # Number(reader, base, k)
  BY <1>2 DEF ListingOf
<1>4. ReadAt.seq \in Nat
  BY <1>1, <1>2, <1>3, PositionIs DEF Event
<1>5. reader.written \in Seq(Nat) /\ reader.count \in Nat
  BY <1>1, RepeatAssumption DEF Reading
<1>6. /\ Append(reader.written, ReadAt.seq) \in Seq(Nat)
      /\ Len(Append(reader.written, ReadAt.seq)) = k
      /\ Append(reader.written, ReadAt.seq)[k] = ReadAt.seq
      /\ \A j \in 1..Len(reader.written) : Append(reader.written, ReadAt.seq)[j] = reader.written[j]
  BY <1>4, <1>5
<1>7. reader' = [reader EXCEPT !.written = Append(@, ReadAt.seq)]
  BY DEF WriteEvent
<1>8. /\ reader'.written = Append(reader.written, ReadAt.seq)
      /\ reader'.head = reader.head /\ reader'.count = reader.count /\ reader'.since = reader.since
  BY <1>1, <1>7 DEF Reading
<1>9. reader' \in Reading
  BY <1>1, <1>6, <1>7 DEF Reading
<1>10. \A j \in 1..k : j = k \/ j \in 1..Len(reader.written)
  BY <1>5
<1>11. \A j : Position(reader', j) = Position(reader, j)
              /\ Number(reader', base, j) = Number(reader, base, j)
  BY <1>8 DEF Position, Number
<1>12. ASSUME NEW j \in 1..k
       PROVE  \/ reader'.written[j] = Number(reader, base, j)
              \/ /\ reader'.written[j] > base
                 /\ \A p \in 0..(Events - 1) :
                      slots[p] # NONE => slots[p].seq # Number(reader, base, j)
  <2>1. CASE j = k
    BY <1>2, <1>3, <1>6, <1>8, <2>1
  <2>2. CASE j \in 1..Len(reader.written)
    BY <1>6, <1>8, <2>2 DEF ListingOf
  <2>3. QED BY <1>10, <2>1, <2>2
<1> HIDE DEF k
<1>13. Len(reader'.written) = k /\ k <= reader'.count
  BY <1>2, <1>5, <1>6, <1>8
<1>14. /\ reader'.since = {Number(reader, base, j) : j \in 1..reader.count}
       /\ \A j \in 1..reader.count :
            /\ slots[Position(reader, j)] # NONE
            /\ \/ slots[Position(reader, j)].seq = Number(reader, base, j)
               \/ /\ slots[Position(reader, j)].seq > base
                  /\ \A p \in 0..(Events - 1) :
                       slots[p] # NONE => slots[p].seq # Number(reader, base, j)
  BY <1>8 DEF ListingOf
<1>15. QED
  BY <1>1, <1>8, <1>9, <1>11, <1>12, <1>13, <1>14 DEF ListingOf, Position, Number

-----------------------------------------------------------------------------
(* The open packets: one is closed, one has a copy more, one is opened, or *)
(* nothing changes.                                                        *)
Reopened ==
  /\ Match /\ (Matches = {} \/ frame.forward) /\ frame \in Frame /\ now' = now
  /\ SlotFor \in Slots /\ open' = [open EXCEPT ![SlotFor] = Opened]

OpenKept ==
  \A i \in Slots : open'[i] # NONE =>
    /\ open[i] # NONE
    /\ open'[i].sender = open[i].sender /\ open'[i].content = open[i].content
    /\ open'[i].direct = open[i].direct /\ open'[i].opened = open[i].opened

LEMMA OpenSteps ==
  ASSUME TypeOK, OpenPast, [Next]_vars
  PROVE  (OpenKept /\ now' >= now) \/ Reopened
<1>1. now \in Nat /\ open \in [Slots -> Packet \cup {NONE}]
  BY DEF TypeOK
<1>2. CASE UNCHANGED open
  <2>1. OpenKept
    BY <1>2 DEF OpenKept
  <2>2. now' \in {now, now + 1}
    <3>1. CASE (\E f \in Frame : Note(f)) \/ Tick \/ TickCloses \/ TickEnds \/ Match
      BY <3>1 DEF Note, Tick, TickCloses, TickEnds, Match
    <3>2. CASE WriteBegins \/ WriteEvent \/ WriteEnds \/ Reset \/ Passes \/ UNCHANGED vars
      BY <3>2 DEF WriteBegins, WriteEvent, WriteEnds, Reset, Passes, vars
    <3>3. QED BY <3>1, <3>2 DEF Next
  <2>3. QED BY <1>1, <2>1, <2>2
<1>3. CASE TickCloses
  BY <1>1, <1>3 DEF TickCloses, OpenKept
<1>4. CASE Match
  <2>1. now' = now /\ frame \in Frame
    BY <1>4 DEF Match, TypeOK
  <2>2. CASE Matches # {} /\ CopyOfOpen
    <3> DEFINE n == Newest
    <3>1. n \in Slots /\ open[n] \in Packet
      BY <2>2, NewestIs
    <3>2. open' = [open EXCEPT ![n] = [open[n] EXCEPT !.copies = More(@)]]
      BY <1>1, <2>2, <3>1 DEF CopyOfOpen
    <3> HIDE DEF n
    <3>3. open[n] # NONE
      BY <3>1, NoneAssumption
    <3>4. OpenKept
      BY <1>1, <3>1, <3>2, <3>3 DEF OpenKept, Packet
    <3>5. QED BY <1>1, <2>1, <3>4
  <2>3. CASE UpgradeReported
    BY <1>2, <2>3 DEF UpgradeReported
  <2>4. CASE Matches = {} /\ NewPacket
    BY <1>4, <2>1, <2>4, SlotForIs DEF NewPacket, Reopened
  <2>5. QED BY <1>4, <2>2, <2>3, <2>4 DEF Match
<1>5. CASE (\E f \in Frame : Note(f)) \/ Tick \/ TickEnds
  BY <1>2, <1>5 DEF Note, Tick, TickEnds
<1>6. CASE WriteBegins \/ WriteEvent \/ WriteEnds \/ Reset \/ Passes \/ UNCHANGED vars
  BY <1>2, <1>6 DEF WriteBegins, WriteEvent, WriteEnds, Reset, Passes, vars, radio
<1>7. QED BY <1>3, <1>4, <1>5, <1>6 DEF Next

LEMMA OpenStep ==
  ASSUME TypeOK, OpenPast, OpenOnce, [Next]_vars
  PROVE  OpenPast' /\ OpenOnce'
<1>1. now \in Nat /\ open \in [Slots -> Packet \cup {NONE}]
  BY DEF TypeOK
<1>2. \A i \in Slots : open[i] # NONE => open[i].opened \in Nat
  BY <1>1 DEF Packet
<1>3. CASE OpenKept /\ now' >= now
  <2>1. now' \in Nat
    BY TaskTypesStep DEF TaskTypes
  <2>2. OpenPast'
    BY <1>1, <1>2, <1>3, <2>1 DEF OpenKept, OpenPast, Slots
  <2>3. OpenOnce'
    BY <1>3 DEF OpenKept, OpenOnce, Alike, Slots
  <2>4. QED BY <2>2, <2>3
<1>4. CASE Reopened
  <2> DEFINE n == SlotFor
  <2>1. n \in Slots /\ open' = [open EXCEPT ![n] = Opened] /\ now' = now
    BY <1>4 DEF Reopened
  <2> HIDE DEF n
  <2>2. open'[n] = Opened /\ \A i \in Slots : i # n => open'[i] = open[i]
    BY <1>1, <2>1
  <2>3. /\ Opened.opened = now /\ Opened.direct = frame.forward
        /\ Opened.sender = frame.sender /\ Opened.content = frame.content
    BY DEF Opened
  <2>4. OpenPast'
    BY <1>1, <1>2, <2>1, <2>2, <2>3 DEF OpenPast, Slots
  <2>5. ASSUME NEW i \in Slots, i # n, open[i] # NONE, Alike(Opened, open[i]), ~Opened.direct
        PROVE  FALSE
    <3>1. i \in Matches
      BY <2>3, <2>5 DEF Matches, Same, Alike
    <3>2. QED BY <1>4, <2>3, <2>5, <3>1 DEF Reopened
  <2>6. ASSUME NEW i \in Slots, NEW k \in Slots, open'[i] # NONE, open'[k] # NONE,
               Alike(open'[i], open'[k]), ~open'[i].direct
        PROVE  open'[i].opened <= open'[k].opened
    <3>1. CASE i # n /\ k # n
      BY <2>2, <2>6, <3>1 DEF OpenOnce
    <3>2. CASE i # n /\ k = n
      BY <2>2, <2>3, <2>6, <3>2 DEF OpenPast
    <3>3. CASE i = n /\ k # n
      BY <2>2, <2>5, <2>6, <3>3
    <3>4. CASE i = n /\ k = n
      BY <1>1, <2>2, <2>3, <3>4
    <3>5. QED BY <3>1, <3>2, <3>3, <3>4
  <2>7. OpenOnce'
    BY <2>6 DEF OpenOnce, Alike, Slots
  <2>8. QED BY <2>4, <2>7
<1>5. QED BY <1>3, <1>4, OpenSteps

-----------------------------------------------------------------------------
LEMMA ReaderStep ==
  ASSUME TypeOK, Numbered, Listing, [Next]_vars
  PROVE  ReaderTypes' /\ Listing'
<1>1. reader \in Reading \cup {NONE} /\ seq \in Nat
  BY DEF TypeOK
<1>2. CASE reader' = NONE
  BY <1>2 DEF ReaderTypes, Listing
<1>3. CASE WriteBegins
  <2>1. PICK base : base = seq
    OBVIOUS
  <2>2. reader' \in Reading /\ ListingOf(base)'
    BY <1>3, <2>1, ListingBegins
  <2>3. base \in 0..seq'
    BY <1>1, <1>3, <2>1 DEF WriteBegins, ring
  <2>4. QED BY <2>2, <2>3 DEF ReaderTypes, Listing
<1>4. CASE WriteEvent
  <2>1. reader # NONE /\ seq' = seq
    BY <1>4 DEF WriteEvent, ring
  <2>2. PICK base \in 0..seq : ListingOf(base)
    BY <2>1 DEF Listing
  <2>3. QED BY <1>4, <2>1, <2>2, ListingWrites DEF ReaderTypes, Listing
<1>5. CASE reader # NONE /\ UNCHANGED reader
  <2>1. PICK base \in 0..seq : ListingOf(base)
    BY <1>5 DEF Listing
  <2>2. CASE UNCHANGED ring \/ Reset
    <3>1. UNCHANGED <<slots, seq>>
      BY <2>2 DEF ring, Reset
    <3>2. base \in 0..seq' /\ ListingOf(base)'
      BY <1>5, <2>1, <3>1, ListingSame
    <3>3. QED BY <1>1, <1>5, <3>2 DEF ReaderTypes, Listing
  <2>3. CASE \E p \in Packet : ClosePacket(p)
    <3>1. base \in 0..seq' /\ ListingOf(base)'
      BY <1>5, <2>1, <2>3, ListingClose
    <3>2. QED BY <1>1, <1>5, <3>1 DEF ReaderTypes, Listing
  <2>4. CASE frame # NONE /\ Upgradable # {} /\ UpgradeReported
    <3>1. base \in 0..seq' /\ ListingOf(base)'
      BY <1>5, <2>1, <2>4, ListingSame, NumbersStay
    <3>2. QED BY <1>1, <1>5, <3>1 DEF ReaderTypes, Listing
  <2>5. QED BY <2>2, <2>3, <2>4, ListSteps
<1>6. CASE UNCHANGED reader
  BY <1>1, <1>2, <1>5, <1>6
<1>7. CASE (\E f \in Frame : Note(f)) \/ Tick \/ TickCloses \/ TickEnds \/ Match
  BY <1>6, <1>7 DEF Note, Tick, TickCloses, TickEnds, Match
<1>8. CASE WriteEnds \/ Reset \/ Passes \/ UNCHANGED vars
  BY <1>2, <1>6, <1>8 DEF WriteEnds, Reset, Passes, vars
<1>9. QED BY <1>3, <1>4, <1>7, <1>8 DEF Next

(* What holds of the packets, the events and the reader in every state.    *)
Inv == TypeOK /\ OpenPast /\ OpenOnce /\ Numbered /\ Listing

LEMMA InvInit == Init => Inv
<1> SUFFICES ASSUME Init
             PROVE  Inv
  OBVIOUS
<1>1. Events \in Nat \ {0} /\ 0 \in 0..(Events - 1) /\ 0 \in 0..Events
  BY RepeatAssumption
<1>2. TypeOK
  <2>1. /\ open \in [Slots -> Packet \cup {NONE}] /\ sources \in [Entries -> Source \cup {NONE}]
        /\ slots \in [0..(Events - 1) -> Event \cup {NONE}]
    BY DEF Init
  <2>2. /\ now \in Nat /\ frames \in Nat /\ requests \in Nat /\ seq \in Nat
        /\ head \in 0..(Events - 1) /\ count \in 0..Events
    BY <1>1 DEF Init
  <2>3. /\ pc = "idle" /\ frame = NONE /\ reader = NONE /\ evicted = FALSE
    BY DEF Init
  <2>4. QED BY <2>1, <2>2, <2>3 DEF TypeOK
<1>3. OpenPast /\ OpenOnce
  BY DEF Init, OpenPast, OpenOnce
<1>4. Numbered /\ Listing
  BY DEF Init, Numbered, Listing
<1>5. QED BY <1>2, <1>3, <1>4 DEF Inv

LEMMA InvStep ==
  ASSUME Inv, [Next]_vars
  PROVE  Inv'
<1>1. TaskTypes' /\ OpenTypes' /\ Table' /\ ListTypes' /\ ReaderTypes' /\ evicted' \in BOOLEAN
  BY TaskTypesStep, OpenTypesStep, TableTypesStep, ListTypesStep, ReaderStep DEF Inv
<1>2. TypeOK'
  BY <1>1 DEF TypeOK, TaskTypes, OpenTypes, Table, ListTypes, ReaderTypes
<1>3. QED BY <1>2, OpenStep, NumberedStep, ReaderStep DEF Inv

LEMMA Invariance == Spec => []Inv
BY InvInit, InvStep, PTL DEF Spec

(* The types: the slots, entries and events hold what they should, whether *)
(* the table or the list is full or not.                                   *)
THEOREM TypeCorrect == Spec => []TypeOK
<1>1. Inv => TypeOK
  BY DEF Inv
<1>2. QED BY <1>1, Invariance, PTL

(* A list that bd_repeat_write sends, one event at a time, holds each      *)
(* event that was there from its beginning to its end exactly once.        *)
THEOREM EachListedOnce == Spec => []ListedOnce
<1>1. Inv => ListedOnce
  <2> SUFFICES ASSUME Inv, reader # NONE, Len(reader.written) = reader.count,
                      NEW n \in reader.since \cap InRing
               PROVE  Cardinality({i \in 1..Len(reader.written) : reader.written[i] = n}) = 1
    BY DEF ListedOnce
  <2>1. reader \in Reading
    BY DEF Inv, TypeOK
  <2>2. PICK base \in 0..seq : ListingOf(base)
    BY DEF Inv, Listing
  <2>3. PICK k \in 1..reader.count : n = Number(reader, base, k)
    BY <2>2 DEF ListingOf
  <2>4. \A j \in 1..reader.count :
          /\ Number(reader, base, j) \in Int /\ Number(reader, base, j) <= base
          /\ Number(reader, base, j) = Number(reader, base, k) => j = k
    BY <2>1 DEF Number, Reading
  <2>5. PICK i \in 1..count : n = At(i).seq
    BY DEF InRing, At
  <2>6. Place(i) \in 0..(Events - 1) /\ slots[Place(i)] # NONE /\ slots[Place(i)].seq = n
    BY <2>5, AtIs DEF Inv, Numbered, At
  <2>7. reader.written[k] = n
    BY <2>1, <2>2, <2>3, <2>6 DEF ListingOf
  <2>8. ASSUME NEW j \in 1..reader.count, reader.written[j] = n
        PROVE  j = k
    <3>1. reader.written[j] = Number(reader, base, j) \/ reader.written[j] > base
      BY <2>2 DEF ListingOf
    <3>2. QED BY <2>3, <2>4, <2>8, <3>1
  <2>9. {j \in 1..Len(reader.written) : reader.written[j] = n} = {k}
    BY <2>7, <2>8
  <2>10. QED BY <2>9, FS_Singleton
<1>2. QED BY <1>1, Invariance, PTL

-----------------------------------------------------------------------------
(* Why a copy is matched: when its packet was opened nothing was found     *)
(* that it could be a copy of, and what is reported later of the same kind *)
(* was opened later.                                                       *)
Hidden(p, j) == \E h \in 1..j : p.opened - At(h).opened > LateCopy

MatchedFor(p) ==
  ~p.direct => \A j \in 1..count :
    /\ Alike(p, At(j)) /\ At(j).kind \in {"both", "direct"}
    /\ p.opened - At(j).opened \in 1..LateCopy
    => Hidden(p, j)

LEMMA MatchedIs ==
  CopiesAreMatched <=> \A i \in Slots : open[i] # NONE => MatchedFor(open[i])
BY DEF CopiesAreMatched, MatchedFor, Hidden, Alike, At

LEMMA MatchedSame ==
  ASSUME TypeOK, NEW p, MatchedFor(p), UNCHANGED <<head, count>>,
         \A j \in 1..count :
           /\ At(j)'.sender = At(j).sender /\ At(j)'.content = At(j).content
           /\ At(j)'.opened = At(j).opened
           /\ At(j)'.kind \in {"both", "direct"} => At(j).kind \in {"both", "direct"}
  PROVE  MatchedFor(p)'
<1> SUFFICES ASSUME ~p.direct, NEW j \in 1..count, Alike(p, At(j)'), At(j)'.kind \in {"both", "direct"},
                    p.opened - At(j)'.opened \in 1..LateCopy
             PROVE  \E h \in 1..j : p.opened - At(h)'.opened > LateCopy
  BY DEF MatchedFor, Hidden, Alike, At, Place
<1>1. Hidden(p, j)
  BY DEF MatchedFor, Alike
<1>2. PICK h \in 1..j : p.opened - At(h).opened > LateCopy
  BY <1>1 DEF Hidden
<1>3. h \in 1..count
  BY DEF TypeOK
<1>4. QED BY <1>2, <1>3

LEMMA MatchedCloses ==
  ASSUME TypeOK, NEW p \in Packet, MatchedFor(p), NEW q \in Packet, ClosePacket(q),
         ~p.direct /\ q.direct /\ Alike(p, q) => p.opened <= q.opened
  PROVE  MatchedFor(p)'
<1>1. /\ At(1)' = slots'[head]
      /\ slots'[head].sender = q.sender /\ slots'[head].content = q.content
      /\ slots'[head].opened = q.opened
      /\ slots'[head].kind \in {"both", "direct"} => q.direct
      /\ count' = (IF count < Events THEN count + 1 ELSE count) /\ count' \in 1..Events
      /\ \A j \in 1..(count' - 1) : At(j + 1)' = At(j)
  BY Closed
<1>2. count \in Nat /\ Events \in Nat /\ p.opened \in Nat /\ q.opened \in Nat
  BY RepeatAssumption DEF TypeOK, Packet
<1> SUFFICES ASSUME ~p.direct, NEW j \in 1..count', Alike(p, At(j)'), At(j)'.kind \in {"both", "direct"},
                    p.opened - At(j)'.opened \in 1..LateCopy
             PROVE  \E h \in 1..j : p.opened - At(h)'.opened > LateCopy
  BY DEF MatchedFor, Hidden, Alike, At, Place
<1>3. CASE j = 1
  <2>1. p.opened <= q.opened /\ p.opened - q.opened \in 1..LateCopy
    BY <1>1, <1>3 DEF Alike
  <2>2. QED BY <1>2, <2>1
<1>4. CASE j # 1
  <2>1. PICK i \in 1..(count' - 1) : j = i + 1 /\ i \in 1..count
    <3>1. j - 1 \in 1..(count' - 1) /\ j = (j - 1) + 1 /\ j - 1 \in 1..count
      BY <1>1, <1>2, <1>4
    <3>2. QED BY <3>1
  <2>2. At(j)' = At(i)
    BY <1>1, <2>1
  <2>3. Hidden(p, i)
    BY <2>1, <2>2 DEF MatchedFor
  <2>4. PICK h \in 1..i : p.opened - At(h).opened > LateCopy
    BY <2>3 DEF Hidden
  <2>5. h \in 1..(count' - 1) /\ h + 1 \in 1..j
    BY <1>1, <1>2, <2>1
  <2>6. At(h + 1)' = At(h)
    BY <1>1, <2>5
  <2>7. QED BY <2>4, <2>5, <2>6
<1>5. QED BY <1>3, <1>4

(* The packet that is closed is one of the open ones.                      *)
LEMMA MatchedStep ==
  ASSUME Inv, CopiesAreMatched, [Next]_vars
  PROVE  CopiesAreMatched'
<1> SUFFICES ASSUME NEW i \in Slots, NEW p, p = open'[i], p # NONE
             PROVE  MatchedFor(p)'
  BY DEF CopiesAreMatched, MatchedFor, Hidden, Alike, At, Place, Slots
<1>1. TypeOK /\ OpenPast /\ OpenOnce /\ Numbered /\ OpenTypes'
  BY OpenTypesStep DEF Inv
<1>2. p \in Packet
  BY <1>1 DEF OpenTypes, Slots
<1>3. /\ open[i] # NONE /\ p.direct = open[i].direct /\ p.opened = open[i].opened
      /\ Alike(p, open[i])
      => MatchedFor(p)
  <2>1. open[i] # NONE => MatchedFor(open[i])
    BY MatchedIs
  <2>2. QED BY <2>1 DEF MatchedFor, Hidden, Alike
<1>4. ASSUME OpenKept, NEW k \in Slots, open[k] \in Packet, open[k] # NONE, ClosePacket(open[k])
      PROVE  MatchedFor(p)'
  <2>1. MatchedFor(p) /\ open[i] # NONE /\ p.direct = open[i].direct /\ p.opened = open[i].opened
        /\ Alike(p, open[i])
    BY <1>3, <1>4 DEF OpenKept, Alike
  <2>2. ~p.direct /\ Alike(p, open[k]) => p.opened <= open[k].opened
    BY <1>1, <1>4, <2>1 DEF OpenOnce, Alike
  <2>3. QED BY <1>1, <1>2, <1>4, <2>1, <2>2, MatchedCloses
<1>5. CASE UNCHANGED ring /\ OpenKept
  <2>1. MatchedFor(p)
    BY <1>3, <1>5 DEF OpenKept, Alike
  <2>2. QED BY <1>1, <1>5, <2>1, MatchedSame DEF ring, At, Place
<1>6. CASE TickCloses
  <2>1. OpenKept
    BY <1>1, <1>6 DEF TickCloses, OpenKept, TypeOK
  <2>2. QED BY <1>1, <1>4, <1>6, <2>1, DueIs DEF TickCloses
<1>7. CASE Match
  <2>1. frame \in Frame /\ frame # NONE /\ now \in Nat /\ now' = now
    BY <1>1, <1>7 DEF Match, TypeOK
  <2>2. CASE Matches # {} /\ CopyOfOpen
    <3>1. UNCHANGED ring /\ ~(Matches = {} \/ frame.forward)
      BY <2>2 DEF CopyOfOpen, Matches
    <3>2. OpenKept
      BY <1>1, <3>1, OpenSteps DEF Reopened
    <3>3. QED BY <1>5, <3>1, <3>2
  <2>3. CASE Upgradable # {} /\ UpgradeReported
    <3>1. /\ UNCHANGED <<open, head, count>>
          /\ \A s \in 0..(Events - 1) : slots[s] # NONE =>
               /\ slots'[s].sender = slots[s].sender /\ slots'[s].content = slots[s].content
               /\ slots'[s].opened = slots[s].opened
               /\ slots'[s].kind \in {"both", "direct"} => slots[s].kind \in {"both", "direct"}
      BY <1>1, <2>1, <2>3, NumbersStay
    <3>2. \A j \in 1..count :
            /\ At(j)'.sender = At(j).sender /\ At(j)'.content = At(j).content
            /\ At(j)'.opened = At(j).opened
            /\ At(j)'.kind \in {"both", "direct"} => At(j).kind \in {"both", "direct"}
      BY <1>1, <3>1, AtIs DEF At, Place, Numbered
    <3>3. MatchedFor(p)
      BY <1>3, <3>1 DEF Alike
    <3>4. QED BY <1>1, <3>1, <3>2, <3>3, MatchedSame
  <2>4. CASE Matches = {} /\ (frame.forward \/ Upgradable = {}) /\ NewPacket
    <3> DEFINE n == SlotFor
    <3>1. n \in Slots /\ open' = [open EXCEPT ![n] = Opened]
      BY <1>1, <2>4, SlotForIs DEF NewPacket
    <3>2. IF open[n] = NONE THEN UNCHANGED ring ELSE ClosePacket(open[n])
      BY <2>4 DEF NewPacket
    <3> HIDE DEF n
    <3>3. /\ Opened.opened = now /\ Opened.direct = frame.forward
          /\ Opened.sender = frame.sender /\ Opened.content = frame.content
      BY DEF Opened
    <3>4. open[n] # NONE => open[n] \in Packet
      BY <1>1, <3>1 DEF TypeOK
    <3>5. MatchedFor(p)
      <4>1. CASE i # n
        BY <1>1, <1>3, <3>1, <4>1 DEF Alike, TypeOK
      <4>2. CASE i = n
        <5>1. p = Opened
          BY <1>1, <3>1, <4>2 DEF TypeOK
        <5> SUFFICES ASSUME ~p.direct, NEW j \in 1..count, Alike(p, At(j)),
                            At(j).kind \in {"both", "direct"}
                     PROVE  Hidden(p, j)
          BY DEF MatchedFor
        <5>2. Same(At(j)) /\ Upgradable = {}
          BY <1>1, <2>4, <3>3, <5>1 DEF Same, Alike, Numbered
        <5>3. PICK h \in 1..j : Late(h)
          BY <5>2 DEF Upgradable, At
        <5>4. QED BY <3>3, <5>1, <5>3 DEF Late, Hidden, At
      <4>3. QED BY <4>1, <4>2
    <3>6. CASE open[n] = NONE
      BY <1>1, <3>2, <3>5, <3>6, MatchedSame DEF ring, At, Place
    <3>7. CASE open[n] # NONE
      <4>1. ~p.direct /\ open[n].direct /\ Alike(p, open[n]) => p.opened <= open[n].opened
        <5>1. CASE i # n
          <6>1. p = open[i]
            BY <1>1, <3>1, <5>1 DEF TypeOK
          <6>2. QED BY <1>1, <3>1, <3>7, <6>1 DEF OpenOnce
        <5>2. CASE i = n
          <6>1. p = Opened
            BY <1>1, <3>1, <5>2 DEF TypeOK
          <6>2. ~p.direct /\ Alike(p, open[n]) => n \in Matches
            BY <3>1, <3>3, <3>7, <6>1 DEF Matches, Same, Alike
          <6>3. QED BY <2>4, <6>2
        <5>3. QED BY <5>1, <5>2
      <4>2. QED BY <1>1, <1>2, <3>2, <3>4, <3>5, <3>7, <4>1, MatchedCloses
    <3>8. QED BY <3>6, <3>7
  <2>5. QED BY <1>7, <2>2, <2>3, <2>4 DEF Match
<1>8. CASE Reset
  <2>1. count' = 0
    BY <1>8 DEF Reset
  <2>2. QED BY <2>1 DEF MatchedFor
<1>9. CASE (\E f \in Frame : Note(f)) \/ Tick \/ TickEnds
  BY <1>5, <1>9 DEF Note, Tick, TickEnds, OpenKept
<1>10. CASE WriteBegins \/ WriteEvent \/ WriteEnds \/ Passes \/ UNCHANGED vars
  BY <1>5, <1>10 DEF WriteBegins, WriteEvent, WriteEnds, Passes, vars, radio, OpenKept
<1>11. QED BY <1>6, <1>7, <1>8, <1>9, <1>10 DEF Next

(* A copy that a repeater sends of a packet that was heard directly is     *)
(* matched with it (bd_repeat_note, upgrade_reported_packet), unless it is *)
(* behind an event of longer ago.                                          *)
THEOREM CopiesMatched == Spec => []CopiesAreMatched
<1>1. Init => CopiesAreMatched
  BY DEF Init, CopiesAreMatched
<1>2. Inv /\ CopiesAreMatched /\ [Next]_vars => CopiesAreMatched'
  BY MatchedStep
<1>3. QED BY <1>1, <1>2, Invariance, PTL DEF Spec

-----------------------------------------------------------------------------
(* The counts.  A sender has one entry, and what its entry counts of a     *)
(* kind, nothing when it has none, are its events of that kind.            *)
OneEntryEach ==
  \A i, j \in Entries :
    sources[i] # NONE /\ sources[j] # NONE /\ sources[i].sender = sources[j].sender => i = j

Tallied ==
  ~evicted /\ count < Events =>
    \A s \in Senders, kind \in Kinds : SourceFor(s).counts[kind] = Cardinality(EventsOf(s, kind))

NoEntry(s) ==
  [sender |-> s, flagTypes |-> {}, counts |-> [k \in Kinds |-> 0], extra |-> 0, last |-> 0]

(* What is known of a sender is in its only entry, or nothing.             *)
LEMMA Looked ==
  Table /\ OneEntryEach =>
    /\ \A s : \A i \in Entries : sources[i] # NONE /\ sources[i].sender = s => SourceFor(s) = sources[i]
    /\ \A s : (\A i \in Entries : sources[i] # NONE => sources[i].sender # s)
              => SourceFor(s) = NoEntry(s)
<1> SUFFICES ASSUME Table, OneEntryEach
             PROVE  /\ \A s : \A i \in Entries : sources[i] # NONE /\ sources[i].sender = s => SourceFor(s) = sources[i]
                    /\ \A s : (\A i \in Entries : sources[i] # NONE => sources[i].sender # s)
                              => SourceFor(s) = NoEntry(s)
  OBVIOUS
<1>1. ASSUME NEW s, NEW i \in Entries, sources[i] # NONE, sources[i].sender = s
      PROVE  SourceFor(s) = sources[i]
  <2>1. Known(s)
    BY <1>1 DEF Known
  <2>2. EntryOf(s) \in Entries /\ sources[EntryOf(s)] # NONE /\ sources[EntryOf(s)].sender = s
    BY <2>1, EntryIs
  <2>3. EntryOf(s) = i
    BY <1>1, <2>2 DEF OneEntryEach
  <2>4. QED BY <2>1, <2>3 DEF SourceFor
<1>2. ASSUME NEW s, \A i \in Entries : sources[i] # NONE => sources[i].sender # s
      PROVE  SourceFor(s) = NoEntry(s)
  BY <1>2 DEF SourceFor, Known, NoEntry
<1>3. QED BY <1>1, <1>2

LEMMA LookedNext ==
  (Table /\ OneEntryEach)' =>
    (/\ \A s : \A i \in Entries : sources[i] # NONE /\ sources[i].sender = s => SourceFor(s) = sources[i]
     /\ \A s : (\A i \in Entries : sources[i] # NONE => sources[i].sender # s)
               => SourceFor(s) = NoEntry(s))'
BY Looked, PTL

(* An entry is put in for its own sender only, and none is lost unless the *)
(* table was too small.                                                    *)
LEMMA PutEntry ==
  ASSUME Table, OneEntryEach, evicted \in BOOLEAN, NEW s, NEW entry \in Source, entry.sender = s,
         Put(s, entry)
  PROVE  /\ Table' /\ OneEntryEach' /\ (~evicted' => ~evicted)
         /\ ~evicted' => /\ SourceFor(s)' = entry
                         /\ \A t : t # s => SourceFor(t)' = SourceFor(t)
<1> DEFINE n == EntryOf(s)
<1>1. /\ n \in Entries
      /\ sources' = [sources EXCEPT ![n] = entry]
      /\ evicted' = (evicted \/ (~Known(s) /\ sources[n] # NONE))
  BY EntryIs DEF Put
<1>2. Known(s) => sources[n] # NONE /\ sources[n].sender = s
  BY EntryIs
<1> HIDE DEF n
<1>3. /\ sources'[n] = entry /\ entry # NONE
      /\ \A i \in Entries : i # n => sources'[i] = sources[i]
  BY <1>1, NoneAssumption DEF Table
<1>4. Table' /\ (~evicted' => ~evicted)
  BY <1>1, PutTypes
<1>5. \A i \in Entries : i # n /\ sources[i] # NONE => sources[i].sender # s
  BY <1>1, <1>2 DEF OneEntryEach, Known
<1>6. OneEntryEach'
  BY <1>3, <1>5 DEF OneEntryEach, Entries
<1>7. /\ \A t : \A i \in Entries :
           sources'[i] # NONE /\ sources'[i].sender = t => SourceFor(t)' = sources'[i]
      /\ \A t : (\A i \in Entries : sources'[i] # NONE => sources'[i].sender # t)
                => SourceFor(t)' = NoEntry(t)
  BY <1>4, <1>6, LookedNext DEF Entries, NoEntry
<1>8. SourceFor(s)' = entry
  BY <1>1, <1>3, <1>7
<1>9. ASSUME ~evicted', NEW t, t # s
      PROVE  SourceFor(t)' = SourceFor(t)
  <2>1. sources[n] = NONE \/ sources[n].sender = s
    BY <1>1, <1>2, <1>9
  <2>2. CASE \E i \in Entries : sources[i] # NONE /\ sources[i].sender = t
    <3>1. PICK i \in Entries : sources[i] # NONE /\ sources[i].sender = t
      BY <2>2
    <3>2. i # n /\ sources'[i] = sources[i]
      BY <1>3, <1>9, <2>1, <3>1
    <3>3. SourceFor(t) = sources[i]
      BY <3>1, Looked
    <3>4. SourceFor(t)' = sources'[i]
      BY <1>7, <3>1, <3>2
    <3>5. QED BY <3>2, <3>3, <3>4
  <2>3. CASE \A i \in Entries : sources[i] # NONE => sources[i].sender # t
    <3>1. SourceFor(t) = NoEntry(t)
      BY <2>3, Looked
    <3>2. \A i \in Entries : sources'[i] # NONE => sources'[i].sender # t
      BY <1>3, <1>9, <2>3
    <3>3. SourceFor(t)' = NoEntry(t)
      BY <1>7, <3>2
    <3>4. QED BY <3>1, <3>3
  <2>4. QED BY <2>2, <2>3
<1>10. QED BY <1>4, <1>6, <1>8, <1>9

(* The events of a sender and a kind, when each is one place further back. *)
LEMMA Shifted ==
  ASSUME NEW n \in Nat, NEW S \in SUBSET (1..n)
  PROVE  /\ IsFiniteSet(S) /\ Cardinality(S) \in Nat
         /\ IsFiniteSet({i + 1 : i \in S}) /\ Cardinality({i + 1 : i \in S}) = Cardinality(S)
<1> DEFINE T == {i + 1 : i \in S}
           f == [i \in S |-> i + 1]
<1>1. IsFiniteSet(S)
  <2>1. 1 \in Int /\ n \in Int
    OBVIOUS
  <2>2. IsFiniteSet(1..n)
    BY <2>1, FS_Interval
  <2>3. QED BY <2>2, FS_Subset
<1>2. f \in Bijection(S, T)
  <2>1. f \in [S -> T]
    OBVIOUS
  <2>2. \A a, b \in S : f[a] = f[b] => a = b
    OBVIOUS
  <2>3. \A t \in T : \E a \in S : f[a] = t
    OBVIOUS
  <2> HIDE DEF f, T
  <2>4. QED BY <2>1, <2>2, <2>3 DEF Bijection, Injection, Surjection, IsInjective
<1>3. ExistsBijection(S, T)
  BY <1>2 DEF ExistsBijection
<1> HIDE DEF f, T
<1>4. IsFiniteSet(T) /\ Cardinality(T) = Cardinality(S)
  BY <1>1, <1>3, FS_Bijection
<1>5. QED BY <1>1, <1>4, FS_CardinalityType DEF T

LEMMA EventsFinite ==
  ASSUME TypeOK, NEW s, NEW kind
  PROVE  IsFiniteSet(EventsOf(s, kind)) /\ Cardinality(EventsOf(s, kind)) \in Nat
<1>1. count \in Nat /\ EventsOf(s, kind) \in SUBSET (1..count)
  BY RepeatAssumption DEF TypeOK, EventsOf
<1>2. QED BY <1>1, Shifted

LEMMA EventsClosed ==
  ASSUME TypeOK, NEW p \in Packet, ClosePacket(p), count < Events, NEW s, NEW kind
  PROVE  Cardinality(EventsOf(s, kind)') =
           IF s = p.sender /\ kind = slots'[head].kind THEN Cardinality(EventsOf(s, kind)) + 1
                                                       ELSE Cardinality(EventsOf(s, kind))
<1> DEFINE S == EventsOf(s, kind)
           T == {i + 1 : i \in S}
           U == EventsOf(s, kind)'
<1>1. /\ slots'[head].sender = p.sender /\ count' = count + 1 /\ count \in Nat
      /\ At(1)' = slots'[head] /\ \A j \in 1..count : At(j + 1)' = At(j)
  <2>1. count \in Nat
    BY RepeatAssumption DEF TypeOK
  <2>2. /\ slots'[head].sender = p.sender /\ At(1)' = slots'[head]
        /\ count' = (IF count < Events THEN count + 1 ELSE count)
        /\ \A j \in 1..(count' - 1) : At(j + 1)' = At(j)
    BY Closed
  <2>3. count' = count + 1
    BY <2>2
  <2>4. count' - 1 = count
    BY <2>1, <2>3
  <2>5. QED BY <2>1, <2>2, <2>3, <2>4
<1>2. S = {i \in 1..count : At(i).sender = s /\ At(i).kind = kind}
  BY DEF EventsOf, At
<1>3. U = {i \in 1..(count + 1) : At(i)'.sender = s /\ At(i)'.kind = kind}
  BY <1>1 DEF EventsOf, At
<1>4. S \in SUBSET (1..count)
  BY <1>2
<1> HIDE DEF S, U
<1>5. IsFiniteSet(T) /\ Cardinality(T) = Cardinality(S) /\ Cardinality(S) \in Nat /\ 1 \notin T
  <2>1. IsFiniteSet(T) /\ Cardinality(T) = Cardinality(S) /\ Cardinality(S) \in Nat
    BY <1>1, <1>4, Shifted
  <2>2. 1 \notin T
    BY <1>1, <1>4
  <2>3. QED BY <2>1, <2>2
<1>6. ASSUME NEW i \in 2..(count + 1)
      PROVE  i \in U <=> i \in T
  <2>1. i - 1 \in 1..count /\ (i - 1) + 1 = i
    BY <1>1, <1>6
  <2>2. At(i)' = At(i - 1)
    BY <1>1, <2>1
  <2>3. i \in T <=> i - 1 \in S
    BY <1>1, <1>4, <2>1
  <2>4. QED BY <1>1, <1>2, <1>3, <2>1, <2>2, <2>3
<1>7. 1 \in U <=> s = p.sender /\ kind = slots'[head].kind
  BY <1>1, <1>3
<1>8. U \subseteq 1..(count + 1) /\ T \subseteq 2..(count + 1)
  BY <1>1, <1>3, <1>4
<1> HIDE DEF T
<1>9. U = IF s = p.sender /\ kind = slots'[head].kind THEN T \cup {1} ELSE T
  <2>1. \A i : i \in U <=> i \in T \/ (i = 1 /\ 1 \in U)
    <3>1. 1..(count + 1) = {1} \cup 2..(count + 1)
      BY <1>1
    <3>2. QED BY <1>5, <1>6, <1>8, <3>1
  <2>2. QED BY <1>7, <2>1
<1>10. Cardinality(T \cup {1}) = Cardinality(T) + 1
  BY <1>5, FS_AddElement
<1>11. Cardinality(U) = IF s = p.sender /\ kind = slots'[head].kind THEN Cardinality(S) + 1
                                                                    ELSE Cardinality(S)
  BY <1>5, <1>9, <1>10
<1>12. QED BY <1>11 DEF S, U

(* An event that is upgraded leaves the one kind for the other.            *)
LEMMA EventsReported ==
  ASSUME TypeOK, frame # NONE, Upgradable # {}, UpgradeReported, NEW s, NEW kind
  PROVE  LET was == slots[Place(First(Upgradable))].kind
             n == Cardinality(EventsOf(s, kind))
         IN  Cardinality(EventsOf(s, kind)') =
               IF s = frame.sender /\ was = "direct"
                 THEN CASE kind = "direct" -> n - 1 [] kind = "both" -> n + 1 [] OTHER -> n
                 ELSE n
<1> DEFINE was == slots[Place(First(Upgradable))].kind
           S == EventsOf(s, kind)
           U == EventsOf(s, kind)'
<1>0. First(Upgradable) \in 1..count
  BY UpgradableIs
<1> PICK i0 \in 1..count : i0 = First(Upgradable)
  BY <1>0
<1>1. /\ At(i0).sender = frame.sender /\ was \in {"both", "direct"} /\ was = At(i0).kind
      /\ At(i0) = slots[Place(i0)] /\ UNCHANGED <<head, count>>
  BY UpgradableIs, Reported DEF At
<1>2. At(i0)'.sender = frame.sender /\ At(i0)'.kind = "both"
  <2>1. /\ slots'[Place(i0)].sender = frame.sender /\ slots'[Place(i0)].kind = "both"
    BY Reported
  <2>2. QED BY <1>1, <2>1 DEF At, Place
<1>3. \A j \in 1..count : j # i0 => At(j)' = At(j)
  <2>1. slots' = [slots EXCEPT ![Place(i0)] = slots'[Place(i0)]]
    BY Reported
  <2>2. head \in 0..(Events - 1) /\ count \in 0..Events /\ Events \in Nat /\ DOMAIN slots = 0..(Events - 1)
    BY RepeatAssumption DEF TypeOK
  <2>3. ASSUME NEW j \in 1..count, j # i0
        PROVE  At(j)' = At(j)
    <3>1. Place(j) # Place(i0) /\ Place(j) \in 0..(Events - 1)
      <4>1. j \in 1..Events /\ i0 \in 1..Events /\ j \in 0..Events
        BY <2>2, <2>3
      <4>2. (head - j) % Events # (head - i0) % Events
        BY <2>2, <2>3, <4>1, Apart
      <4>3. (head - j) % Events \in 0..(Events - 1)
        BY <2>2, <4>1, PlaceIs
      <4>4. QED BY <4>2, <4>3 DEF Place
    <3>2. slots'[Place(j)] = slots[Place(j)]
      BY <2>1, <2>2, <3>1
    <3>3. QED BY <1>1, <3>2 DEF At, Place
  <2>4. QED BY <2>3
<1> HIDE DEF was
<1>4. S = {i \in 1..count : At(i).sender = s /\ At(i).kind = kind}
  BY DEF EventsOf, At
<1>5. U = {i \in 1..count : At(i)'.sender = s /\ At(i)'.kind = kind}
  BY <1>1 DEF EventsOf, At
<1>6. IsFiniteSet(S) /\ Cardinality(S) \in Nat
  BY EventsFinite
<1> HIDE DEF S, U
<1>8. CASE ~(s = frame.sender /\ was = "direct" /\ kind \in {"direct", "both"})
  <2>1. \A i \in 1..count : i \in S <=> i \in U
    BY <1>1, <1>2, <1>3, <1>4, <1>5, <1>8
  <2>2. S = U
    BY <1>4, <1>5, <2>1
  <2>3. QED BY <1>8, <2>2 DEF S, U, was
<1>9. CASE s = frame.sender /\ was = "direct" /\ kind = "direct"
  <2>1. i0 \in S
    BY <1>1, <1>4, <1>9
  <2>2. \A i \in 1..count : i \in U <=> i \in S \ {i0}
    BY <1>1, <1>2, <1>3, <1>4, <1>5, <1>9
  <2>3. U = S \ {i0}
    BY <1>4, <1>5, <2>2
  <2>4. Cardinality(U) = Cardinality(S) - 1
    BY <1>6, <2>1, <2>3, FS_RemoveElement
  <2>5. QED BY <1>9, <2>4 DEF S, U, was
<1>10. CASE s = frame.sender /\ was = "direct" /\ kind = "both"
  <2>1. i0 \notin S
    BY <1>1, <1>4, <1>10
  <2>2. \A i \in 1..count : i \in U <=> i \in S \cup {i0}
    BY <1>1, <1>2, <1>3, <1>4, <1>5, <1>10
  <2>3. U = S \cup {i0}
    BY <1>1, <1>4, <1>5, <2>2
  <2>4. Cardinality(U) = Cardinality(S) + 1
    BY <1>6, <2>1, <2>3, FS_AddElement
  <2>5. QED BY <1>10, <2>4 DEF S, U, was
<1>11. QED BY <1>8, <1>9, <1>10

(* What a step makes of the entries and the counts.                        *)
LEMMA TalliedClose ==
  ASSUME TypeOK, OneEntryEach, Tallied, NEW p \in Packet, ClosePacket(p)
  PROVE  OneEntryEach' /\ Tallied'
<1> DEFINE new == slots'[head].kind
<1>1. PICK entry \in Source :
        /\ Put(p.sender, entry) /\ entry.sender = p.sender
        /\ entry.counts = [SourceFor(p.sender).counts EXCEPT ![new] = @ + 1]
  BY Counted
<1>2. /\ OneEntryEach' /\ (~evicted' => ~evicted)
      /\ ~evicted' => /\ SourceFor(p.sender)' = entry
                      /\ \A t : t # p.sender => SourceFor(t)' = SourceFor(t)
  BY <1>1, Typed, PutEntry
<1>3. count' < Events => count < Events
  BY Closed, RepeatAssumption DEF TypeOK
<1> SUFFICES ASSUME ~evicted', count' < Events, NEW s \in Senders, NEW kind \in Kinds
             PROVE  SourceFor(s)'.counts[kind] = Cardinality(EventsOf(s, kind)')
  BY <1>2 DEF Tallied
<1>4. Cardinality(EventsOf(s, kind)') =
        IF s = p.sender /\ kind = new THEN Cardinality(EventsOf(s, kind)) + 1
                                      ELSE Cardinality(EventsOf(s, kind))
  BY <1>3, EventsClosed
<1>5. SourceFor(s).counts[kind] = Cardinality(EventsOf(s, kind))
  BY <1>2, <1>3 DEF Tallied
<1>6. SourceFor(s).counts \in [Kinds -> Nat]
  BY Typed, SourceForIs DEF Source
<1> HIDE DEF new
<1>7. CASE s = p.sender
  <2>1. SourceFor(s)' = entry
    BY <1>2, <1>7
  <2>2. entry.counts[kind] = IF kind = new THEN SourceFor(s).counts[kind] + 1
                                           ELSE SourceFor(s).counts[kind]
    BY <1>1, <1>6, <1>7
  <2>3. QED BY <1>4, <1>5, <1>7, <2>1, <2>2
<1>8. CASE s # p.sender
  BY <1>2, <1>4, <1>5, <1>8
<1>9. QED BY <1>7, <1>8

LEMMA TalliedReported ==
  ASSUME TypeOK, OneEntryEach, Tallied, frame \in Frame, frame # NONE, Upgradable # {},
         UpgradeReported
  PROVE  OneEntryEach' /\ Tallied'
<1> DEFINE was == slots[Place(First(Upgradable))].kind
<1>1. PICK sender \in Senders : sender = frame.sender
  BY DEF Frame
<1>2. PICK entry \in Source :
        /\ Put(sender, entry) /\ entry.sender = sender
        /\ was = "both" => entry.counts = SourceFor(sender).counts
        /\ was = "direct" =>
             entry.counts = [SourceFor(sender).counts EXCEPT !["direct"] = IF @ > 0 THEN @ - 1 ELSE @,
                                               !["both"] = @ + 1]
  BY <1>1, Recounted
<1>3. /\ OneEntryEach' /\ (~evicted' => ~evicted)
      /\ ~evicted' => /\ SourceFor(sender)' = entry
                      /\ \A t : t # sender => SourceFor(t)' = SourceFor(t)
  BY <1>2, Typed, PutEntry
<1>4. was \in {"both", "direct"} /\ count' = count
  BY Reported
<1> SUFFICES ASSUME ~evicted', count' < Events, NEW s \in Senders, NEW kind \in Kinds
             PROVE  SourceFor(s)'.counts[kind] = Cardinality(EventsOf(s, kind)')
  BY <1>3 DEF Tallied
<1>5. Cardinality(EventsOf(s, kind)') =
        IF s = sender /\ was = "direct"
          THEN CASE kind = "direct" -> Cardinality(EventsOf(s, kind)) - 1
                 [] kind = "both" -> Cardinality(EventsOf(s, kind)) + 1
                 [] OTHER -> Cardinality(EventsOf(s, kind))
          ELSE Cardinality(EventsOf(s, kind))
  BY <1>1, EventsReported
<1>6. SourceFor(s).counts[kind] = Cardinality(EventsOf(s, kind))
  BY <1>3, <1>4 DEF Tallied
<1>7. SourceFor(s).counts \in [Kinds -> Nat]
  BY Typed, SourceForIs DEF Source
<1>8. s = sender /\ was = "direct" /\ kind = "direct" => Cardinality(EventsOf(s, kind)) > 0
  <2> SUFFICES ASSUME s = sender, was = "direct", kind = "direct"
               PROVE  Cardinality(EventsOf(s, kind)) > 0
    OBVIOUS
  <2>1. First(Upgradable) \in 1..count /\ At(First(Upgradable)).sender = sender
    BY <1>1, UpgradableIs DEF Same
  <2>2. EventsOf(s, kind) # {}
    BY <2>1 DEF EventsOf, At
  <2>3. QED BY <2>2, EventsFinite, FS_EmptySet
<1> HIDE DEF was
<1>9. CASE s = sender /\ was = "direct"
  <2>1. SourceFor(s)' = entry
    BY <1>3, <1>9
  <2>2. entry.counts[kind] = CASE kind = "direct" -> SourceFor(s).counts[kind] - 1
                               [] kind = "both" -> SourceFor(s).counts[kind] + 1
                               [] OTHER -> SourceFor(s).counts[kind]
    BY <1>2, <1>6, <1>7, <1>8, <1>9
  <2>3. QED BY <1>5, <1>6, <1>9, <2>1, <2>2
<1>10. CASE s = sender /\ was = "both"
  BY <1>2, <1>3, <1>5, <1>6, <1>10
<1>11. CASE s # sender
  BY <1>3, <1>5, <1>6, <1>11
<1>12. QED BY <1>4, <1>9, <1>10, <1>11

LEMMA TalliedSame ==
  ASSUME UNCHANGED ring, OneEntryEach, Tallied, ~evicted' => ~evicted, OneEntryEach',
         ~evicted' => \A s : SourceFor(s)' = SourceFor(s)
  PROVE  Tallied'
<1>1. UNCHANGED <<slots, head, count>>
  BY DEF ring
<1> SUFFICES ASSUME ~evicted', count' < Events, NEW s \in Senders, NEW kind \in Kinds
             PROVE  SourceFor(s)'.counts[kind] = Cardinality(EventsOf(s, kind)')
  BY DEF Tallied
<1>2. EventsOf(s, kind)' = EventsOf(s, kind)
  BY <1>1 DEF EventsOf, Place
<1>3. QED BY <1>1, <1>2 DEF Tallied

LEMMA TalliedStep ==
  ASSUME Inv, OneEntryEach, Tallied, [Next]_vars
  PROVE  OneEntryEach' /\ Tallied'
<1> USE DEF Inv
<1>1. ASSUME UNCHANGED <<sources, evicted, ring>>
      PROVE  OneEntryEach' /\ Tallied'
  <2>1. OneEntryEach'
    BY <1>1 DEF OneEntryEach
  <2>2. \A s : SourceFor(s)' = SourceFor(s)
    BY <1>1 DEF SourceFor, Known, EntryOf
  <2>3. QED BY <1>1, <2>1, <2>2, TalliedSame
<1>2. ASSUME NEW f \in Frame, Note(f)
      PROVE  OneEntryEach' /\ Tallied'
  <2>1. CASE f.content \in Names
    <3>1. UNCHANGED ring /\ Put(f.sender, SourceFor(f.sender)) /\ f.sender \in Senders
      BY <1>2, <2>1 DEF Note, Frame
    <3>2. SourceFor(f.sender) \in Source /\ SourceFor(f.sender).sender = f.sender
      BY <3>1, Typed, SourceForIs
    <3>3. PICK entry \in Source : entry = SourceFor(f.sender)
      BY <3>2
    <3>4. /\ OneEntryEach' /\ (~evicted' => ~evicted)
          /\ ~evicted' => /\ SourceFor(f.sender)' = entry
                          /\ \A t : t # f.sender => SourceFor(t)' = SourceFor(t)
      BY <3>1, <3>2, <3>3, Typed, PutEntry
    <3>5. ~evicted' => \A t : SourceFor(t)' = SourceFor(t)
      <4> SUFFICES ASSUME ~evicted', NEW t
                   PROVE  SourceFor(t)' = SourceFor(t)
        OBVIOUS
      <4>1. CASE t = f.sender
        BY <3>3, <3>4, <4>1
      <4>2. CASE t # f.sender
        BY <3>4, <4>2
      <4>3. QED BY <4>1, <4>2
    <3>6. QED BY <3>1, <3>4, <3>5, TalliedSame
  <2>2. CASE f.content \notin Names
    BY <1>1, <1>2, <2>2 DEF Note
  <2>3. QED BY <2>1, <2>2
<1>3. CASE TickCloses
  <2>1. open[First(Due)] \in Packet /\ ClosePacket(open[First(Due)])
    BY <1>3, DueIs DEF TickCloses
  <2>2. QED BY <2>1, TalliedClose
<1>4. CASE Match
  <2>1. CASE Matches # {} /\ CopyOfOpen
    BY <1>1, <2>1 DEF CopyOfOpen
  <2>2. CASE Upgradable # {} /\ UpgradeReported
    <3>1. frame \in Frame /\ frame # NONE
      BY <1>4 DEF Match, TypeOK
    <3>2. QED BY <2>2, <3>1, TalliedReported
  <2>3. CASE NewPacket
    <3>1. CASE open[SlotFor] = NONE
      BY <1>1, <2>3, <3>1 DEF NewPacket
    <3>2. CASE open[SlotFor] # NONE
      <4>1. open[SlotFor] \in Packet /\ ClosePacket(open[SlotFor])
        BY <2>3, <3>2, SlotForIs DEF NewPacket, TypeOK
      <4>2. QED BY <4>1, TalliedClose
    <3>3. QED BY <3>1, <3>2
  <2>4. QED BY <1>4, <2>1, <2>2, <2>3 DEF Match
<1>5. CASE Reset
  <2>1. /\ sources' = [i \in Entries |-> NONE] /\ count' = 0
        /\ \A i \in Entries : sources'[i] = NONE
    BY <1>5 DEF Reset
  <2>2. OneEntryEach'
    BY <2>1 DEF OneEntryEach
  <2>3. ASSUME NEW s \in Senders, NEW kind \in Kinds
        PROVE  SourceFor(s)'.counts[kind] = Cardinality(EventsOf(s, kind)')
    <3>1. SourceFor(s)'.counts = [k \in Kinds |-> 0]
      BY <2>1 DEF SourceFor, Known
    <3>2. EventsOf(s, kind)' = {}
      BY <2>1 DEF EventsOf
    <3>3. QED BY <3>1, <3>2, FS_EmptySet
  <2>4. QED BY <2>2, <2>3 DEF Tallied
<1>6. CASE Tick \/ TickEnds
  BY <1>1, <1>6 DEF Tick, TickEnds
<1>7. CASE WriteBegins \/ WriteEvent \/ WriteEnds \/ Passes \/ UNCHANGED vars
  BY <1>1, <1>7 DEF WriteBegins, WriteEvent, WriteEnds, Passes, vars
<1>8. QED BY <1>2, <1>3, <1>4, <1>5, <1>6, <1>7 DEF Next

(* The counts bd_repeat_write lists for a sender are those of the events   *)
(* it lists, as long as neither the table nor the list was too small.      *)
THEOREM CountsAgree == Spec => []ListsAgree
<1>1. Init => OneEntryEach /\ Tallied
  <2> SUFFICES ASSUME Init
               PROVE  OneEntryEach /\ Tallied
    OBVIOUS
  <2>1. count = 0 /\ \A i \in Entries : sources[i] = NONE
    BY DEF Init
  <2>2. ASSUME NEW s \in Senders, NEW kind \in Kinds
        PROVE  SourceFor(s).counts[kind] = Cardinality(EventsOf(s, kind))
    <3>1. SourceFor(s).counts = [k \in Kinds |-> 0] /\ EventsOf(s, kind) = {}
      BY <2>1 DEF SourceFor, Known, EventsOf
    <3>2. QED BY <3>1, FS_EmptySet
  <2>3. QED BY <2>1, <2>2 DEF OneEntryEach, Tallied
<1>2. Inv /\ OneEntryEach /\ Tallied /\ [Next]_vars => OneEntryEach' /\ Tallied'
  BY TalliedStep
<1>3. Inv /\ OneEntryEach /\ Tallied => ListsAgree
  <2> SUFFICES ASSUME Inv, OneEntryEach, Tallied, ~evicted, count < Events,
                      NEW i \in Entries, sources[i] # NONE, NEW kind \in Kinds
               PROVE  sources[i].counts[kind] = Cardinality(EventsOf(sources[i].sender, kind))
    BY DEF ListsAgree
  <2>1. sources[i].sender \in Senders
    BY DEF Inv, TypeOK, Source
  <2>2. SourceFor(sources[i].sender) = sources[i]
    BY Looked, Typed DEF Inv
  <2>3. QED BY <2>1, <2>2 DEF Tallied
<1>4. QED BY <1>1, <1>2, <1>3, Invariance, PTL DEF Spec
=============================================================================
