---------------------------- MODULE WsOut_proofs ----------------------------
(***************************************************************************)
(* Proofs about WsOut, for any number of tasks, clients, messages and      *)
(* frames in a ring.                                                       *)
(***************************************************************************)
EXTENDS WsOut, SequenceTheorems, TLAPS

ClientRecords ==
  [used : BOOLEAN, resync : BOOLEAN, status : BOOLEAN, pos : [Rings -> Nat],
   stalled : {"no", "fresh", "old"}]

RingsOK == ring \in [Rings -> Seq(Frames)] /\ rd \in [Rings -> Nat] /\ sent \in Nat

(* The places of a ring that hold a frame.                                 *)
Held(r) == rd[r] .. (Wr(r) - 1)

(* A client's place is never outside what a ring holds.                    *)
InPlace == \A f \in Clients, r \in Rings : client[f].pos[r] \in rd[r] .. Wr(r)

(* No two frames are of the same message.                                  *)
OneFrameEach ==
  /\ \A r \in Rings : \A p \in Held(r) : Frame(r, p).id <= sent
  /\ \A r, s \in Rings : \A p \in Held(r), q \in Held(s) :
       Frame(r, p).id = Frame(s, q).id => r = s /\ p = q

NobodyOwed == \A f \in Fds : ~client[f].used => owed[f] = {}

Basis ==
  /\ RingsOK /\ InPlace /\ OneFrameEach /\ NobodyOwed
  /\ client \in [Fds -> ClientRecords] /\ owed \in [Fds -> SUBSET Nat] /\ cur \subseteq Fds

Told == Basis /\ NoSilentLoss /\ NothingStale

(* What waits for a client, frame by frame.                                *)
LEMMA WhatWaits ==
  ASSUME NEW f \in Fds, NEW i
  PROVE  i \in Pending(f) <=>
           \E r \in Rings : \E p \in Waiting(f, r) : For(Frame(r, p), f) /\ Frame(r, p).id = i
BY DEF Pending

LEMMA WhatWaitsNext ==
  ASSUME NEW f \in Fds, NEW i
  PROVE  i \in Pending(f)' <=>
           \E r \in Rings : \E p \in Waiting(f, r)' :
             For(Frame(r, p)', f) /\ Frame(r, p)'.id = i
BY DEF Pending, For

(* The oldest n leave a sequence, and one more comes.                      *)
LEMMA Shifted ==
  ASSUME NEW S, NEW old \in Seq(S), NEW n \in 0 .. Len(old), NEW x \in S,
         NEW new, new = Append(SubSeq(old, n + 1, Len(old)), x)
  PROVE  /\ new \in Seq(S) /\ Len(new) = Len(old) - n + 1
         /\ \A k \in 1 .. (Len(old) - n) : new[k] = old[n + k]
         /\ new[Len(old) - n + 1] = x
<1> DEFINE kept == SubSeq(old, n + 1, Len(old))
<1>1. Len(old) \in Nat /\ n \in Nat /\ n <= Len(old)
  BY LenProperties
<1>2. \A i \in (n + 1) .. Len(old) : old[i] \in S
  BY <1>1, ElementOfSeq
<1>3. n + 1 \in Int /\ Len(old) \in Int
  BY <1>1
<1>4. /\ kept \in Seq(S)
      /\ Len(kept) = IF n + 1 <= Len(old) THEN Len(old) - (n + 1) + 1 ELSE 0
      /\ \A i \in 1 .. (Len(old) - (n + 1) + 1) : kept[i] = old[n + 1 + i - 1]
  BY <1>2, <1>3, SubSeqProperties
<1> HIDE DEF kept
<1>5. Len(kept) = Len(old) - n
  BY <1>1, <1>4
<1>6. \A k \in 1 .. (Len(old) - n) : kept[k] = old[n + k]
  <2>1. ASSUME NEW k \in 1 .. (Len(old) - n) PROVE kept[k] = old[n + k]
    <3>1. k \in 1 .. (Len(old) - (n + 1) + 1) /\ n + 1 + k - 1 = n + k
      BY <1>1
    <3>2. QED BY <1>4, <3>1
  <2>2. QED BY <2>1
<1>7. /\ Append(kept, x) \in Seq(S) /\ Len(Append(kept, x)) = Len(kept) + 1
      /\ \A i \in 1 .. Len(kept) : Append(kept, x)[i] = kept[i]
      /\ Append(kept, x)[Len(kept) + 1] = x
  BY <1>4, AppendProperties
<1>8. new = Append(kept, x)
  BY DEF kept
<1>9. QED BY <1>5, <1>6, <1>7, <1>8

(* A ring is moved on by as many frames as leave it; the others keep their *)
(* places, and the new one comes last.                                     *)
LEMMA AddEffect ==
  ASSUME RingsOK, NEW r \in Rings, NEW to \in Fds \cup {kBroadcast}, RingAdd(r, to)
  PROVE  \E gone \in rd[r] .. Wr(r) :
           /\ rd' = [rd EXCEPT ![r] = gone] /\ Wr(r)' = Wr(r) + 1
           /\ ring' \in [Rings -> Seq(Frames)]
           /\ \A s \in Rings \ {r} : ring'[s] = ring[s]
           /\ \A p \in gone .. (Wr(r) - 1) : Frame(r, p)' = Frame(r, p)
           /\ Frame(r, Wr(r) - 1)' = [to |-> to, id |-> sent + 1]
           /\ client' = [f \in Fds |->
                IF client[f].used /\ client[f].pos[r] < gone THEN MovedOn(f, r, gone)
                ELSE client[f]]
<1>1. PICK n \in 0 .. Len(ring[r]) :
        /\ ring' = [ring EXCEPT ![r] =
                Append(SubSeq(@, n + 1, Len(@)), [to |-> to, id |-> sent + 1])]
        /\ rd' = [rd EXCEPT ![r] = rd[r] + n]
        /\ client' = [f \in Fds |->
             IF client[f].used /\ client[f].pos[r] < rd[r] + n THEN MovedOn(f, r, rd[r] + n)
             ELSE client[f]]
  BY DEF RingAdd
<1> DEFINE old == ring[r]
           end == Len(old)
           start == rd[r]
           new == ring'[r]
           frame == [to |-> to, id |-> sent + 1]
<1>2. frame \in Frames
  BY DEF RingsOK, Frames
<1>3. old \in Seq(Frames) /\ start \in Nat
  BY DEF RingsOK
<1>4. new = Append(SubSeq(old, n + 1, Len(old)), frame) /\ rd'[r] = start + n
  BY <1>1 DEF RingsOK
<1>5. end \in Nat /\ n \in 0 .. end
  BY <1>3, LenProperties
<1>6. /\ new \in Seq(Frames) /\ Len(new) = end - n + 1
      /\ \A k \in 1 .. (end - n) : new[k] = old[n + k]
      /\ new[end - n + 1] = frame
  <2> HIDE DEF frame, new, old
  <2>1. n \in 0 .. Len(old) /\ old \in Seq(Frames)
    BY <1>3, <1>5
  <2>2. new = Append(SubSeq(old, n + 1, Len(old)), frame)
    BY <1>4
  <2>3. QED BY <1>2, <2>1, <2>2, Shifted
<1>7. Wr(r) = start + end /\ Wr(r)' = start + n + Len(new)
  BY <1>4 DEF Wr
<1>8. /\ \A p : Frame(r, p) = old[p - start + 1]
      /\ \A p : Frame(r, p)' = new[p - (start + n) + 1]
  BY <1>4 DEF Frame
<1>9. ring' \in [Rings -> Seq(Frames)] /\ \A s \in Rings \ {r} : ring'[s] = ring[s]
  BY <1>1, <1>6 DEF RingsOK
<1> HIDE DEF old, end, start, new, frame
<1>10. start + n \in start .. Wr(r) /\ Wr(r)' = Wr(r) + 1
  BY <1>3, <1>5, <1>6, <1>7
<1>11. ASSUME NEW p \in (start + n) .. (Wr(r) - 1)
       PROVE  Frame(r, p)' = Frame(r, p)
  <2>1. p - (start + n) + 1 \in 1 .. (end - n) /\ n + (p - (start + n) + 1) = p - start + 1
    BY <1>3, <1>5, <1>7
  <2>2. QED BY <1>6, <1>8, <2>1
<1>12. Frame(r, Wr(r) - 1)' = frame
  <2>1. (Wr(r)' - 1) - (start + n) + 1 = end - n + 1
    BY <1>3, <1>5, <1>6, <1>7
  <2>2. QED BY <1>6, <1>8, <2>1
<1>13. QED BY <1>1, <1>9, <1>10, <1>11, <1>12 DEF start, frame

LEMMA FramesHeld ==
  ASSUME RingsOK
  PROVE  \A s \in Rings : Wr(s) \in Nat /\ \A p \in Held(s) : Frame(s, p).id \in Nat
<1>1. ASSUME NEW s \in Rings PROVE Len(ring[s]) \in Nat /\ rd[s] \in Nat /\ Wr(s) \in Nat
  BY LenProperties DEF RingsOK, Wr
<1>2. ASSUME NEW s \in Rings, NEW p \in Held(s) PROVE Frame(s, p).id \in Nat
  <2>1. ring[s] \in Seq(Frames) /\ p - rd[s] + 1 \in 1 .. Len(ring[s])
    BY <1>1 DEF RingsOK, Held, Wr
  <2>2. Frame(s, p) \in Frames
    BY <2>1, ElementOfSeq DEF Frame
  <2>3. QED BY <2>2 DEF Frames
<1>3. QED BY <1>1, <1>2

(* A message that is added to a ring is owed to those it is for, and a     *)
(* client that loses an older one is told.                                 *)
LEMMA AddKeeps ==
  ASSUME Told, NEW r \in Rings, NEW to \in Fds \cup {kBroadcast}, RingAdd(r, to),
         NEW receivers \in SUBSET Clients, NewMessage(receivers),
         \A f \in Clients : f \in receivers <=> to \in {kBroadcast, f},
         cur' \subseteq Fds
  PROVE  Told'
<1>1. /\ RingsOK /\ InPlace /\ OneFrameEach
      /\ client \in [Fds -> ClientRecords] /\ owed \in [Fds -> SUBSET Nat]
      /\ NoSilentLoss /\ NothingStale
  BY DEF Told, Basis
<1>2. PICK gone \in rd[r] .. Wr(r) :
           /\ rd' = [rd EXCEPT ![r] = gone] /\ Wr(r)' = Wr(r) + 1
           /\ ring' \in [Rings -> Seq(Frames)]
           /\ \A s \in Rings \ {r} : ring'[s] = ring[s]
           /\ \A p \in gone .. (Wr(r) - 1) : Frame(r, p)' = Frame(r, p)
           /\ Frame(r, Wr(r) - 1)' = [to |-> to, id |-> sent + 1]
           /\ client' = [f \in Fds |->
                IF client[f].used /\ client[f].pos[r] < gone THEN MovedOn(f, r, gone)
                ELSE client[f]]
  BY <1>1, AddEffect
<1>3. /\ sent' = sent + 1 /\ sent \in Nat
      /\ owed' = [f \in Fds |-> IF f \in receivers THEN owed[f] \cup {sent + 1} ELSE owed[f]]
      /\ \A s \in Rings : rd[s] \in Nat /\ Wr(s) \in Nat
  <2>1. \A s \in Rings : Len(ring[s]) \in Nat
    BY <1>1, LenProperties DEF RingsOK
  <2>2. QED BY <1>1, <2>1 DEF NewMessage, RingsOK, Wr
<1>4. \A s \in Rings \ {r} : /\ Wr(s)' = Wr(s) /\ rd'[s] = rd[s]
                             /\ \A p : Frame(s, p)' = Frame(s, p)
  BY <1>1, <1>2 DEF RingsOK, Wr, Frame
<1>5. gone \in Nat /\ gone <= Wr(r) /\ rd[r] <= gone /\ rd'[r] = gone
  BY <1>1, <1>2, <1>3 DEF RingsOK
<1>6. RingsOK'
  BY <1>1, <1>2, <1>3, <1>5 DEF RingsOK
(* The new frame, at a place that is given.                                *)
<1>7. \A p : p = Wr(r) => Frame(r, p)' = [to |-> to, id |-> sent + 1]
  <2>1. Wr(r)' - 1 = Wr(r)
    BY <1>2, <1>3
  <2>2. QED BY <1>2, <2>1 DEF Frame
<1>8. OneFrameEach'
  <2>1. \A s \in Rings : \A p \in Held(s)' :
          \/ p \in Held(s) /\ Frame(s, p)' = Frame(s, p)
          \/ s = r /\ p = Wr(r)
    <3>1. ASSUME NEW p \in Held(r)' PROVE p \in gone .. (Wr(r) - 1) \/ p = Wr(r)
      BY <1>2, <1>3, <1>5 DEF Held
    <3>2. \A p \in gone .. (Wr(r) - 1) : p \in Held(r)
      BY <1>3, <1>5 DEF Held
    <3>3. \A p \in Held(r)' :
            (p \in Held(r) /\ Frame(r, p)' = Frame(r, p)) \/ p = Wr(r)
      BY <1>2, <3>1, <3>2
    <3>4. \A s \in Rings \ {r} : Held(s)' = Held(s)
      BY <1>4 DEF Held
    <3>5. QED BY <1>4, <3>3, <3>4
  <2>2. \A s \in Rings : \A p \in Held(s) : Frame(s, p).id <= sent
    BY <1>1 DEF OneFrameEach
  <2>3. \A s \in Rings : \A p \in Held(s) : Frame(s, p).id \in Nat
    BY <1>1, FramesHeld
  <2>4. \A s \in Rings : \A p \in Held(s)' : Frame(s, p)'.id <= sent'
    BY <1>3, <1>7, <2>1, <2>2, <2>3
  <2>5. ASSUME NEW s \in Rings, NEW t \in Rings, NEW p \in Held(s)', NEW q \in Held(t)',
               Frame(s, p)'.id = Frame(t, q)'.id
        PROVE  s = t /\ p = q
    <3>1. CASE p \in Held(s) /\ Frame(s, p)' = Frame(s, p) /\ q \in Held(t)
               /\ Frame(t, q)' = Frame(t, q)
      BY <1>1, <2>5, <3>1 DEF OneFrameEach
    <3>2. CASE s = r /\ p = Wr(r) /\ q \in Held(t) /\ Frame(t, q)' = Frame(t, q)
      BY <1>3, <1>7, <2>2, <2>3, <2>5, <3>2
    <3>3. CASE t = r /\ q = Wr(r) /\ p \in Held(s) /\ Frame(s, p)' = Frame(s, p)
      BY <1>3, <1>7, <2>2, <2>3, <2>5, <3>3
    <3>4. QED BY <2>1, <3>1, <3>2, <3>3
  <2>6. QED BY <2>4, <2>5 DEF OneFrameEach
<1>9. /\ client' \in [Fds -> ClientRecords]
      /\ \A f \in Fds :
           /\ client'[f].used = client[f].used
           /\ \A s \in Rings \ {r} : client'[f].pos[s] = client[f].pos[s]
           /\ client[f].resync => client'[f].resync
  <2>1. ASSUME NEW f \in Fds
        PROVE  /\ client'[f] \in ClientRecords
               /\ client'[f].used = client[f].used
               /\ \A s \in Rings \ {r} : client'[f].pos[s] = client[f].pos[s]
               /\ client[f].resync => client'[f].resync
    <3>1. client[f] \in ClientRecords
      BY <1>1
    <3>2. CASE client'[f] = client[f]
      BY <3>1, <3>2
    <3>3. CASE client'[f] = MovedOn(f, r, gone)
      <4>1. MovedOn(f, r, gone).pos = [client[f].pos EXCEPT ![r] = gone]
        BY <3>1 DEF MovedOn, ClientRecords
      <4>2. /\ client[f].pos \in [Rings -> Nat] /\ gone \in Nat
            /\ client[f].used \in BOOLEAN /\ client[f].resync \in BOOLEAN
        BY <1>5, <3>1 DEF ClientRecords
      <4>3. /\ MovedOn(f, r, gone).pos \in [Rings -> Nat]
            /\ \A s \in Rings \ {r} : MovedOn(f, r, gone).pos[s] = client[f].pos[s]
        BY <4>1, <4>2
      <4>4. \E told \in BOOLEAN :
              /\ client[f].resync => told
              /\ MovedOn(f, r, gone) =
                   [used |-> client[f].used, resync |-> told, status |-> client[f].status,
                    pos |-> MovedOn(f, r, gone).pos, stalled |-> client[f].stalled]
        <5> DEFINE told ==
              client[f].resync \/ \E p \in client[f].pos[r] .. (gone - 1) : For(Frame(r, p), f)
        <5>1. told \in BOOLEAN /\ (client[f].resync => told)
          BY <4>2
        <5>2. MovedOn(f, r, gone) = [client[f] EXCEPT !.pos[r] = gone, !.resync = told]
          BY <3>1 DEF MovedOn, ClientRecords
        <5> HIDE DEF told
        <5>3. MovedOn(f, r, gone) =
                   [used |-> client[f].used, resync |-> told, status |-> client[f].status,
                    pos |-> MovedOn(f, r, gone).pos, stalled |-> client[f].stalled]
          BY <3>1, <5>2 DEF ClientRecords
        <5>4. QED BY <5>1, <5>3
      <4>5. PICK told \in BOOLEAN :
              /\ client[f].resync => told
              /\ MovedOn(f, r, gone) =
                   [used |-> client[f].used, resync |-> told, status |-> client[f].status,
                    pos |-> MovedOn(f, r, gone).pos, stalled |-> client[f].stalled]
        BY <4>4
      <4>6. /\ MovedOn(f, r, gone) \in ClientRecords
            /\ MovedOn(f, r, gone).used = client[f].used
            /\ client[f].resync => MovedOn(f, r, gone).resync
        BY <3>1, <4>3, <4>5 DEF ClientRecords
      <4>7. QED BY <3>3, <4>3, <4>6
    <3>4. QED BY <1>2, <3>2, <3>3
  <2>2. QED BY <1>2, <2>1
<1>10. Clients' = Clients
  BY <1>9 DEF Clients
(* A client stays where it is, or is moved to the new beginning.           *)
<1>11. ASSUME NEW f \in Clients
       PROVE  \/ /\ client[f].pos[r] >= gone /\ client'[f].pos[r] = client[f].pos[r]
                 /\ client'[f].resync = client[f].resync
              \/ /\ client[f].pos[r] < gone /\ client'[f].pos[r] = gone
                 /\ \A p \in client[f].pos[r] .. (gone - 1) :
                      For(Frame(r, p), f) => client'[f].resync
  <2>1. f \in Fds /\ client[f].used /\ client[f] \in ClientRecords /\ client[f].pos[r] \in Nat
    BY <1>1 DEF Clients, ClientRecords
  <2>2. CASE client[f].pos[r] < gone
    <3>1. client'[f] = MovedOn(f, r, gone)
      BY <1>2, <2>1, <2>2
    <3>2. QED BY <2>1, <2>2, <3>1 DEF MovedOn, ClientRecords
  <2>3. CASE ~(client[f].pos[r] < gone)
    BY <1>2, <1>5, <2>1, <2>3
  <2>4. QED BY <2>2, <2>3
<1>12. ASSUME NEW f \in Clients
       PROVE  /\ \A s \in Rings : client[f].pos[s] \in rd[s] .. Wr(s)
              /\ \A s \in Rings \ {r} : Waiting(f, s)' = Waiting(f, s)
              /\ client'[f].pos[r] \in gone .. Wr(r)
              /\ client[f].pos[r] <= client'[f].pos[r]
              /\ client[f].pos[r] \in Nat /\ client'[f].pos[r] \in Nat
              /\ Waiting(f, r) = client[f].pos[r] .. (Wr(r) - 1)
              /\ Waiting(f, r)' = client'[f].pos[r] .. Wr(r)
  <2>1. \A s \in Rings : client[f].pos[s] \in rd[s] .. Wr(s)
    BY <1>1 DEF InPlace
  <2>2. \A s \in Rings \ {r} : Waiting(f, s)' = Waiting(f, s)
    BY <1>4, <1>9 DEF Waiting, Clients
  <2>3. Waiting(f, r) = client[f].pos[r] .. (Wr(r) - 1)
    BY DEF Waiting
  <2>4. Waiting(f, r)' = client'[f].pos[r] .. (Wr(r) + 1 - 1) /\ Wr(r) + 1 - 1 = Wr(r)
    BY <1>2, <1>3 DEF Waiting
  <2>5. rd[r] \in Nat /\ Wr(r) \in Nat /\ client[f].pos[r] \in rd[r] .. Wr(r)
    BY <1>3, <2>1
  <2>6. /\ client[f].pos[r] \in Nat /\ client'[f].pos[r] \in gone .. Wr(r)
        /\ client[f].pos[r] <= client'[f].pos[r]
    BY <1>5, <1>11, <2>5
  <2>7. QED BY <1>5, <2>1, <2>2, <2>3, <2>4, <2>5, <2>6
<1>13. InPlace'
  <2>1. ASSUME NEW f \in Clients, NEW s \in Rings
        PROVE  client'[f].pos[s] \in rd'[s] .. Wr(s)'
    <3>1. CASE s = r
      <4>1. gone .. Wr(r) \subseteq gone .. (Wr(r) + 1)
        BY <1>3, <1>5
      <4>2. QED BY <1>2, <1>5, <1>12, <3>1, <4>1
    <3>2. CASE s # r
      BY <1>4, <1>9, <1>12, <3>2 DEF Clients
    <3>3. QED BY <3>1, <3>2
  <2>2. QED BY <1>10, <2>1 DEF InPlace
<1>14. ASSUME NEW f \in Clients, NEW i \in Pending(f)'
       PROVE  i \in owed'[f]
  <2>1. f \in Fds
    BY DEF Clients
  <2>2. PICK s \in Rings : \E p \in Waiting(f, s)' : For(Frame(s, p)', f) /\ Frame(s, p)'.id = i
    BY <2>1, <1>14, WhatWaitsNext
  <2>3. PICK p \in Waiting(f, s)' : For(Frame(s, p)', f) /\ Frame(s, p)'.id = i
    BY <2>2
  <2>4. CASE s # r \/ p < Wr(r)
    <3>1. p \in Waiting(f, s) /\ Frame(s, p)' = Frame(s, p)
      <4>1. CASE s # r
        BY <1>4, <1>12, <4>1
      <4>2. CASE s = r
        <5>1. p \in client'[f].pos[r] .. Wr(r) /\ p < Wr(r) /\ client'[f].pos[r] >= gone
          BY <1>3, <1>5, <1>12, <2>4, <4>2
        <5>2. p \in gone .. (Wr(r) - 1) /\ p \in client[f].pos[r] .. (Wr(r) - 1)
          BY <1>3, <1>5, <1>12, <5>1
        <5>3. QED BY <1>2, <1>12, <4>2, <5>2
      <4>3. QED BY <4>1, <4>2
    <3>2. i \in Pending(f)
      BY <2>1, <2>3, <3>1, WhatWaits
    <3>3. QED BY <1>1, <1>3, <2>1, <3>2 DEF NothingStale
  <2>5. CASE s = r /\ ~(p < Wr(r))
    <3>1. p = Wr(r)
      BY <1>3, <1>12, <2>5
    <3>2. Frame(r, p)' = [to |-> to, id |-> sent + 1]
      BY <1>7, <3>1
    <3>3. i = sent + 1 /\ to \in {kBroadcast, f}
      BY <2>3, <2>5, <3>2 DEF For
    <3>4. QED BY <1>3, <2>1, <3>3
  <2>6. QED BY <2>4, <2>5
<1>15. ASSUME NEW f \in Clients, ~client'[f].resync, NEW i \in owed'[f]
       PROVE  i \in Pending(f)'
  <2>1. f \in Fds /\ ~client[f].resync
    BY <1>9, <1>15 DEF Clients
  <2>2. CASE i \in owed[f]
    <3>1. i \in Pending(f)
      BY <1>1, <2>1, <2>2 DEF NoSilentLoss
    <3>2. PICK s \in Rings : \E p \in Waiting(f, s) : For(Frame(s, p), f) /\ Frame(s, p).id = i
      BY <2>1, <3>1, WhatWaits
    <3>3. PICK p \in Waiting(f, s) : For(Frame(s, p), f) /\ Frame(s, p).id = i
      BY <3>2
    <3>4. p \in Waiting(f, s)' /\ Frame(s, p)' = Frame(s, p)
      <4>1. CASE s # r
        BY <1>4, <1>12, <4>1
      <4>2. CASE s = r
        <5>1. p \in gone .. (Wr(r) - 1) /\ p >= client'[f].pos[r]
          <6>1. p \in client[f].pos[r] .. (Wr(r) - 1) /\ For(Frame(r, p), f)
            BY <1>12, <3>3, <4>2
          <6>2. CASE client[f].pos[r] >= gone
            BY <1>3, <1>5, <1>11, <1>12, <6>1, <6>2
          <6>3. CASE client[f].pos[r] < gone
            <7>1. p \notin client[f].pos[r] .. (gone - 1)
              BY <1>5, <1>11, <1>12, <1>15, <6>1, <6>3
            <7>2. client'[f].pos[r] = gone
              BY <1>5, <1>11, <1>12, <6>3
            <7>3. QED BY <1>3, <1>5, <1>12, <6>1, <7>1, <7>2
          <6>4. QED BY <1>5, <1>12, <6>2, <6>3
        <5>2. p \in client'[f].pos[r] .. Wr(r)
          BY <1>3, <1>5, <1>12, <5>1
        <5>3. QED BY <1>2, <1>12, <4>2, <5>1, <5>2
      <4>3. QED BY <4>1, <4>2
    <3>5. QED BY <2>1, <3>3, <3>4, WhatWaitsNext
  <2>3. CASE i \notin owed[f]
    <3>1. i = sent + 1 /\ to \in {kBroadcast, f}
      BY <1>3, <1>15, <2>1, <2>3
    <3>2. \A p : p = Wr(r) => p \in Waiting(f, r)' /\ Frame(r, p)' = [to |-> to, id |-> sent + 1]
      <4>1. Wr(r) \in client'[f].pos[r] .. Wr(r)
        BY <1>3, <1>5, <1>12
      <4>2. QED BY <1>7, <1>12, <4>1
    <3>3. \E p \in Waiting(f, r)' : For(Frame(r, p)', f) /\ Frame(r, p)'.id = i
      BY <3>1, <3>2 DEF For
    <3>4. QED BY <2>1, <3>3, WhatWaitsNext
  <2>4. QED BY <2>2, <2>3
<1>16. NothingStale' /\ NoSilentLoss'
  BY <1>10, <1>14, <1>15 DEF NothingStale, NoSilentLoss
<1>17. owed' \in [Fds -> SUBSET Nat]
  BY <1>1, <1>3
<1>18. NobodyOwed'
  BY <1>1, <1>3, <1>9 DEF NobodyOwed, Told, Basis, Clients
<1>19. QED BY <1>6, <1>8, <1>9, <1>13, <1>16, <1>17, <1>18 DEF Told, Basis

(* Steps that leave the rings alone: it matters where the clients are, and *)
(* what waits for them there.                                              *)
LEMMA RingsStay ==
  ASSUME Told, UNCHANGED rings, sent' \in Nat, sent' >= sent, cur' \subseteq Fds,
         client' \in [Fds -> ClientRecords], owed' \in [Fds -> SUBSET Nat], NobodyOwed',
         \A f \in Clients' :
           /\ \A r \in Rings : client'[f].pos[r] \in rd[r] .. Wr(r)
           /\ Pending(f)' \subseteq owed'[f]
           /\ client'[f].resync \/ owed'[f] \subseteq Pending(f)'
  PROVE  Told'
<1>1. ring' = ring /\ rd' = rd
  BY DEF rings
<1>2. \A r \in Rings : Wr(r)' = Wr(r) /\ Held(r)' = Held(r) /\ \A p : Frame(r, p)' = Frame(r, p)
  BY <1>1 DEF Wr, Held, Frame
<1>3. RingsOK'
  BY <1>1 DEF Told, Basis, RingsOK
<1>4. OneFrameEach'
  <2>1. \A r \in Rings : \A p \in Held(r) : Frame(r, p).id \in Nat
    BY FramesHeld DEF Told, Basis
  <2>2. ASSUME NEW r \in Rings, NEW p \in Held(r) PROVE Frame(r, p).id <= sent'
    <3>1. Frame(r, p).id <= sent /\ sent \in Nat
      BY DEF Told, Basis, OneFrameEach, RingsOK
    <3>2. QED BY <2>1, <3>1
  <2>3. \A r, s \in Rings : \A p \in Held(r), q \in Held(s) :
          Frame(r, p).id = Frame(s, q).id => r = s /\ p = q
    BY DEF Told, Basis, OneFrameEach
  <2>4. QED BY <1>2, <2>2, <2>3 DEF OneFrameEach
<1>5. InPlace'
  BY <1>1, <1>2 DEF InPlace
<1>6. NothingStale' /\ NoSilentLoss'
  BY DEF NothingStale, NoSilentLoss
<1>7. QED BY <1>3, <1>4, <1>5, <1>6 DEF Told, Basis

(* A client that stays where it is.                                        *)
Stays(f) ==
  /\ client[f].used /\ client'[f].pos = client[f].pos
  /\ \/ client'[f].resync = client[f].resync /\ owed'[f] = owed[f]
     \/ client'[f].resync /\ owed[f] \subseteq owed'[f]
     \/ owed'[f] = owed[f] \cap Pending(f)

LEMMA StaysWhereItIs ==
  ASSUME Told, UNCHANGED rings, NEW f \in Fds, Stays(f)
  PROVE  /\ \A r \in Rings : client'[f].pos[r] \in rd[r] .. Wr(r)
         /\ Pending(f)' \subseteq owed'[f]
         /\ client'[f].resync \/ owed'[f] \subseteq Pending(f)'
<1>1. f \in Clients
  BY DEF Stays, Clients
<1>2. \A r \in Rings : client'[f].pos[r] = client[f].pos[r]
  BY DEF Stays
<1>3. \A i : i \in Pending(f)' <=> i \in Pending(f)
  <2>1. \A r \in Rings : Waiting(f, r)' = Waiting(f, r) /\ \A p : Frame(r, p)' = Frame(r, p)
    BY <1>2 DEF Waiting, Wr, Frame, rings
  <2>2. QED BY <2>1, WhatWaits, WhatWaitsNext
<1>4. Pending(f) \subseteq owed[f] /\ (client[f].resync \/ owed[f] \subseteq Pending(f))
  BY <1>1 DEF Told, NothingStale, NoSilentLoss
<1>5. \A r \in Rings : client[f].pos[r] \in rd[r] .. Wr(r)
  BY <1>1 DEF Told, Basis, InPlace
<1>6. Pending(f)' \subseteq owed'[f] /\ (client'[f].resync \/ owed'[f] \subseteq Pending(f)')
  BY <1>3, <1>4 DEF Stays
<1>7. QED BY <1>2, <1>5, <1>6

LEMMA AllStay ==
  ASSUME Told, UNCHANGED rings, sent' \in Nat, sent' >= sent, cur' \subseteq Fds,
         client' \in [Fds -> ClientRecords], owed' \in [Fds -> SUBSET Nat], NobodyOwed',
         \A f \in Fds : client'[f].used => Stays(f)
  PROVE  Told'
<1>1. \A f \in Clients' : f \in Fds /\ client'[f].used
  BY DEF Clients
<1>2. QED BY <1>1, RingsStay, StaysWhereItIs

(* Somebody else's step.                                                   *)
LEMMA NothingChanges ==
  ASSUME Told, UNCHANGED <<rings, client, owed, sent>>, cur' \subseteq Fds
  PROVE  Told'
<1>1. /\ client' \in [Fds -> ClientRecords] /\ owed' \in [Fds -> SUBSET Nat]
      /\ sent' \in Nat /\ sent' >= sent
  BY DEF Told, Basis, RingsOK
<1>2. \A f \in Fds : client'[f].used => Stays(f)
  BY DEF Stays
<1>3. NobodyOwed'
  BY DEF Told, Basis, NobodyOwed
<1>4. QED BY <1>1, <1>2, <1>3, AllStay

(* A client is forgotten.                                                  *)
LEMMA ForgetKeeps ==
  ASSUME Told, NEW f \in Fds, Forget(f), UNCHANGED <<rings, sent>>, cur' \subseteq Fds
  PROVE  Told'
<1>1. NoClient \in ClientRecords /\ ~NoClient.used
  BY DEF NoClient, ClientRecords
<1>2. /\ client' \in [Fds -> ClientRecords] /\ owed' \in [Fds -> SUBSET Nat]
      /\ sent' \in Nat /\ sent' >= sent
  BY <1>1 DEF Told, Basis, RingsOK, Forget
<1>3. \A g \in Fds : client'[g].used => Stays(g)
  BY <1>1 DEF Told, Basis, Forget, Stays
<1>4. NobodyOwed'
  BY DEF Told, Basis, NobodyOwed, Forget
<1>5. QED BY <1>2, <1>3, <1>4, AllStay

-----------------------------------------------------------------------------
(* The greeting goes to a client.                                          *)
Greets ==
  /\ pc \in [Tasks \cup {Http} -> Stages] /\ back \in {"loop", "clear"}
  /\ pc[Http] = "hello" => cur \subseteq Clients
  /\ Clients \subseteq open /\ todo \subseteq Fds

Promise == Told /\ Greets

(* The messages.                                                           *)
LEMMA MessageKeeps ==
  ASSUME Told, ToAll \/ (\E f \in Fds : ToOne(f)), UNCHANGED cur
  PROVE  Told'
<1>1. cur' \subseteq Fds
  BY DEF Told, Basis
<1>2. CASE ToAll
  <2>1. "event" \in Rings /\ kBroadcast \in Fds \cup {kBroadcast}
    BY DEF Rings
  <2>2. \A f \in Clients : f \in Clients <=> kBroadcast \in {kBroadcast, f}
    OBVIOUS
  <2>3. QED BY <1>1, <1>2, <2>1, <2>2, AddKeeps DEF ToAll
<1>3. ASSUME NEW f \in Fds, ToOne(f)
      PROVE  Told'
  <2>1. CASE f \in Clients
    <3>1. "reply" \in Rings /\ f \in Fds \cup {kBroadcast} /\ {f} \in SUBSET Clients
      BY <2>1 DEF Rings
    <3>2. \A g \in Clients : g \in {f} <=> f \in {kBroadcast, g}
      BY FdsAssumption
    <3>3. QED BY <1>1, <1>3, <2>1, <3>1, <3>2, AddKeeps DEF ToOne
  <2>2. CASE f \notin Clients
    BY <1>1, <1>3, <2>2, NothingChanges DEF ToOne
  <2>3. QED BY <2>1, <2>2
<1>4. QED BY <1>2, <1>3

LEMMA HelloKeeps ==
  ASSUME Promise, Hello
  PROVE  Told'
<1>1. PICK f \in cur : /\ pc[Http] = "hello" /\ NewMessage({f}) /\ RingAdd("reply", f) /\ cur' = {}
  BY DEF Hello
<1>2. f \in Clients /\ f \in Fds
  BY <1>1 DEF Promise, Greets, Clients
<1>3. "reply" \in Rings /\ f \in Fds \cup {kBroadcast} /\ {f} \in SUBSET Clients
  BY <1>2 DEF Rings
<1>4. \A g \in Clients : g \in {f} <=> f \in {kBroadcast, g}
  BY <1>2, FdsAssumption
<1>5. QED BY <1>1, <1>3, <1>4, AddKeeps DEF Promise

(* A flag of a client is set, or the time of its stall.                    *)
LEMMA FlagKeeps ==
  ASSUME Told, UNCHANGED <<rings, owed, sent>>, cur' \subseteq Fds,
         client' \in [Fds -> ClientRecords],
         \A f \in Fds : /\ client'[f].used = client[f].used /\ client'[f].pos = client[f].pos
                        /\ client'[f].resync = client[f].resync
  PROVE  Told'
<1>1. owed' \in [Fds -> SUBSET Nat] /\ sent' \in Nat /\ sent' >= sent
  BY DEF Told, Basis, RingsOK
<1>2. \A f \in Fds : client'[f].used => Stays(f)
  BY DEF Stays
<1>3. NobodyOwed'
  BY DEF Told, Basis, NobodyOwed
<1>4. QED BY <1>1, <1>2, <1>3, AllStay

LEMMA WantStatusKeeps ==
  ASSUME Told, NEW f \in Fds, WantStatus(f), UNCHANGED cur
  PROVE  Told'
<1>1. client \in [Fds -> ClientRecords] /\ cur' \subseteq Fds
  BY DEF Told, Basis
<1> DEFINE wanted == client[f].status \/ client[f].used
<1>2. wanted \in BOOLEAN
  OBVIOUS
<1>3. client' = [client EXCEPT ![f].status = wanted]
  BY DEF WantStatus
<1> HIDE DEF wanted
<1>4. client' \in [Fds -> ClientRecords]
  BY <1>1, <1>2, <1>3 DEF ClientRecords
<1>5. \A g \in Fds : /\ client'[g].used = client[g].used /\ client'[g].pos = client[g].pos
                     /\ client'[g].resync = client[g].resync
  BY <1>1, <1>3 DEF ClientRecords
<1>6. QED BY <1>1, <1>4, <1>5, FlagKeeps DEF WantStatus

LEMMA LongPauseKeeps ==
  ASSUME Told, LongPause
  PROVE  Told'
<1>1. client \in [Fds -> ClientRecords] /\ cur' \subseteq Fds
  BY DEF Told, Basis, LongPause, pass
<1>2. \A x \in {"no", "fresh", "old"} : Later(x) \in {"no", "fresh", "old"}
  BY DEF Later
<1>3. client' \in [Fds -> ClientRecords]
  BY <1>1, <1>2 DEF LongPause, ClientRecords
<1>4. \A g \in Fds : /\ client'[g].used = client[g].used /\ client'[g].pos = client[g].pos
                     /\ client'[g].resync = client[g].resync
  BY <1>1 DEF LongPause, ClientRecords
<1>5. QED BY <1>1, <1>3, <1>4, FlagKeeps DEF LongPause

LEMMA NotBuiltKeeps ==
  ASSUME Told, NotBuilt, UNCHANGED cur
  PROVE  Told'
<1>1. client \in [Fds -> ClientRecords] /\ cur' \subseteq Fds /\ UNCHANGED rings
  BY DEF Told, Basis, NotBuilt
<1>2. \A f \in Fds : (client[f].resync \/ client[f].used) \in BOOLEAN
  OBVIOUS
<1>3. client' \in [Fds -> ClientRecords]
  BY <1>1, <1>2 DEF NotBuilt, ClientRecords
<1>4. /\ sent' = sent + 1 /\ sent \in Nat
      /\ owed' = [f \in Fds |-> IF f \in Clients THEN owed[f] \cup {sent + 1} ELSE owed[f]]
  BY DEF NotBuilt, NewMessage, Told, Basis, RingsOK
<1>5. \A f \in Fds : client'[f] = [client[f] EXCEPT !.resync = @ \/ client[f].used]
  BY DEF NotBuilt
<1>6. ASSUME NEW f \in Fds, client'[f].used
      PROVE  Stays(f)
  <2> DEFINE told == client[f].resync \/ client[f].used
  <2>1. client'[f] = [client[f] EXCEPT !.resync = told]
    BY <1>5
  <2>2. client[f].used => told
    OBVIOUS
  <2> HIDE DEF told
  <2>3. client[f].used /\ client'[f].pos = client[f].pos /\ client'[f].resync = told
    BY <1>1, <1>6, <2>1 DEF ClientRecords
  <2>4. owed[f] \subseteq owed'[f]
    BY <1>4
  <2>5. QED BY <2>2, <2>3, <2>4 DEF Stays
<1>7. owed' \in [Fds -> SUBSET Nat]
  BY <1>4 DEF Told, Basis
<1>8. NobodyOwed'
  BY <1>1, <1>4, <1>5 DEF Told, Basis, NobodyOwed, Clients, ClientRecords
<1>9. sent' \in Nat /\ sent' >= sent
  BY <1>4
<1>10. QED BY <1>1, <1>3, <1>6, <1>7, <1>8, <1>9, AllStay

(* A new client begins behind all that was sent.                           *)
LEMMA ConnectKeeps ==
  ASSUME Told, NEW f \in Fds, Connect(f), ~client[f].used
  PROVE  Told'
<1>1. /\ client \in [Fds -> ClientRecords] /\ UNCHANGED <<rings, sent, owed>> /\ cur' \subseteq Fds
      /\ owed[f] = {}
  BY DEF Told, Basis, NobodyOwed, Connect
<1> DEFINE record == [NoClient EXCEPT !.used = TRUE, !.pos = [r \in Rings |-> FirstPos(r)]]
<1>2. \A r \in Rings : FirstPos(r) = Wr(r) /\ Wr(r) \in Nat
  BY FramesHeld DEF Told, Basis, FirstPos
<1>3. record \in ClientRecords /\ record.used /\ \A r \in Rings : record.pos[r] = Wr(r)
  BY <1>2 DEF NoClient, ClientRecords
<1>4. client' = [client EXCEPT ![f] = record]
  BY DEF Connect
<1> HIDE DEF record
<1>5. client' \in [Fds -> ClientRecords] /\ client'[f] = record
  BY <1>1, <1>3, <1>4
<1>6. owed' \in [Fds -> SUBSET Nat] /\ sent' \in Nat /\ sent' >= sent /\ NobodyOwed'
  BY <1>1, <1>3, <1>4, <1>5 DEF Told, Basis, RingsOK, NobodyOwed
<1>7. ASSUME NEW g \in Clients'
      PROVE  /\ \A r \in Rings : client'[g].pos[r] \in rd[r] .. Wr(r)
             /\ Pending(g)' \subseteq owed'[g]
             /\ client'[g].resync \/ owed'[g] \subseteq Pending(g)'
  <2>1. g \in Fds /\ client'[g].used
    BY DEF Clients
  <2>2. CASE g = f
    <3>1. \A r \in Rings : Wr(r)' = Wr(r) /\ Wr(r) \in rd[r] .. Wr(r)
      <4>1. ASSUME NEW r \in Rings PROVE Wr(r) \in rd[r] .. Wr(r)
        <5>1. rd[r] \in Nat /\ Len(ring[r]) \in Nat
          BY LenProperties DEF Told, Basis, RingsOK
        <5>2. QED BY <5>1 DEF Wr
      <4>2. QED BY <1>1, <4>1 DEF Wr, rings
    <3>2. \A r \in Rings : Waiting(f, r)' = {}
      <4>1. ASSUME NEW r \in Rings PROVE Waiting(f, r)' = {}
        <5>1. Waiting(f, r)' = Wr(r) .. (Wr(r) - 1)
          BY <1>3, <1>5, <3>1 DEF Waiting
        <5>2. QED BY <1>2, <5>1
      <4>2. QED BY <4>1
    <3>3. \A i : i \notin Pending(f)'
      BY <3>2, WhatWaitsNext
    <3>4. QED BY <1>1, <1>3, <1>5, <2>2, <3>1, <3>3
  <2>3. CASE g # f
    <3>1. Stays(g)
      BY <1>1, <1>4, <2>1, <2>3 DEF Stays
    <3>2. QED BY <1>1, <2>1, <3>1, StaysWhereItIs
  <2>4. QED BY <2>2, <2>3
<1>8. QED BY <1>1, <1>5, <1>6, <1>7, RingsStay

-----------------------------------------------------------------------------
(* What is given to a client.                                              *)
LEMMA TakeResyncKeeps ==
  ASSUME Told, NEW f \in Fds, TakeResync(f), UNCHANGED <<rings, sent, cur>>
  PROVE  Told'
<1>1. /\ client \in [Fds -> ClientRecords] /\ owed \in [Fds -> SUBSET Nat] /\ cur' \subseteq Fds
      /\ sent' \in Nat /\ sent' >= sent
  BY DEF Told, Basis, RingsOK
<1>2. client' = [client EXCEPT ![f].resync = FALSE] /\ owed' = [owed EXCEPT ![f] = @ \cap Pending(f)]
  BY DEF TakeResync
<1>3. client' \in [Fds -> ClientRecords] /\ owed' \in [Fds -> SUBSET Nat]
  BY <1>1, <1>2 DEF ClientRecords
<1>4. \A g \in Fds : client'[g].used => Stays(g)
  BY <1>1, <1>2 DEF Stays, ClientRecords
<1>5. NobodyOwed'
  BY <1>1, <1>2 DEF Told, Basis, NobodyOwed, ClientRecords
<1>6. QED BY <1>1, <1>3, <1>4, <1>5, AllStay

LEMMA TakeStatusKeeps ==
  ASSUME Told, NEW f \in Fds, TakeStatus(f), UNCHANGED <<rings, sent, cur>>
  PROVE  Told'
<1>1. client \in [Fds -> ClientRecords] /\ cur' \subseteq Fds
  BY DEF Told, Basis
<1>2. client' \in [Fds -> ClientRecords]
  BY <1>1 DEF TakeStatus, ClientRecords
<1>3. \A g \in Fds : /\ client'[g].used = client[g].used /\ client'[g].pos = client[g].pos
                     /\ client'[g].resync = client[g].resync
  BY <1>1 DEF TakeStatus, ClientRecords
<1>4. QED BY <1>1, <1>2, <1>3, FlagKeeps DEF TakeStatus

(* Clients other than f stay where they are; what waits for f is what is   *)
(* owed to it, as before.                                                  *)
LEMMA OneMoves ==
  ASSUME Told, NEW f \in Fds, UNCHANGED <<rings, sent, cur>>,
         NEW place \in [Rings -> Nat], client' = [client EXCEPT ![f] = [@ EXCEPT !.pos = place]],
         NEW gone, owed' = [owed EXCEPT ![f] = @ \ gone],
         client[f].used =>
           /\ \A r \in Rings : place[r] \in rd[r] .. Wr(r)
           /\ \A i : i \in Pending(f)' <=> i \in Pending(f) /\ i \notin gone
  PROVE  Told'
<1>1. /\ client \in [Fds -> ClientRecords] /\ owed \in [Fds -> SUBSET Nat] /\ cur' \subseteq Fds
      /\ sent' \in Nat /\ sent' >= sent
  BY DEF Told, Basis, RingsOK
<1>2. client' \in [Fds -> ClientRecords] /\ owed' \in [Fds -> SUBSET Nat]
  BY <1>1 DEF ClientRecords
<1>3. /\ client'[f].pos = place /\ client'[f].resync = client[f].resync
      /\ client'[f].used = client[f].used /\ owed'[f] = owed[f] \ gone
  BY <1>1 DEF ClientRecords
<1>4. \A g \in Fds \ {f} : client'[g] = client[g] /\ owed'[g] = owed[g]
  BY <1>1
<1>5. NobodyOwed'
  BY <1>3, <1>4 DEF Told, Basis, NobodyOwed
<1>6. ASSUME NEW g \in Clients'
      PROVE  /\ \A r \in Rings : client'[g].pos[r] \in rd[r] .. Wr(r)
             /\ Pending(g)' \subseteq owed'[g]
             /\ client'[g].resync \/ owed'[g] \subseteq Pending(g)'
  <2>1. g \in Fds /\ client'[g].used
    BY DEF Clients
  <2>2. CASE g = f
    <3>1. f \in Clients
      BY <1>3, <2>1, <2>2 DEF Clients
    <3>2. Pending(f) \subseteq owed[f] /\ (client[f].resync \/ owed[f] \subseteq Pending(f))
      BY <3>1 DEF Told, NothingStale, NoSilentLoss
    <3>3. /\ \A r \in Rings : client'[f].pos[r] \in rd[r] .. Wr(r)
          /\ \A i : i \in Pending(f)' <=> i \in Pending(f) /\ i \notin gone
      BY <1>3, <3>1 DEF Clients
    <3>4. Pending(f)' \subseteq owed'[f] /\ (client'[f].resync \/ owed'[f] \subseteq Pending(f)')
      BY <1>3, <3>2, <3>3
    <3>5. QED BY <2>2, <3>3, <3>4
  <2>3. CASE g # f
    <3>1. Stays(g)
      BY <1>4, <2>1, <2>3 DEF Stays
    <3>2. QED BY <2>1, <3>1, StaysWhereItIs
  <2>4. QED BY <2>2, <2>3
<1>7. QED BY <1>1, <1>2, <1>5, <1>6, RingsStay

LEMMA TakeFromKeeps ==
  ASSUME Told, NEW f \in Fds, NEW r \in Rings, NEW p \in Waiting(f, r), TakeFrom(f, r, p),
         UNCHANGED <<rings, sent, cur>>
  PROVE  Told'
<1> DEFINE place == [s \in Rings |-> IF s = r THEN p + 1
                                     ELSE IF s = "reply" THEN Wr("reply") ELSE client[f].pos[s]]
           id == Frame(r, p).id
<1>1. /\ client \in [Fds -> ClientRecords] /\ client[f].pos \in [Rings -> Nat]
      /\ \A s \in Rings : Wr(s) \in Nat
  BY FramesHeld DEF Told, Basis, ClientRecords
<1>2. p \in Nat /\ p >= client[f].pos[r] /\ p < Wr(r)
  BY <1>1 DEF Waiting
<1>3. Rings = {"reply", "event"} /\ "reply" # "event"
  BY DEF Rings
<1>4. place \in [Rings -> Nat]
  BY <1>1, <1>2, <1>3
<1>5. client' = [client EXCEPT ![f] = [@ EXCEPT !.pos = place]]
  <2>1. place = [s \in Rings |-> IF s = r THEN p + 1
                                  ELSE IF s = "reply" THEN Wr(s) ELSE client[f].pos[s]]
    BY <1>3
  <2>2. QED BY <2>1 DEF TakeFrom
<1>6. owed' = [owed EXCEPT ![f] = @ \ {id}]
  BY DEF TakeFrom
<1>7. ASSUME client[f].used
      PROVE  /\ \A s \in Rings : place[s] \in rd[s] .. Wr(s)
             /\ \A i : i \in Pending(f)' <=> i \in Pending(f) /\ i \notin {id}
  <2>1. \A s \in Rings : /\ client[f].pos[s] \in rd[s] .. Wr(s) /\ rd[s] \in Nat
                         /\ Waiting(f, s) \subseteq Held(s)
    <3>1. \A s \in Rings : client[f].pos[s] \in rd[s] .. Wr(s) /\ rd[s] \in Nat
      BY <1>7 DEF Told, Basis, InPlace, Clients, RingsOK
    <3>2. QED BY <1>1, <3>1 DEF Waiting, Held
  <2>2. \A s \in Rings : place[s] \in rd[s] .. Wr(s)
    BY <1>1, <1>2, <2>1
  <2>3. \A s \in Rings : Waiting(f, s)' = place[s] .. (Wr(s) - 1) /\ \A q : Frame(s, q)' = Frame(s, q)
    BY <1>1, <1>4, <1>5 DEF Waiting, Wr, Frame, rings, ClientRecords
  <2>4. \A s \in Rings : \A q \in Waiting(f, s) :
          Frame(s, q).id = id => s = r /\ q = p
    BY <2>1 DEF Told, Basis, OneFrameEach
  <2> HIDE DEF id
  <2>5. ASSUME NEW s \in Rings, NEW q \in Waiting(f, s)'
        PROVE  q \in Waiting(f, s) /\ ~(s = r /\ q = p)
    <3>1. q \in place[s] .. (Wr(s) - 1)
      BY <2>3
    <3>2. CASE s = r
      BY <1>1, <1>2, <3>1, <3>2 DEF Waiting
    <3>3. CASE s # r /\ s = "reply"
      BY <1>1, <3>1, <3>3
    <3>4. CASE s # r /\ s # "reply"
      BY <1>1, <3>1, <3>4 DEF Waiting
    <3>5. QED BY <3>2, <3>3, <3>4
  <2>6. ASSUME NEW s \in Rings, NEW q \in Waiting(f, s), For(Frame(s, q), f), ~(s = r /\ q = p)
        PROVE  q \in Waiting(f, s)'
    <3>1. CASE s = r
      <4>1. ~(q < p)
        BY <2>6, <3>1 DEF TakeFrom, NextPos
      <4>2. q \in client[f].pos[r] .. (Wr(r) - 1) /\ q # p
        BY <2>6, <3>1 DEF Waiting
      <4>3. q \in (p + 1) .. (Wr(r) - 1)
        BY <1>1, <1>2, <4>1, <4>2
      <4>4. QED BY <2>3, <3>1, <4>3
    <3>2. CASE s # r /\ s = "reply"
      <4>1. NothingIn(f, "reply")
        BY <1>3, <3>2 DEF TakeFrom
      <4>2. QED BY <2>6, <3>2, <4>1 DEF NothingIn
    <3>3. CASE s # r /\ s # "reply"
      BY <2>3, <3>3 DEF Waiting
    <3>4. QED BY <3>1, <3>2, <3>3
  <2>7. \A i : i \in Pending(f)' <=>
           \E s \in Rings : \E q \in Waiting(f, s)' : For(Frame(s, q), f) /\ Frame(s, q).id = i
    BY <2>3, WhatWaitsNext
  <2>8. ASSUME NEW i, i \in Pending(f)'
        PROVE  i \in Pending(f) /\ i # id
    <3>1. PICK s \in Rings : \E q \in Waiting(f, s)' : For(Frame(s, q), f) /\ Frame(s, q).id = i
      BY <2>7, <2>8
    <3>2. PICK q \in Waiting(f, s)' : For(Frame(s, q), f) /\ Frame(s, q).id = i
      BY <3>1
    <3>3. QED BY <2>4, <2>5, <3>2, WhatWaits
  <2>9. ASSUME NEW i, i \in Pending(f), i # id
        PROVE  i \in Pending(f)'
    <3>1. PICK s \in Rings : \E q \in Waiting(f, s) : For(Frame(s, q), f) /\ Frame(s, q).id = i
      BY <2>9, WhatWaits
    <3>2. PICK q \in Waiting(f, s) : For(Frame(s, q), f) /\ Frame(s, q).id = i
      BY <3>1
    <3>3. ~(s = r /\ q = p)
      BY <2>9, <3>2 DEF id
    <3>4. QED BY <2>6, <2>7, <3>2, <3>3
  <2>10. QED BY <2>2, <2>8, <2>9
<1> HIDE DEF place, id
<1>8. QED BY <1>4, <1>5, <1>6, <1>7, OneMoves

LEMMA TakesNothingKeeps ==
  ASSUME Told, NEW f \in Fds, TakesNothing(f), UNCHANGED <<rings, sent, cur>>
  PROVE  Told'
<1> DEFINE place == [r \in Rings |-> Wr(r)]
<1>1. \A r \in Rings : Wr(r) \in Nat /\ rd[r] \in Nat /\ Wr(r) \in rd[r] .. Wr(r)
  <2>1. ASSUME NEW r \in Rings PROVE Len(ring[r]) \in Nat /\ rd[r] \in Nat
    BY LenProperties DEF Told, Basis, RingsOK
  <2>2. QED BY <2>1 DEF Wr
<1>2. place \in [Rings -> Nat]
  BY <1>1
<1>3. client \in [Fds -> ClientRecords] /\ owed \in [Fds -> SUBSET Nat]
  BY DEF Told, Basis
<1>4. client' = [client EXCEPT ![f] = [@ EXCEPT !.pos = place]]
  BY DEF TakesNothing
<1>5. owed' = [owed EXCEPT ![f] = @ \ {}]
  BY <1>3 DEF TakesNothing
<1>6. \A r \in Rings : Waiting(f, r)' = {}
  <2>1. ASSUME NEW r \in Rings PROVE Waiting(f, r)' = {}
    <3>1. Waiting(f, r)' = Wr(r) .. (Wr(r) - 1)
      BY <1>3, <1>4 DEF Waiting, Wr, rings, ClientRecords
    <3>2. QED BY <1>1, <3>1
  <2>2. QED BY <2>1
<1>7. \A i : i \notin Pending(f)' /\ i \notin Pending(f)
  BY <1>6, WhatWaits, WhatWaitsNext DEF TakesNothing, NothingIn
<1>8. \A r \in Rings : place[r] \in rd[r] .. Wr(r)
  BY <1>1
<1> HIDE DEF place
<1>9. QED BY <1>2, <1>4, <1>5, <1>7, <1>8, OneMoves

-----------------------------------------------------------------------------
(* Every step.                                                             *)
LEMMA TaskKeeps ==
  ASSUME Promise, NEW t \in Tasks, HasClients(t) \/ Broadcast(t) \/ SendOther(t) \/ Schedule(t)
  PROVE  Told'
<1>1. Told /\ cur \subseteq Fds
  BY DEF Promise, Told, Basis
<1>2. CASE HasClients(t)
  BY <1>1, <1>2, NothingChanges DEF HasClients, pass
<1>3. CASE Broadcast(t)
  BY <1>1, <1>3, MessageKeeps DEF Broadcast, pass
<1>4. CASE SendOther(t)
  BY <1>1, <1>4, MessageKeeps, NotBuiltKeeps DEF SendOther, pass
<1>5. CASE Schedule(t)
  BY <1>1, <1>5, NothingChanges DEF Schedule, Load, Store, Queue, pass
<1>6. QED BY <1>2, <1>3, <1>4, <1>5

LEMMA SendFrameKeeps ==
  ASSUME Promise, SendFrame
  PROVE  Told'
<1>1. PICK f \in cur : TakeResync(f) \/ TakeStatus(f)
                       \/ \E r \in Rings : \E p \in Waiting(f, r) : TakeFrom(f, r, p)
  BY DEF SendFrame
<1>2. Told /\ f \in Fds /\ UNCHANGED <<rings, sent, cur>>
  BY DEF Promise, Told, Basis, SendFrame
<1>3. QED BY <1>1, <1>2, TakeResyncKeeps, TakeStatusKeeps, TakeFromKeeps

LEMMA PassKeeps ==
  ASSUME Promise, SendPass
  PROVE  Told'
<1>1. Told /\ cur \subseteq Fds /\ todo \subseteq Fds /\ client \in [Fds -> ClientRecords]
  BY DEF Promise, Told, Basis, Greets
<1>2. CASE Clear \/ Collect \/ NextClient \/ PassOver
  <2>1. UNCHANGED <<rings, client, owed, sent>> /\ cur' \subseteq Fds
    BY <1>1, <1>2 DEF Clear, Collect, NextClient, PassOver, pass
  <2>2. QED BY <1>1, <2>1, NothingChanges
<1>3. CASE SkipStalled
  <2>1. PICK f \in todo :
          /\ IF client[f].stalled = "old" THEN Forget(f)
             ELSE client' = [client EXCEPT ![f].stalled = "fresh"] /\ UNCHANGED owed
          /\ UNCHANGED <<rings, sent, cur>>
    BY <1>3 DEF SkipStalled
  <2>2. CASE Forget(f)
    BY <1>1, <2>1, <2>2, ForgetKeeps
  <2>3. CASE client' = [client EXCEPT ![f].stalled = "fresh"] /\ UNCHANGED owed
    <3>1. client' \in [Fds -> ClientRecords]
      BY <1>1, <2>3 DEF ClientRecords
    <3>2. \A g \in Fds : /\ client'[g].used = client[g].used /\ client'[g].pos = client[g].pos
                         /\ client'[g].resync = client[g].resync
      BY <1>1, <2>3 DEF ClientRecords
    <3>3. QED BY <1>1, <2>1, <2>3, <3>1, <3>2, FlagKeeps
  <2>4. QED BY <2>1, <2>2, <2>3
<1>4. CASE SendFrame
  BY <1>4, SendFrameKeeps
<1>5. CASE SendFails
  <2>1. PICK f \in cur : Forget(f)
    BY <1>5 DEF SendFails
  <2>2. UNCHANGED <<rings, sent>> /\ cur' \subseteq Fds
    BY <1>5 DEF SendFails
  <2>3. QED BY <1>1, <2>1, <2>2, ForgetKeeps
<1>6. CASE LoopOver
  <2>1. PICK f \in cur : TakesNothing(f) \/ UNCHANGED <<client, owed>>
    BY <1>6 DEF LoopOver
  <2>2. UNCHANGED <<rings, sent, cur>>
    BY <1>6 DEF LoopOver, pass
  <2>3. QED BY <1>1, <2>1, <2>2, TakesNothingKeeps, NothingChanges
<1>7. CASE After
  <2>1. PICK f \in cur : client' = [client EXCEPT ![f].stalled = IF full THEN @ ELSE "no"]
    BY <1>7 DEF After
  <2>2. UNCHANGED <<rings, owed, sent>> /\ cur' \subseteq Fds
    BY <1>7 DEF After
  <2>3. client' \in [Fds -> ClientRecords]
    BY <1>1, <2>1 DEF ClientRecords
  <2>4. \A g \in Fds : /\ client'[g].used = client[g].used /\ client'[g].pos = client[g].pos
                       /\ client'[g].resync = client[g].resync
    BY <1>1, <2>1 DEF ClientRecords
  <2>5. QED BY <1>1, <2>2, <2>3, <2>4, FlagKeeps
<1>8. QED
  BY <1>2, <1>3, <1>4, <1>5, <1>6, <1>7 DEF SendPass

LEMMA ToldStep ==
  ASSUME Promise, [Next]_vars
  PROVE  Told'
<1>1. Told /\ cur \subseteq Fds
  BY DEF Promise, Told, Basis
<1>2. CASE \E t \in Tasks : HasClients(t) \/ Broadcast(t) \/ SendOther(t) \/ Schedule(t)
  BY <1>2, TaskKeeps
<1>3. CASE JobRuns \/ Schedule(Http) \/ ShortPause \/ UNCHANGED vars
  BY <1>1, <1>3, NothingChanges DEF JobRuns, Schedule, Load, Store, Queue, ShortPause, vars, pass
<1>4. CASE Hello
  BY <1>4, HelloKeeps
<1>5. CASE SendPass
  BY <1>5, PassKeeps
<1>6. CASE Command
  <2>1. UNCHANGED cur
    BY <1>6 DEF Command, pass
  <2>2. PICK f \in Fds : ToOne(f) \/ WantStatus(f) \/ ToAll
    BY <1>6 DEF Command
  <2>3. QED BY <1>1, <2>1, <2>2, MessageKeeps, WantStatusKeeps
<1>7. ASSUME NEW f \in Fds, Connect(f)
      PROVE  Told'
  <2>1. ~client[f].used
    BY <1>7 DEF Promise, Greets, Clients, Connect
  <2>2. QED BY <1>1, <1>7, <2>1, ConnectKeeps
<1>8. ASSUME NEW f \in Fds, Leave(f) \/ SocketCloses(f)
      PROVE  Told'
  BY <1>1, <1>8, ForgetKeeps DEF Leave, SocketCloses, pass
<1>9. CASE LongPause
  BY <1>1, <1>9, LongPauseKeeps
<1>10. QED
  BY <1>2, <1>3, <1>4, <1>5, <1>6, <1>7, <1>8, <1>9 DEF Next, HttpStep

-----------------------------------------------------------------------------
(* Nobody becomes a client but by connecting.                              *)
LEMMA MessageClients ==
  ASSUME Told, ToAll \/ NotBuilt \/ (\E f \in Fds : ToOne(f)) \/ Hello
  PROVE  Clients' = Clients
<1>1. client \in [Fds -> ClientRecords] /\ RingsOK
  BY DEF Told, Basis
<1>2. ASSUME NEW r \in Rings, NEW to, RingAdd(r, to)
      PROVE  Clients' = Clients
  <2>1. PICK gone : client' = [f \in Fds |->
            IF client[f].used /\ client[f].pos[r] < gone THEN MovedOn(f, r, gone) ELSE client[f]]
    BY <1>2 DEF RingAdd
  <2>2. \A f \in Fds : MovedOn(f, r, gone).used = client[f].used
    BY <1>1 DEF MovedOn, ClientRecords
  <2>3. QED BY <2>1, <2>2 DEF Clients
<1>3. "reply" \in Rings /\ "event" \in Rings
  BY DEF Rings
<1>4. CASE ToAll \/ Hello
  BY <1>2, <1>3, <1>4 DEF ToAll, Hello
<1>5. CASE NotBuilt
  BY <1>1, <1>5 DEF NotBuilt, Clients, ClientRecords
<1>6. CASE \E f \in Fds : ToOne(f)
  BY <1>2, <1>3, <1>6 DEF ToOne, Clients
<1>7. QED BY <1>4, <1>5, <1>6

LEMMA GreetsStep ==
  ASSUME Promise, [Next]_vars
  PROVE  Greets'
<1>1. /\ Told /\ client \in [Fds -> ClientRecords] /\ cur \subseteq Fds
      /\ pc \in [Tasks \cup {Http} -> Stages] /\ back \in {"loop", "clear"}
      /\ pc[Http] = "hello" => cur \subseteq Clients
      /\ Clients \subseteq open /\ todo \subseteq Fds
  BY DEF Promise, Told, Basis, Greets
<1>2. /\ {"loop", "clear", "add", "load", "store", "queue", "collect", "next", "send", "after"}
           \subseteq Stages
      /\ "hello" \in Stages
  BY DEF Stages
<1>3. CASE \E t \in Tasks : HasClients(t) \/ Broadcast(t) \/ SendOther(t) \/ Schedule(t)
  <2>1. PICK t \in Tasks : HasClients(t) \/ Broadcast(t) \/ SendOther(t) \/ Schedule(t)
    BY <1>3
  <2>2. t # Http
    BY HttpAssumption
  <2>3. UNCHANGED <<back, open, cur, todo>>
    BY <2>1 DEF HasClients, Broadcast, SendOther, Schedule, Load, Store, Queue, pass
  <2>4. Clients' = Clients
    <3>1. CASE Broadcast(t) \/ SendOther(t)
      BY <1>1, <3>1, MessageClients DEF Broadcast, SendOther
    <3>2. CASE HasClients(t) \/ Schedule(t)
      BY <3>2 DEF HasClients, Schedule, Load, Store, Queue, Clients
    <3>3. QED BY <2>1, <3>1, <3>2
  <2>5. pc' \in [Tasks \cup {Http} -> Stages] /\ pc'[Http] = pc[Http]
    BY <1>1, <1>2, <2>1, <2>2 DEF HasClients, Broadcast, SendOther, Schedule, Load, Store, Queue,
      Goto, Scheduled
  <2>6. QED BY <1>1, <2>3, <2>4, <2>5 DEF Greets
<1>4. CASE Hello
  <2>1. Clients' = Clients /\ UNCHANGED <<back, open, todo>> /\ cur' = {} /\ Goto(Http, "load")
    BY <1>1, <1>4, MessageClients DEF Hello
  <2>2. QED BY <1>1, <1>2, <2>1 DEF Greets, Goto
<1>5. CASE Command
  <2>1. UNCHANGED <<open, todo, cur>> /\ back' \in {"clear", "loop"} /\ Goto(Http, "load")
    BY <1>5 DEF Command, pass
  <2>2. Clients' = Clients
    <3>1. ASSUME NEW f \in Fds, WantStatus(f) PROVE Clients' = Clients
      BY <1>1, <3>1 DEF WantStatus, Clients, ClientRecords
    <3>2. QED BY <1>1, <1>5, <3>1, MessageClients DEF Command
  <2>3. QED BY <1>1, <1>2, <2>1, <2>2 DEF Greets, Goto
<1>6. ASSUME NEW f \in Fds, Connect(f)
      PROVE  Greets'
  <2>1. Clients' = Clients \cup {f}
    <3>1. client'[f].used /\ \A g \in Fds \ {f} : client'[g] = client[g]
      BY <1>1, <1>6 DEF Connect, NoClient
    <3>2. QED BY <3>1 DEF Clients
  <2>2. UNCHANGED <<back, todo>> /\ cur' = {f} /\ open' = open \cup {f} /\ Goto(Http, "hello")
    BY <1>6 DEF Connect
  <2>3. QED BY <1>1, <1>2, <2>1, <2>2 DEF Greets, Goto
<1>7. ASSUME NEW f \in Fds, Leave(f) \/ SocketCloses(f)
      PROVE  Greets'
  <2>1. Clients' = Clients \ {f}
    BY <1>1, <1>7 DEF Leave, SocketCloses, Forget, NoClient, Clients
  <2>2. UNCHANGED <<back, todo, cur, pc>> /\ open \ {f} \subseteq open' /\ pc[Http] = "loop"
    BY <1>7 DEF Leave, SocketCloses, pass
  <2>3. QED BY <1>1, <2>1, <2>2 DEF Greets
<1>8. CASE LongPause \/ ShortPause \/ UNCHANGED vars
  <2>1. Clients' = Clients
    <3>1. CASE UNCHANGED client
      BY <3>1 DEF Clients
    <3>2. CASE LongPause
      <4>1. client' = [f \in Fds |-> [client[f] EXCEPT !.stalled = Later(@)]]
        BY <3>2 DEF LongPause
      <4>2. ASSUME NEW f \in Fds
            PROVE  client'[f].used = client[f].used
        <5>1. client[f] \in ClientRecords
          BY <1>1
        <5>2. QED BY <4>1, <5>1 DEF ClientRecords
      <4>3. QED BY <4>2 DEF Clients
    <3>3. QED BY <1>8, <3>1, <3>2 DEF ShortPause, vars
  <2>2. UNCHANGED <<back, todo, cur, pc, open>>
    BY <1>8 DEF LongPause, ShortPause, vars, pass
  <2>3. QED BY <1>1, <2>1, <2>2 DEF Greets
<1>9. CASE JobRuns \/ Schedule(Http)
  <2>1. UNCHANGED <<back, todo, cur, open>> /\ Clients' = Clients
    BY <1>9 DEF JobRuns, Schedule, Load, Store, Queue, pass, Clients
  <2>2. pc' \in [Tasks \cup {Http} -> Stages] /\ pc'[Http] # "hello"
    BY <1>1, <1>2, <1>9 DEF JobRuns, Schedule, Load, Store, Queue, Goto, Scheduled
  <2>3. QED BY <1>1, <2>1, <2>2 DEF Greets
<1>10. CASE SendPass
  <2>1. back' \in {"loop", "clear"} /\ UNCHANGED open /\ todo' \subseteq Fds
    BY <1>1, <1>10 DEF SendPass, Clear, Collect, NextClient, SkipStalled, PassOver, SendFrame,
      SendFails, LoopOver, After, pass, Clients
  <2>2. pc' \in [Tasks \cup {Http} -> Stages] /\ pc'[Http] # "hello"
    BY <1>1, <1>2, <1>10 DEF SendPass, Clear, Collect, NextClient, SkipStalled, PassOver, SendFrame,
      SendFails, LoopOver, After, Goto, Turn
  <2>3. Clients' \subseteq Clients
    <3>1. CASE Clear \/ Collect \/ NextClient \/ PassOver
      BY <3>1 DEF Clear, Collect, NextClient, PassOver, Clients
    <3>2. CASE SkipStalled \/ SendFails
      BY <1>1, <3>2 DEF SkipStalled, SendFails, Forget, NoClient, Clients, ClientRecords
    <3>3. ASSUME NEW f \in Fds,
                 \/ TakeResync(f) \/ TakeStatus(f)
                 \/ \E r \in Rings : \E p \in Waiting(f, r) : TakeFrom(f, r, p)
                 \/ TakesNothing(f)
          PROVE  Clients' \subseteq Clients
      <4>1. /\ \A g \in Fds \ {f} : client'[g] = client[g]
            /\ client'[f].used = client[f].used
        <5>1. CASE TakeResync(f) \/ TakeStatus(f)
          BY <1>1, <5>1 DEF TakeResync, TakeStatus, ClientRecords
        <5>2. ASSUME NEW x, client' = [client EXCEPT ![f].pos = x]
              PROVE  /\ \A g \in Fds \ {f} : client'[g] = client[g]
                     /\ client'[f].used = client[f].used
          BY <1>1, <5>2 DEF ClientRecords
        <5>3. CASE \E r \in Rings : \E p \in Waiting(f, r) : TakeFrom(f, r, p)
          BY <5>2, <5>3 DEF TakeFrom
        <5>4. CASE TakesNothing(f)
          BY <5>2, <5>4 DEF TakesNothing
        <5>5. QED BY <3>3, <5>1, <5>3, <5>4
      <4>2. QED BY <4>1 DEF Clients
    <3>4. CASE SendFrame
      BY <1>1, <3>3, <3>4 DEF SendFrame, Basis
    <3>5. CASE LoopOver
      BY <1>1, <3>3, <3>5 DEF LoopOver, Clients
    <3>6. CASE After
      <4>1. PICK f \in cur :
              client' = [client EXCEPT ![f].stalled = IF full THEN @ ELSE "no"]
        BY <3>6 DEF After
      <4>2. \A g \in Fds : client'[g].used = client[g].used
        BY <1>1, <4>1 DEF ClientRecords
      <4>3. QED BY <4>2 DEF Clients
    <3>7. QED BY <1>10, <3>1, <3>2, <3>4, <3>5, <3>6 DEF SendPass
  <2>4. QED BY <1>1, <2>1, <2>2, <2>3 DEF Greets
<1>11. QED
  BY <1>3, <1>4, <1>5, <1>6, <1>7, <1>8, <1>9, <1>10 DEF Next, HttpStep

-----------------------------------------------------------------------------
LEMMA PromiseHolds == Spec => []Promise
<1>1. Init => Promise
  <2> SUFFICES ASSUME Init PROVE Promise
    OBVIOUS
  <2>1. NoClient \in ClientRecords /\ ~NoClient.used
    BY DEF NoClient, ClientRecords
  <2>2. Clients = {} /\ client \in [Fds -> ClientRecords] /\ owed = [f \in Fds |-> {}]
    BY <2>1 DEF Init, Clients
  <2>3. \A r \in Rings : ring[r] = <<>> /\ rd[r] = 0 /\ Wr(r) = 0
    BY DEF Init, Wr
  <2>4. RingsOK /\ \A r \in Rings : Held(r) = {}
    BY <2>3 DEF Init, RingsOK, Held
  <2>5. Told
    BY <2>2, <2>4 DEF Told, Basis, InPlace, OneFrameEach, NobodyOwed, NoSilentLoss, NothingStale,
      Init
  <2>6. Greets
    BY <2>2 DEF Init, Greets, Stages
  <2>7. QED BY <2>5, <2>6 DEF Promise
<1>2. Promise /\ [Next]_vars => Promise'
  BY ToldStep, GreetsStep DEF Promise
<1>3. QED BY <1>1, <1>2, PTL DEF Spec

(* A client has what it should get waiting for it, or is told to resync,   *)
(* whatever leaves the rings and whenever it is served (ring_add,          *)
(* take_frame).                                                            *)
THEOREM NothingLostSilently == Spec => []NoSilentLoss
<1>1. Promise => NoSilentLoss
  BY DEF Promise, Told
<1>2. QED BY <1>1, PromiseHolds, PTL

(* Nothing waits for a client that it has had, nor what was meant for the  *)
(* one that had its socket before (ws_handler, take_frame).                *)
THEOREM NothingSentAgain == Spec => []NothingStale
<1>1. Promise => NothingStale
  BY DEF Promise, Told
<1>2. QED BY <1>1, PromiseHolds, PTL

-----------------------------------------------------------------------------
(* The types.  What Promise does not say: the rings stay small, and the    *)
(* variables of the job, the pass and the time.                            *)
Small == \A r \in Rings : Len(ring[r]) <= RingFrames

JobTypes == queued \in {"none", "fresh", "old"} /\ jobs \in 0 .. MailSlots /\ lost \in BOOLEAN

PassTypes ==
  /\ left \in 0 .. PerPass /\ full \in BOOLEAN /\ more \in BOOLEAN
  /\ waits \in Nat /\ busy \in [Fds -> BOOLEAN] /\ open \subseteq Fds

LEMMA SmallStep ==
  ASSUME Promise, Small, [Next]_vars
  PROVE  Small'
<1>1. RingsOK
  BY DEF Promise, Told, Basis
<1>2. ASSUME UNCHANGED ring
      PROVE  Small'
  BY <1>2 DEF Small
<1>3. ASSUME NEW r \in Rings, NEW to, RingAdd(r, to)
      PROVE  Small'
  <2>1. PICK n \in 0 .. Len(ring[r]) :
          /\ Len(ring[r]) - n < RingFrames
          /\ ring' = [ring EXCEPT ![r] =
                        Append(SubSeq(@, n + 1, Len(@)), [to |-> to, id |-> sent + 1])]
    BY <1>3 DEF RingAdd
  <2> DEFINE x == [to |-> to, id |-> sent + 1]
             S == Frames \cup {x}
  <2>2. ring[r] \in Seq(Frames) /\ Len(ring[r]) \in Nat
    BY <1>1, LenProperties DEF RingsOK
  <2>3. ring[r] \in Seq(S) /\ x \in S
    <3>1. \A i \in 1 .. Len(ring[r]) : ring[r][i] \in S
      BY <2>2, ElementOfSeq
    <3>2. ring[r] = [i \in 1 .. Len(ring[r]) |-> ring[r][i]]
      BY <2>2, LenProperties
    <3>3. QED BY <2>2, <3>1, <3>2, IsASeq
  <2>4. ring'[r] = Append(SubSeq(ring[r], n + 1, Len(ring[r])), x)
    BY <1>1, <2>1 DEF RingsOK
  <2> HIDE DEF x, S
  <2>5. Len(ring'[r]) = Len(ring[r]) - n + 1
    BY <2>3, <2>4, Shifted
  <2>6. Len(ring'[r]) <= RingFrames
    BY <2>1, <2>2, <2>5, SizesAssumption
  <2>7. \A s \in Rings \ {r} : ring'[s] = ring[s]
    BY <1>1, <2>1 DEF RingsOK
  <2>8. QED BY <2>6, <2>7 DEF Small
<1>4. ASSUME ToAll \/ \E f \in Fds : ToOne(f) \/ WantStatus(f)
      PROVE  Small'
  <2>1. "event" \in Rings /\ "reply" \in Rings
    BY DEF Rings
  <2>2. CASE ToAll
    BY <1>3, <2>1, <2>2 DEF ToAll
  <2>3. ASSUME NEW f \in Fds, ToOne(f)
        PROVE  Small'
    BY <1>2, <1>3, <2>1, <2>3 DEF ToOne, rings
  <2>4. CASE \E f \in Fds : WantStatus(f)
    BY <1>2, <2>4 DEF WantStatus, rings
  <2>5. QED BY <1>4, <2>2, <2>3, <2>4
<1>5. CASE \E t \in Tasks : Broadcast(t) \/ SendOther(t)
  BY <1>2, <1>4, <1>5 DEF Broadcast, SendOther, NotBuilt, rings
<1>6. CASE Hello
  <2>1. "reply" \in Rings
    BY DEF Rings
  <2>2. QED BY <1>3, <1>6, <2>1 DEF Hello
<1>7. CASE Command
  BY <1>4, <1>7 DEF Command
<1>8. CASE \/ \E t \in Tasks : HasClients(t) \/ Schedule(t)
           \/ JobRuns \/ Schedule(Http) \/ SendPass
           \/ \E f \in Fds : Connect(f) \/ Leave(f) \/ SocketCloses(f)
           \/ ShortPause \/ LongPause \/ UNCHANGED vars
  <2>1. UNCHANGED ring
    BY <1>8 DEF HasClients, Schedule, Load, Store, Queue, JobRuns, SendPass, Clear, Collect,
      NextClient, SkipStalled, PassOver, SendFrame, SendFails, LoopOver, After, Connect, Leave,
      SocketCloses, ShortPause, LongPause, vars, rings
  <2>2. QED BY <1>2, <2>1
<1>9. QED BY <1>5, <1>6, <1>7, <1>8 DEF Next, HttpStep

LEMMA JobTypesStep ==
  ASSUME JobTypes, [Next]_vars
  PROVE  JobTypes'
<1>1. CASE UNCHANGED job
  BY <1>1 DEF JobTypes, job
<1>2. ASSUME NEW t, Store(t) \/ Queue(t)
      PROVE  JobTypes'
  <2>1. CASE Store(t)
    BY <2>1 DEF Store, JobTypes
  <2>2. CASE Queue(t)
    <3>1. CASE jobs < MailSlots /\ jobs' = jobs + 1 /\ UNCHANGED <<queued, lost>>
      <4>1. jobs' \in 0 .. MailSlots
        BY <3>1, SizesAssumption DEF JobTypes
      <4>2. QED BY <3>1, <4>1 DEF JobTypes
    <3>2. CASE queued' \in {queued, "none"} /\ lost' = TRUE /\ UNCHANGED jobs
      BY <3>2 DEF JobTypes
    <3>3. QED BY <2>2, <3>1, <3>2 DEF Queue
  <2>3. QED BY <1>2, <2>1, <2>2
<1>3. CASE JobRuns
  <2>1. jobs' \in 0 .. MailSlots
    BY <1>3, SizesAssumption DEF JobRuns, JobTypes
  <2>2. QED BY <1>3, <2>1 DEF JobRuns, JobTypes
<1>4. CASE Clear \/ ShortPause \/ LongPause
  BY <1>4 DEF Clear, ShortPause, LongPause, Later, JobTypes
<1>5. CASE SendsAnew
  BY <1>5 DEF SendsAnew, JobTypes
<1>6. QED
  BY <1>1, <1>2, <1>3, <1>4, <1>5 DEF Next, HttpStep, Schedule, Load, SendPass, HasClients,
    Broadcast, SendOther, Hello, Command, Connect, Leave, SocketCloses, Collect, NextClient, SkipStalled,
    PassOver, SendFrame, SendFails, LoopOver, After, vars

LEMMA PassTypesStep ==
  ASSUME PassTypes, [Next]_vars
  PROVE  PassTypes'
<1>1. CASE UNCHANGED <<left, full, more, waits, busy, open>>
  BY <1>1 DEF PassTypes
<1>2. CASE Collect \/ NextClient \/ PassOver \/ SendFails
  <2>1. left' \in 0 .. PerPass
    BY <1>2, SizesAssumption DEF Collect, NextClient, PassOver, SendFails, PassTypes
  <2>2. QED BY <1>2, <2>1 DEF Collect, NextClient, PassOver, SendFails, PassTypes
<1>3. CASE SendFrame
  <2>1. left' \in 0 .. PerPass
    BY <1>3, SizesAssumption DEF SendFrame, Turn, PassTypes
  <2>2. QED BY <1>3, <2>1 DEF SendFrame, PassTypes
<1>4. CASE After
  <2>1. left' \in 0 .. PerPass
    BY <1>4, SizesAssumption DEF After
  <2>2. more' \in BOOLEAN /\ full' \in BOOLEAN /\ UNCHANGED <<waits, busy, open>>
    BY <1>4 DEF After
  <2>3. QED BY <2>1, <2>2 DEF PassTypes
<1>5. CASE LongPause
  <2>1. waits' \in Nat
    BY <1>5 DEF LongPause, PassTypes
  <2>2. QED BY <1>5, <2>1 DEF LongPause, PassTypes, pass
<1>6. CASE \E f \in Fds : Connect(f) \/ SocketCloses(f)
  <2>1. UNCHANGED <<left, full, more, waits, busy>> /\ open' \subseteq Fds
    BY <1>6 DEF Connect, SocketCloses, pass, PassTypes
  <2>2. QED BY <2>1 DEF PassTypes
<1>7. QED
  BY <1>1, <1>2, <1>3, <1>4, <1>5, <1>6 DEF Next, HttpStep, Schedule, Load, Store, Queue, SendPass,
    HasClients, Broadcast, SendOther, JobRuns, Hello, Command, Leave, Clear, SkipStalled,
    LoopOver, ShortPause, vars, pass

(* The types; a client's place is never outside what a ring holds, and     *)
(* only an open socket has a client.                                       *)
THEOREM TypeCorrect == Spec => []TypeOK
<1>1. Init => Small /\ JobTypes /\ PassTypes
  <2> SUFFICES ASSUME Init
               PROVE  Small /\ JobTypes /\ PassTypes
    OBVIOUS
  <2>1. Small
    BY SizesAssumption DEF Init, Small
  <2>2. JobTypes
    <3>1. 0 \in 0 .. MailSlots
      BY SizesAssumption
    <3>2. QED BY <3>1 DEF Init, JobTypes
  <2>3. PassTypes
    <3>1. 0 \in 0 .. PerPass /\ 0 \in Nat
      BY SizesAssumption
    <3>2. QED BY <3>1 DEF Init, PassTypes
  <2>4. QED BY <2>1, <2>2, <2>3
<1>2. Promise /\ Small /\ JobTypes /\ PassTypes /\ [Next]_vars => (Small /\ JobTypes /\ PassTypes)'
  BY SmallStep, JobTypesStep, PassTypesStep
<1>3. Promise /\ Small /\ JobTypes /\ PassTypes => TypeOK
  <2> SUFFICES ASSUME Promise, Small, JobTypes, PassTypes
               PROVE  TypeOK
    OBVIOUS
  <2>1. Told /\ Basis /\ Greets
    BY DEF Promise, Told
  <2>2. \A f \in Fds : client[f].stalled \in {"no", "fresh", "old"}
    BY <2>1 DEF Basis, ClientRecords
  <2>3. /\ open \subseteq Fds /\ Clients \subseteq open /\ back \in {"loop", "clear"}
        /\ pc \in [Tasks \cup {Http} -> Stages] /\ todo \subseteq Fds
    BY <2>1 DEF Greets, PassTypes
  <2>4. QED BY <2>1, <2>2, <2>3 DEF TypeOK, Basis, RingsOK, InPlace, Small, JobTypes, PassTypes
<1>4. QED BY <1>1, <1>2, <1>3, PromiseHolds, PTL DEF Spec
=============================================================================
