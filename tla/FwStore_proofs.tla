-------------------------- MODULE FwStore_proofs --------------------------
(***************************************************************************)
(* Proofs about FwStore, for any images, sizes, partitions and faults.     *)
(***************************************************************************)
EXTENDS FwStore, TLAPS

(* The constants' types, as the provers want them. *)
LEMMA Sizes == ASSUME NEW i \in Images PROVE SectorsOf[i] \in Nat /\ SectorsOf[i] > 0
BY FlashAssumption

LEMMA SectorsAreNat == ASSUME NEW s \in Sectors PROVE s \in Nat
BY FlashAssumption DEF Sectors

(* An image's first sector is in its extent, and the others follow it. *)
LEMMA ExtentHas ==
  ASSUME NEW i \in Images, NEW s \in Nat
  PROVE  /\ s \in Extent(i, s)
         /\ \A k \in 0 .. (SectorsOf[i] - 1) : s + k \in Extent(i, s)
         /\ \A t \in Extent(i, s) : t \in Nat /\ s <= t
BY Sizes DEF Extent

(* As no two images overlap, the scan finds every header there is. *)
LEMMA ScanFindsAll ==
  ASSUME TypeOK, Apart
  PROVE  Entries = {s \in Sectors : Holds(s)}
<1>1. ASSUME NEW s \in Sectors, Holds(s), NEW t \in Sectors, t < s, Holds(t)
      PROVE  s \notin Extent(head[t], t)
  <2>1. head[s] \in Images /\ s \in Nat /\ t \in Nat
    BY <1>1, SectorsAreNat DEF TypeOK, Holds
  <2>2. s \in Extent(head[s], s) /\ s # t
    BY <1>1, <2>1, ExtentHas
  <2>3. QED BY <1>1, <2>2 DEF Apart
<1>2. QED BY <1>1 DEF Entries

LEMMA ScanIsHead == ASSUME TypeOK, Apart PROVE Scan = head
<1>1. \A s \in Sectors : s \notin Entries => head[s] = NoImage
  BY ScanFindsAll DEF Holds
<1>2. head = [s \in Sectors |-> head[s]]
  BY DEF TypeOK
<1>3. QED BY <1>1, <1>2 DEF Scan

(* A place the search finds is clear of every image. *)
LEMMA RunIsClear ==
  ASSUME IInv, pc = "begin", NEW i \in Images, NEW s \in Sectors, FitsAt(i, s)
  PROVE  /\ Extent(i, s) \subseteq Sectors
         /\ \A t \in Extent(i, s) : Region[t] = Region[s]
         /\ \A t \in Sectors : Holds(t) => Extent(head[t], t) \cap Extent(i, s) = {}
<1>1. entries = head
  BY DEF IInv, ListInv
<1>2. QED BY <1>1 DEF FitsAt, Free, Listed, Holds

-----------------------------------------------------------------------------
(* Types.                                                                  *)

LEMMA TypeStep == ASSUME IInv, [Next]_vars PROVE TypeOK'
<1> USE FlashAssumption DEF IInv, TypeOK, Places, flash, nvs, bounds, GiveUp, Fault,
        HandOut, ClearMagic, Remove, NoEntries, Scan, Data, Erased, Rotten, Other,
        Programmed, Storing, RoomLeft
<1>1. ASSUME NEW i \in Images, Request(i) PROVE TypeOK'
  BY <1>1 DEF Request
<1>2. CASE FindHit
  BY <1>2, SectorsAreNat DEF FindHit
<1>3. CASE FindRotten
  BY <1>3, SectorsAreNat DEF FindRotten
<1>4. CASE FindMiss
  BY <1>4 DEF FindMiss
<1>5. CASE EraseKey
  BY <1>5 DEF EraseKey
<1>6. CASE Evict
  BY <1>6, SectorsAreNat DEF Evict, Entries, Holds
<1>7. CASE NoRoom
  BY <1>7 DEF NoRoom
<1>8. CASE NoRoomReported
  BY <1>8 DEF NoRoomReported
<1>9. CASE BeginRun
  BY <1>9, SectorsAreNat DEF BeginRun
<1>10. CASE EraseSector
  <2>1. PICK i \in want : pos < SectorsOf[i] /\ want = {i} /\ SectorsOf[i] \in Nat
    BY <1>10, Sizes DEF EraseSector, RequestInv
  <2>2. pos' = pos + 1 /\ want' = want /\ pos' <= SectorsOf[i]
    BY <1>10, <2>1 DEF EraseSector
  <2>3. /\ head' \in [Sectors -> Images \cup {NoImage}]
        /\ data' \in [Sectors -> Data]
    BY <1>10 DEF EraseSector
  <2>4. UNCHANGED <<use, counter, entries, pc, at, uses, faults, age>>
    BY <1>10 DEF EraseSector
  <2>5. QED BY <2>1, <2>2, <2>3, <2>4
<1>11. CASE EraseDone
  BY <1>11 DEF EraseDone
<1>12. CASE EraseFails
  BY <1>12 DEF EraseFails
<1>13. CASE WriteSector
  BY <1>13, Sizes DEF WriteSector, RequestInv
<1>14. CASE WriteFails
  BY <1>14 DEF WriteFails
<1>15. CASE WriteDone
  BY <1>15 DEF WriteDone
<1>16. CASE WrongChecksum
  BY <1>16 DEF WrongChecksum
<1>17. CASE WriteHeader
  BY <1>17 DEF WriteHeader
<1>18. CASE HeaderFails
  BY <1>18 DEF HeaderFails
<1>19. CASE Count
  BY <1>19 DEF Count
<1>20. CASE Mark
  <2>a. use' = [use EXCEPT ![at] = counter]
        /\ age' = [i \in Images |-> IF i \in want THEN uses + 1 ELSE age[i]]
    BY <1>20 DEF Mark
  <2>b. uses + 1 \in Nat
    OBVIOUS
  <2>1. use' \in [Sectors -> Nat] /\ age' \in [Images -> Nat]
    BY <2>a, <2>b
  <2>2. UNCHANGED <<head, data, counter, entries, want, at, pos, faults>>
        /\ uses' = uses + 1 /\ pc' = "use"
    BY <1>20 DEF Mark
  <2>3. QED BY <2>1, <2>2
<1>21. CASE MarkFails
  BY <1>21 DEF MarkFails
<1>22. CASE TransferDone
  BY <1>22 DEF TransferDone
<1>23. CASE Reset
  BY <1>23 DEF Reset
<1>24. ASSUME NEW s \in Sectors, Rot(s) PROVE TypeOK'
  BY <1>24 DEF Rot
<1>25. CASE UNCHANGED vars
  BY <1>25 DEF vars
<1>26. QED
  BY <1>1, <1>2, <1>3, <1>4, <1>5, <1>6, <1>7, <1>8, <1>9, <1>10, <1>11, <1>12, <1>13, <1>14,
     <1>15, <1>16, <1>17, <1>18, <1>19, <1>20, <1>21, <1>22, <1>23, <1>24, <1>25 DEF Next,
     InStore

-----------------------------------------------------------------------------
(* What a step does to the flash.                                          *)

Drops == \E s \in Sectors : ClearMagic(s)
Programs == \E i \in want, t \in Sectors :
  /\ pc \in Storing /\ t \in Extent(i, at)
  /\ head' = head \/ head' = [head EXCEPT ![t] = NoImage]
  /\ \E d : data' = [data EXCEPT ![t] = d]
Keeps == \E i \in want :
  /\ pc = "finish" /\ Matches(i, at)
  /\ head' = [head EXCEPT ![at] = i] /\ data' = data
Rots == \E s \in Sectors : data' = [data EXCEPT ![s] = Rotten] /\ head' = head

LEMMA InRun ==
  ASSUME IInv, NEW i \in want, pc \in Storing, pos < SectorsOf[i]
  PROVE  at + pos \in Extent(i, at) /\ at + pos \in Sectors
<1>1. i \in Images /\ at \in Nat /\ pos \in Nat /\ SectorsOf[i] \in Nat
  BY Sizes DEF IInv, TypeOK
<1>2. at + pos \in Extent(i, at)
  BY <1>1 DEF Extent
<1>3. QED BY <1>2 DEF IInv, RequestInv

LEMMA FlashEffect ==
  ASSUME IInv, [Next]_vars
  PROVE  UNCHANGED flash \/ Drops \/ Programs \/ Keeps \/ Rots
<1> USE DEF flash
<1>1. CASE FindRotten
  BY <1>1 DEF FindRotten, Drops
<1>2. CASE Evict
  BY <1>2 DEF Evict, Drops, Entries
<1>3. CASE EraseSector
  <2>1. PICK i \in want : /\ pc = "erase" /\ RoomLeft(i)
                          /\ head' = [head EXCEPT ![at + pos] = NoImage]
                          /\ data' = [data EXCEPT ![at + pos] = Erased]
    BY <1>3 DEF EraseSector
  <2>2. QED BY <2>1, InRun DEF Programs, Storing, RoomLeft
<1>4. CASE WriteSector
  <2>1. PICK i \in want : /\ pc = "write" /\ RoomLeft(i)
                          /\ head' = head
                          /\ \E d : data' = [data EXCEPT ![at + pos] = d]
    BY <1>4 DEF WriteSector
  <2>2. QED BY <2>1, InRun DEF Programs, Storing, RoomLeft
<1>5. CASE WriteHeader
  BY <1>5 DEF WriteHeader, Keeps
<1>6. CASE HeaderFails
  BY <1>6 DEF HeaderFails, Keeps
<1>7. ASSUME NEW s \in Sectors, Rot(s) PROVE Rots
  BY <1>7 DEF Rot, Rots
<1>8. CASE \E i \in Images : Request(i)
  BY <1>8 DEF Request
<1>9. CASE FindHit \/ FindMiss \/ EraseKey \/ NoRoom \/ NoRoomReported \/ BeginRun
  BY <1>9 DEF FindHit, FindMiss, EraseKey, NoRoom, NoRoomReported, BeginRun
<1>10. CASE EraseDone \/ EraseFails \/ WriteFails \/ WriteDone \/ WrongChecksum
  BY <1>10 DEF EraseDone, EraseFails, WriteFails, WriteDone, WrongChecksum
<1>11. CASE Count \/ Mark \/ MarkFails \/ TransferDone \/ Reset
  BY <1>11 DEF Count, Mark, MarkFails, TransferDone, Reset, HandOut
<1>12. CASE UNCHANGED vars
  BY <1>12 DEF vars
<1>13. QED
  BY <1>1, <1>2, <1>3, <1>4, <1>5, <1>6, <1>7, <1>8, <1>9, <1>10, <1>11, <1>12 DEF Next,
     InStore

-----------------------------------------------------------------------------
(* The layout: images are whole, apart from each other, each only once.    *)

Layout == HeaderMeansData /\ InOneRegion /\ Apart

LEMMA DropsLayout == ASSUME IInv, Drops PROVE Layout'
<1>1. PICK s \in Sectors : head' = [head EXCEPT ![s] = NoImage] /\ data' = data
  BY DEF Drops, ClearMagic
<1>2. \A t \in Sectors : Holds(t)' => Holds(t) /\ head'[t] = head[t]
  BY <1>1 DEF IInv, TypeOK, Holds
<1>3. QED BY <1>1, <1>2 DEF IInv, Layout, HeaderMeansData, InOneRegion, Apart, Extent

LEMMA RotsLayout == ASSUME IInv, Rots PROVE Layout'
<1>1. PICK s \in Sectors : data' = [data EXCEPT ![s] = Rotten] /\ head' = head
  BY DEF Rots
<1>2. \A t \in Sectors : data'[t] = data[t] \/ data'[t] = Rotten
  BY <1>1 DEF IInv, TypeOK
<1>3. ASSUME NEW t \in Sectors, Holds(t), NEW k \in 0 .. (SectorsOf[head[t]] - 1)
      PROVE  data'[t + k] \in {<<head[t], k>>, Rotten}
  <2>1. t \in Nat /\ head[t] \in Images
    BY <1>3, SectorsAreNat DEF IInv, TypeOK, Holds
  <2>2. t + k \in Sectors
    BY <1>3, <2>1, ExtentHas DEF IInv, HeaderMeansData
  <2>3. QED BY <1>2, <1>3, <2>2 DEF IInv, HeaderMeansData
<1>4. HeaderMeansData'
  BY <1>1, <1>3 DEF HeaderMeansData, IInv, Holds, Extent
<1>5. QED BY <1>1, <1>4 DEF IInv, Layout, InOneRegion, Apart, Extent, Holds

LEMMA ProgramsLayout == ASSUME IInv, Programs PROVE Layout' /\ head' = head
<1>1. PICK i \in want, t \in Sectors :
        /\ pc \in Storing /\ t \in Extent(i, at)
        /\ head' = head \/ head' = [head EXCEPT ![t] = NoImage]
        /\ \E d : data' = [data EXCEPT ![t] = d]
  BY DEF Programs
<1>2. \A s \in Sectors : Holds(s) => t \notin Extent(head[s], s)
  BY <1>1 DEF IInv, RequestInv
<1>3. ~Holds(t)
  <2>1. Holds(t) => head[t] \in Images /\ t \in Nat
    BY SectorsAreNat DEF IInv, TypeOK, Holds
  <2>2. QED BY <1>2, <2>1, ExtentHas
<1>4. head' = head
  BY <1>1, <1>3 DEF IInv, TypeOK, Holds
<1>5. ASSUME NEW s \in Sectors, Holds(s), NEW k \in 0 .. (SectorsOf[head[s]] - 1)
      PROVE  data'[s + k] = data[s + k]
  <2>1. s \in Nat /\ head[s] \in Images
    BY <1>5, SectorsAreNat DEF IInv, TypeOK, Holds
  <2>2. s + k \in Extent(head[s], s) /\ s + k \in Sectors
    BY <1>5, <2>1, ExtentHas DEF IInv, HeaderMeansData
  <2>3. s + k # t
    BY <1>2, <1>5, <2>2
  <2>4. QED BY <1>1, <2>2, <2>3 DEF IInv, TypeOK
<1>6. HeaderMeansData'
  BY <1>4, <1>5 DEF HeaderMeansData, IInv, Holds, Extent
<1>7. QED BY <1>4, <1>6 DEF IInv, Layout, InOneRegion, Apart, Extent, Holds

LEMMA KeepsLayout == ASSUME IInv, Keeps PROVE Layout'
<1>1. PICK i \in want : /\ pc = "finish" /\ Matches(i, at)
                        /\ head' = [head EXCEPT ![at] = i] /\ data' = data
  BY DEF Keeps
<1>2. /\ i \in Images /\ at \in Sectors /\ at \in Nat
      /\ Extent(i, at) \subseteq Sectors
      /\ \A t \in Extent(i, at) : Region[t] = Region[at]
      /\ \A s \in Sectors : Holds(s) => Extent(head[s], s) \cap Extent(i, at) = {}
      /\ \A s \in Sectors : head[s] # i
  BY <1>1, SectorsAreNat DEF IInv, TypeOK, RequestInv, Storing
<1>3. head'[at] = i /\ \A s \in Sectors \ {at} : head'[s] = head[s]
  BY <1>1, <1>2 DEF IInv, TypeOK
<1>4. HeaderMeansData'
  <2>1. ASSUME NEW s \in Sectors, Holds(s)'
        PROVE  /\ Extent(head'[s], s) \subseteq Sectors
               /\ \A k \in 0 .. (SectorsOf[head'[s]] - 1) :
                    data[s + k] \in {<<head'[s], k>>, Rotten}
    <3>1. CASE s = at
      BY <1>1, <1>2, <1>3, <3>1 DEF Matches
    <3>2. CASE s # at
      BY <1>3, <2>1, <3>2 DEF IInv, HeaderMeansData, Holds
    <3>3. QED BY <3>1, <3>2
  <2>2. QED BY <1>1, <2>1 DEF HeaderMeansData, Extent
<1>5. InOneRegion'
  <2>1. ASSUME NEW s \in Sectors, Holds(s)', NEW t \in Extent(head'[s], s) \cap Sectors
        PROVE  Region[t] = Region[s]
    <3>1. CASE s = at
      BY <1>2, <1>3, <2>1, <3>1
    <3>2. CASE s # at
      BY <1>3, <2>1, <3>2 DEF IInv, InOneRegion, Holds
    <3>3. QED BY <3>1, <3>2
  <2>2. QED BY <2>1 DEF InOneRegion, Extent
<1>6. Apart'
  <2>1. ASSUME NEW s \in Sectors, NEW t \in Sectors, Holds(s)', Holds(t)', s # t
        PROVE  /\ Extent(head'[s], s) \cap Extent(head'[t], t) = {}
               /\ head'[s] # head'[t]
    <3>1. CASE s # at /\ t # at
      BY <1>3, <2>1, <3>1 DEF IInv, Apart, Holds
    <3>2. CASE s = at
      BY <1>2, <1>3, <2>1, <3>2 DEF Holds
    <3>3. CASE t = at
      BY <1>2, <1>3, <2>1, <3>3 DEF Holds
    <3>4. QED BY <3>1, <3>2, <3>3
  <2>2. QED BY <2>1 DEF Apart, Extent
<1>7. QED BY <1>4, <1>5, <1>6 DEF Layout

LEMMA LayoutStep == ASSUME IInv, [Next]_vars PROVE Layout'
<1>1. CASE UNCHANGED flash
  BY <1>1 DEF flash, IInv, Layout, HeaderMeansData, InOneRegion, Apart, Extent, Holds
<1>2. QED BY <1>1, FlashEffect, DropsLayout, RotsLayout, ProgramsLayout, KeepsLayout

-----------------------------------------------------------------------------
(* What the request in progress has made sure of.                          *)

LEMMA RequestStep == ASSUME IInv, [Next]_vars PROVE RequestInv'
<1>0. Layout' /\ TypeOK'
  BY LayoutStep, TypeStep
<1> USE DEF RequestInv, flash, nvs, bounds, GiveUp, Storing, Serving, Holds, Extent
<1>1. ASSUME NEW i \in Images, Request(i) PROVE RequestInv'
  BY <1>1 DEF Request, IInv
<1>2. CASE FindHit
  BY <1>2 DEF FindHit, Candidate, IInv, ListInv
<1>3. CASE FindRotten
  <2>1. PICK s \in Sectors : head' = [head EXCEPT ![s] = NoImage] /\ at' = s
    BY <1>3 DEF FindRotten, ClearMagic
  <2>2. at' \in Sectors /\ head'[at'] = NoImage
    BY <2>1 DEF IInv, TypeOK
  <2>3. /\ pc = "find" /\ pc' = "findKey" /\ want' = want
    BY <1>3 DEF FindRotten
  <2>4. QED BY <2>2, <2>3 DEF IInv
<1>4. CASE FindMiss
  <2>1. PICK i \in want : \A s \in Sectors : ~Candidate(i, s)
    BY <1>4 DEF FindMiss
  <2>2. \A s \in Sectors : head[s] # i
    <3>1. SUFFICES ASSUME NEW s \in Sectors, head[s] = i PROVE FALSE
      OBVIOUS
    <3>2. Holds(s)
      BY <3>1, ImagesAssumption DEF IInv, TypeOK
    <3>3. entries = head
      BY <1>4 DEF FindMiss, IInv, ListInv
    <3>4. \A t \in Sectors : entries[t] = i => t = s
      BY <3>1, <3>2, <3>3 DEF IInv, Apart
    <3>5. s <= s
      BY SectorsAreNat
    <3>6. QED BY <2>1, <3>1, <3>3, <3>4, <3>5 DEF Candidate
  <2>3. QED BY <1>4, <2>1, <2>2 DEF FindMiss, IInv
<1>5. CASE EraseKey
  BY <1>5 DEF EraseKey, IInv
<1>6. CASE Evict
  <2>1. PICK s \in Sectors : head' = [head EXCEPT ![s] = NoImage] /\ at' = s
    BY <1>6 DEF Evict, ClearMagic
  <2>2. \A t \in Sectors : head'[t] = head[t] \/ head'[t] = NoImage
    BY <2>1 DEF IInv, TypeOK
  <2>3. \A i \in want : i # NoImage
    BY ImagesAssumption DEF IInv, TypeOK
  <2>4. at' \in Sectors /\ head'[at'] = NoImage
    BY <2>1 DEF IInv, TypeOK
  <2>5. pc = "begin" /\ pc' = "evictKey" /\ want' = want
    BY <1>6 DEF Evict
  <2>6. \A i \in want', t \in Sectors : head'[t] # i
    BY <2>2, <2>3, <2>5 DEF IInv
  <2>7. QED BY <2>4, <2>5, <2>6 DEF IInv
<1>7. CASE NoRoom
  BY <1>7 DEF NoRoom, IInv
<1>8. CASE NoRoomReported
  BY <1>8 DEF NoRoomReported, IInv
<1>9. CASE BeginRun
  <2>1. PICK i \in want, s \in Sectors : /\ pc = "begin" /\ FitsAt(i, s)
                                         /\ at' = s /\ pc' = "erase"
                                         /\ UNCHANGED <<flash, want>>
    BY <1>9 DEF BeginRun, FreeRun
  <2>2. /\ Extent(i, s) \subseteq Sectors
        /\ \A t \in Extent(i, s) : Region[t] = Region[s]
        /\ \A t \in Sectors : Holds(t) => Extent(head[t], t) \cap Extent(i, s) = {}
    BY <2>1, RunIsClear DEF IInv, TypeOK
  <2>3. QED BY <2>1, <2>2 DEF IInv
<1>10. CASE EraseSector
  <2>1. Programs
    BY <1>10, InRun DEF EraseSector, Programs, RoomLeft
  <2>2. head' = head
    BY <2>1, ProgramsLayout
  <2>3. QED BY <1>10, <2>2 DEF EraseSector, IInv
<1>11. CASE EraseDone
  BY <1>11 DEF EraseDone, IInv
<1>12. CASE EraseFails
  BY <1>12 DEF EraseFails, IInv
<1>13. CASE WriteSector
  BY <1>13 DEF WriteSector, IInv
<1>14. CASE WriteFails
  BY <1>14 DEF WriteFails, IInv
<1>15. CASE WriteDone
  BY <1>15 DEF WriteDone, IInv
<1>16. CASE WrongChecksum
  BY <1>16 DEF WrongChecksum, IInv
<1>17. CASE WriteHeader
  BY <1>17 DEF WriteHeader, IInv, TypeOK
<1>18. CASE HeaderFails
  BY <1>18 DEF HeaderFails, IInv
<1>19. CASE Count
  BY <1>19 DEF Count, IInv
<1>20. CASE Mark
  BY <1>20 DEF Mark, HandOut, IInv
<1>21. CASE MarkFails
  BY <1>21 DEF MarkFails, HandOut, IInv
<1>22. CASE TransferDone
  BY <1>22 DEF TransferDone, IInv
<1>23. CASE Reset
  BY <1>23 DEF Reset, IInv
<1>24. ASSUME NEW s \in Sectors, Rot(s) PROVE RequestInv'
  BY <1>24 DEF Rot, IInv
<1>25. CASE UNCHANGED vars
  BY <1>25 DEF vars, IInv
<1>26. QED
  BY <1>1, <1>2, <1>3, <1>4, <1>5, <1>6, <1>7, <1>8, <1>9, <1>10, <1>11, <1>12, <1>13, <1>14,
     <1>15, <1>16, <1>17, <1>18, <1>19, <1>20, <1>21, <1>22, <1>23, <1>24, <1>25 DEF Next,
     InStore

(* The list: what is dropped is taken off it, and nothing else changes it  *)
(* or the headers while it is in use.                                      *)
LEMMA ListStep == ASSUME IInv, [Next]_vars PROVE ListInv'
<1> USE DEF ListInv, flash, GiveUp
<1>s. Scan = head
  BY ScanIsHead DEF IInv
<1>1. CASE \E i \in Images : Request(i)
  BY <1>s, <1>1 DEF Request
<1>2. CASE FindRotten \/ Evict
  BY <1>2 DEF FindRotten, Evict, ClearMagic, Remove, IInv
<1>3. CASE FindMiss
  BY <1>s, <1>3 DEF FindMiss
<1>4. CASE EraseKey
  BY <1>4 DEF EraseKey, IInv
<1>5. CASE FindHit \/ NoRoom \/ NoRoomReported \/ BeginRun
  BY <1>5 DEF FindHit, NoRoom, NoRoomReported, BeginRun
<1>6. CASE EraseSector \/ EraseDone \/ EraseFails \/ WriteSector \/ WriteFails \/ WriteDone
  BY <1>6 DEF EraseSector, EraseDone, EraseFails, WriteSector, WriteFails, WriteDone
<1>7. CASE WrongChecksum \/ WriteHeader \/ HeaderFails
  BY <1>7 DEF WrongChecksum, WriteHeader, HeaderFails
<1>8. CASE Count \/ Mark \/ MarkFails \/ TransferDone \/ Reset
  BY <1>8 DEF Count, Mark, MarkFails, HandOut, TransferDone, Reset
<1>9. CASE \E s \in Sectors : Rot(s)
  BY <1>9 DEF Rot, IInv
<1>10. CASE UNCHANGED vars
  BY <1>10 DEF vars, IInv
<1>11. QED
  BY <1>1, <1>2, <1>3, <1>4, <1>5, <1>6, <1>7, <1>8, <1>9, <1>10 DEF Next, InStore

-----------------------------------------------------------------------------
(* "No room" and the order of use.                                         *)

LEMMA NoRoomStep == ASSUME IInv, [Next]_vars PROVE NoRoomOnlyIfTooBig'
<1> USE DEF NoRoomOnlyIfTooBig, Extent, flash, nvs, bounds, GiveUp
<1>1. CASE NoRoom
  <2>1. \A i \in want, s \in Sectors : ~FitsAt(i, s)
    BY <1>1 DEF NoRoom, NoRun, IInv, RequestInv
  <2>2. (\A s \in Sectors : ~Listed(s)) /\ UNCHANGED want
    BY <1>1 DEF NoRoom, NoEntries, Listed
  <2>3. QED BY <2>1, <2>2 DEF FitsAt, Free
<1>2. CASE UNCHANGED <<pc, want>>
  BY <1>2 DEF IInv
<1>3. CASE pc' # "noRoom"
  BY <1>3
<1>4. pc' # "noRoom" \/ NoRoom \/ UNCHANGED <<pc, want>>
  BY DEF Next, InStore, Request, FindHit, FindRotten, FindMiss, EraseKey, Evict, NoRoomReported,
         BeginRun, EraseSector, EraseDone, EraseFails, WriteSector, WriteFails, WriteDone,
         WrongChecksum, WriteHeader, HeaderFails, Count, Mark, MarkFails, HandOut, TransferDone,
         Reset, Rot, vars
<1>5. QED BY <1>1, <1>2, <1>3, <1>4

LEMMA UseStep == ASSUME IInv, [Next]_vars PROVE UseInv'
<1> USE FlashAssumption DEF UseInv, flash, nvs, bounds, GiveUp
<1>0. faults \in Nat /\ uses \in Nat /\ counter \in Nat
  BY DEF IInv, TypeOK
<1>a. \A kind : Fault(kind) => faults' # 0
  BY <1>0 DEF Fault
<1>1. CASE FindRotten \/ Evict
  <2>1. PICK s \in Sectors : head' = [head EXCEPT ![s] = NoImage]
    BY <1>1 DEF FindRotten, Evict, ClearMagic, Entries
  <2>2. \A t \in Sectors : Holds(t)' => Holds(t) /\ head'[t] = head[t]
    BY <2>1 DEF IInv, TypeOK, Holds
  <2>3. QED BY <1>1, <2>2 DEF FindRotten, Evict, IInv
<1>2. CASE EraseKey
  <2>1. at \in Sectors /\ pc \in {"findKey", "evictKey"}
    BY <1>2 DEF EraseKey, IInv, RequestInv
  <2>2. CASE use' = [use EXCEPT ![at] = 0] /\ UNCHANGED faults
    <3>1. \A s \in Sectors : s # at => use'[s] = use[s]
      BY <2>1, <2>2 DEF IInv, TypeOK
    <3>2. ~Holds(at)
      BY <2>1 DEF IInv, RequestInv
    <3>3. /\ pc # "mark" /\ pc' # "mark"
          /\ UNCHANGED <<head, counter, uses, age>>
      BY <1>2 DEF EraseKey
    <3>4. pc \notin {"count", "mark"}
      BY <2>1
    <3>5. QED BY <2>2, <3>1, <3>2, <3>3, <3>4 DEF IInv, Holds
  <2>3. CASE Fault("nvs")
    BY <1>a, <2>3
  <2>4. QED BY <1>2, <2>2, <2>3 DEF EraseKey
<1>3. CASE EraseSector
  <2>1. Programs
    BY <1>3, InRun DEF EraseSector, Programs, RoomLeft, Storing
  <2>2. head' = head
    BY <2>1, ProgramsLayout
  <2>3. QED BY <1>3, <2>2 DEF EraseSector, IInv, Holds
<1>4. CASE WriteHeader
  <2>1. \A s \in Sectors : s # at => head'[s] = head[s]
    BY <1>4 DEF WriteHeader, IInv, TypeOK
  <2>2. QED BY <1>4, <2>1 DEF WriteHeader, IInv, Holds
<1>5. CASE Mark
  <2>1. PICK i \in want : want = {i} /\ i \in Images /\ head[at] = i /\ at \in Sectors
    BY <1>5 DEF Mark, IInv, RequestInv, Serving, TypeOK
  <2>2. /\ use' = [use EXCEPT ![at] = counter] /\ uses' = uses + 1 /\ head' = head
        /\ age' = [j \in Images |-> IF j \in want THEN uses + 1 ELSE age[j]]
        /\ pc = "mark" /\ pc' = "use" /\ UNCHANGED <<counter, faults, at>>
    BY <1>5 DEF Mark, HandOut
  <2>3. ASSUME faults = 0, NEW s \in Sectors, Holds(s) PROVE use'[s] = age'[head[s]]
    <3>1. CASE s = at
      BY <2>1, <2>2, <2>3, <3>1 DEF IInv, TypeOK
    <3>2. CASE s # at
      BY <2>1, <2>2, <2>3, <3>2 DEF IInv, TypeOK, Apart, Holds
    <3>3. QED BY <3>1, <3>2
  <2>4. QED BY <1>0, <2>2, <2>3 DEF IInv, Holds
<1>6. CASE EraseFails \/ WriteFails \/ HeaderFails \/ MarkFails \/ Reset
  BY <1>6, <1>a DEF EraseFails, WriteFails, HeaderFails, MarkFails, Reset
<1>7. CASE WriteSector
  BY <1>7, <1>a DEF WriteSector, IInv, Holds
<1>8. ASSUME NEW s \in Sectors, Rot(s) PROVE UseInv'
  BY <1>8, <1>a DEF Rot
<1>9. ASSUME NEW i \in Images, Request(i) PROVE UseInv'
  BY <1>9 DEF Request, IInv, Holds
<1>10. CASE FindHit \/ FindMiss \/ NoRoom \/ NoRoomReported \/ BeginRun \/ EraseDone \/ WriteDone
  BY <1>10 DEF FindHit, FindMiss, NoRoom, NoRoomReported, BeginRun, EraseDone, WriteDone, IInv, Holds
<1>11. CASE WrongChecksum \/ Count \/ TransferDone
  BY <1>0, <1>11 DEF WrongChecksum, Count, TransferDone, IInv, Holds
<1>12. CASE UNCHANGED vars
  BY <1>12 DEF vars, IInv, Holds
<1>13. QED
  BY <1>1, <1>2, <1>3, <1>4, <1>5, <1>6, <1>7, <1>8, <1>9, <1>10, <1>11, <1>12 DEF Next,
     InStore

-----------------------------------------------------------------------------
(* The invariant holds throughout.                                         *)

LEMMA InitIInv == ASSUME Init PROVE IInv
<1> USE FlashAssumption DEF Init
<1>1. TypeOK
  BY DEF TypeOK, NoEntries, Data, Other, Places, Storing
<1>2. \A s \in Sectors : ~Holds(s)
  BY DEF Holds
<1>3. HeaderMeansData /\ InOneRegion /\ Apart /\ NoRoomOnlyIfTooBig
  BY <1>2 DEF HeaderMeansData, InOneRegion, Apart, NoRoomOnlyIfTooBig
<1>4. RequestInv /\ ListInv /\ UseInv
  BY <1>2 DEF RequestInv, ListInv, UseInv, Storing, Serving
<1>5. QED BY <1>1, <1>3, <1>4 DEF IInv

LEMMA StepIInv == ASSUME IInv, [Next]_vars PROVE IInv'
BY TypeStep, LayoutStep, RequestStep, ListStep, NoRoomStep, UseStep DEF IInv, Layout

(* IInv is an invariant of the flash store. *)
THEOREM Invariance == Spec => []IInv
BY InitIInv, StepIInv, PTL DEF Spec

(* Every variable keeps its type; no erase or write leaves the image's run. *)
THEOREM TypeCorrect == Spec => []TypeOK
<1>1. IInv => TypeOK
  BY DEF IInv
<1>2. QED BY <1>1, Invariance, PTL

(* An image that can be found is whole, whatever was interrupted, garbled  *)
(* or dropped before.                                                      *)
THEOREM HeadersAreTrue == Spec => []HeaderMeansData
<1>1. IInv => HeaderMeansData
  BY DEF IInv
<1>2. QED BY <1>1, Invariance, PTL

(* No image reaches over the end of its partition. *)
THEOREM ImagesInOneRegion == Spec => []InOneRegion
<1>1. IInv => InOneRegion
  BY DEF IInv
<1>2. QED BY <1>1, Invariance, PTL

(* The transfer is given the image it asked for. *)
THEOREM ServesTheWanted == Spec => []ServedIsWanted
<1>1. IInv => ServedIsWanted
  <2>1. SUFFICES ASSUME IInv, pc = "use", NEW i \in want, NEW k \in 0 .. (SectorsOf[i] - 1)
                 PROVE  data[at + k] \in {<<i, k>>, Rotten}
    BY DEF ServedIsWanted
  <2>2. at \in Sectors /\ head[at] = i /\ i \in Images
    BY <2>1 DEF IInv, RequestInv, Serving, TypeOK
  <2>3. Holds(at)
    BY <2>2, ImagesAssumption DEF Holds
  <2>4. QED BY <2>1, <2>2, <2>3 DEF IInv, HeaderMeansData
<1>2. QED BY <1>1, Invariance, PTL

(* A store that refuses an image could not hold it even when empty. *)
THEOREM RoomForAllThatFit == Spec => []NoRoomOnlyIfTooBig
<1>1. IInv => NoRoomOnlyIfTooBig
  BY DEF IInv
<1>2. QED BY <1>1, Invariance, PTL

(* Room is made by dropping the image whose last transfer is the longest ago. *)
THEOREM OldestGoesFirst == Spec => EvictsTheOldest
<1>1. ASSUME IInv, [Next]_vars, pc = "begin", pc' = "evictKey", faults = 0,
             NEW s \in Entries, NEW t \in Entries, head'[s] = NoImage
      PROVE  age[head[s]] <= age[head[t]]
  <2>1. Evict
    BY <1>1 DEF Next, InStore, Request, FindHit, FindRotten, FindMiss, EraseKey, NoRoom,
         NoRoomReported, GiveUp,
         BeginRun, EraseSector, EraseDone, EraseFails, WriteSector, WriteFails, WriteDone,
         WrongChecksum, WriteHeader, HeaderFails, Count, Mark, MarkFails, HandOut, TransferDone,
         Reset, Rot, vars
  <2>2. s \in Sectors /\ t \in Sectors /\ Holds(s) /\ Holds(t)
    BY <1>1 DEF Entries
  <2>l. Listed(t)
    BY <1>1, <2>2 DEF IInv, ListInv, Listed, Holds
  <2>3. Oldest(s)
    <3>1. PICK v \in Sectors : Oldest(v) /\ head' = [head EXCEPT ![v] = NoImage]
      BY <2>1 DEF Evict, ClearMagic
    <3>2. s = v
      BY <1>1, <2>2, <3>1 DEF IInv, TypeOK, Holds
    <3>3. QED BY <3>1, <3>2
  <2>4. use[s] = age[head[s]] /\ use[t] = age[head[t]]
    BY <1>1, <2>2 DEF IInv, UseInv
  <2>n. use \in [Sectors -> Nat]
    BY <1>1 DEF IInv, TypeOK
  <2>5. use[s] \in Nat /\ use[t] \in Nat
    BY <2>2, <2>n
  <2>6. QED BY <2>2, <2>l, <2>3, <2>4, <2>5 DEF Oldest
<1>2. ASSUME IInv, [Next]_vars
      PROVE  [(pc = "begin" /\ pc' = "evictKey" /\ faults = 0) =>
                \A s, t \in Entries : head'[s] = NoImage => age[head[s]] <= age[head[t]]]_vars
  BY <1>1, <1>2
<1>3. QED BY <1>2, Invariance, PTL DEF Spec, EvictsTheOldest

-----------------------------------------------------------------------------
(* The store implements the cache of whole images.                         *)

(* Only the step that clears a magic, and the one that writes a header,    *)
(* change what is kept.                                                    *)
LEMMA KeptKept == ASSUME head' = head PROVE Kept' = Kept
BY DEF Kept

LEMMA DropIsDrop ==
  ASSUME IInv, NEW s \in Sectors, Holds(s), head' = [head EXCEPT ![s] = NoImage]
  PROVE  head[s] \in Kept /\ Kept' = Kept \ {head[s]}
<1>1. head[s] \in Images /\ head'[s] = NoImage
      /\ \A t \in Sectors \ {s} : head'[t] = head[t] /\ head[t] # head[s]
  BY ImagesAssumption DEF IInv, TypeOK, Holds, Apart
<1>2. QED BY <1>1, ImagesAssumption DEF Kept

LEMMA HeaderIsKeep ==
  ASSUME IInv, NEW i \in want, pc = "finish", head' = [head EXCEPT ![at] = i]
  PROVE  Kept' = Kept \cup want
<1>1. /\ i \in Images /\ want = {i} /\ at \in Sectors /\ ~Holds(at)
  <2>1. i \in Images /\ want = {i} /\ at \in Sectors /\ at \in Nat
    BY SectorsAreNat DEF IInv, TypeOK, RequestInv, Storing
  <2>2. Holds(at) => at \in Extent(head[at], at) /\ at \in Extent(i, at)
    BY <2>1, ExtentHas DEF IInv, TypeOK, Holds
  <2>3. QED BY <2>1, <2>2 DEF IInv, RequestInv, Storing
<1>2. head'[at] = i /\ head[at] = NoImage /\ \A t \in Sectors \ {at} : head'[t] = head[t]
  BY <1>1 DEF IInv, TypeOK, Holds
<1>3. QED BY <1>1, <1>2, ImagesAssumption DEF Kept

cacheVars == <<Kept, want, Phase>>

LEMMA CacheStep == ASSUME IInv, [Next]_vars PROVE [Cache!Next]_cacheVars
<1>e. pc \in {"find", "begin"} => entries = head
  BY DEF IInv, ListInv
<1>p. pc \in Places /\ pc' \in Places
  BY TypeStep DEF IInv, TypeOK
<1>m. ASSUME NEW i \in want, \A s \in Sectors : head[s] # i
      PROVE  want \cap Kept = {}
  BY <1>m DEF IInv, RequestInv, Kept
<1> USE DEF Cache!Next, cacheVars, Phase, Storing, Serving, flash, GiveUp, HandOut
<1>1. ASSUME NEW i \in Images, Request(i) PROVE Cache!Want(i)
  BY <1>1, KeptKept DEF Request, Cache!Want
<1>2. CASE FindHit
  <2>1. want \subseteq Kept
    BY <1>e, <1>2 DEF FindHit, Candidate, Kept, IInv, RequestInv, TypeOK
  <2>2. QED BY <1>2, <2>1, KeptKept DEF FindHit, Cache!Hit
<1>3. CASE FindRotten
  <2>i. \A i \in want : i # NoImage
    BY ImagesAssumption DEF IInv, TypeOK
  <2>1. PICK i \in want, s \in Sectors : /\ Holds(s) /\ head[s] = i
                                         /\ head' = [head EXCEPT ![s] = NoImage]
    BY <1>e, <1>3, <2>i DEF FindRotten, Candidate, ClearMagic, Holds
  <2>2. head[s] \in Images /\ Cache!Drop(head[s])
    BY <1>3, <2>1, DropIsDrop DEF FindRotten, Cache!Drop, IInv, TypeOK
  <2>3. QED BY <2>2
<1>4. CASE Evict
  <2>1. PICK i \in want, s \in Sectors : /\ Holds(s)
                                         /\ head' = [head EXCEPT ![s] = NoImage]
    BY <1>e, <1>4 DEF Evict, Oldest, Listed, Holds, ClearMagic
  <2>2. want \cap Kept = {}
    BY <1>4, <1>m DEF Evict, IInv, RequestInv
  <2>3. head[s] \in Images /\ Cache!Drop(head[s])
    BY <1>4, <2>1, <2>2, DropIsDrop, ImagesAssumption DEF Evict, Cache!Drop, IInv, TypeOK, Holds
  <2>4. QED BY <2>3
<1>5. CASE BeginRun
  <2>1. want \cap Kept = {}
    BY <1>5, <1>m DEF BeginRun, IInv, RequestInv
  <2>2. QED BY <1>5, <2>1, KeptKept DEF BeginRun, Cache!HaveRoom
<1>6. CASE EraseSector
  <2>1. Programs
    BY <1>6, InRun DEF EraseSector, Programs, RoomLeft
  <2>2. QED BY <1>6, <2>1, ProgramsLayout, KeptKept DEF EraseSector
<1>7. CASE WriteHeader
  BY <1>7, HeaderIsKeep DEF WriteHeader, Cache!Keep
<1>8. CASE HeaderFails
  BY <1>8, HeaderIsKeep, KeptKept DEF HeaderFails, Cache!End
<1>9. CASE FindMiss \/ EraseKey \/ NoRoom
  BY <1>9, KeptKept DEF FindMiss, EraseKey, NoRoom
<1>10. CASE EraseDone \/ WriteSector \/ WriteDone \/ Count \/ Mark \/ MarkFails
  BY <1>10, KeptKept DEF EraseDone, WriteSector, WriteDone, Count, Mark, MarkFails
<1>11. CASE NoRoomReported \/ EraseFails \/ WriteFails \/ WrongChecksum \/ TransferDone \/ Reset
  BY <1>11, KeptKept DEF NoRoomReported, EraseFails, WriteFails, WrongChecksum, TransferDone,
     Reset, Cache!End
<1>12. ASSUME NEW s \in Sectors, Rot(s) PROVE UNCHANGED cacheVars
  BY <1>12, KeptKept DEF Rot
<1>13. CASE UNCHANGED vars
  BY <1>13, KeptKept DEF vars
<1>14. QED
  BY <1>1, <1>2, <1>3, <1>4, <1>5, <1>6, <1>7, <1>8, <1>9, <1>10, <1>11, <1>12, <1>13 DEF
     Next, InStore

(* Every run of the store, with its resets and flash errors, is a run of   *)
(* the cache.                                                              *)
THEOREM Implements == Spec => CacheSpec
<1>1. Init => Cache!Init
  <2>1. SUFFICES ASSUME Init PROVE Cache!Init
    OBVIOUS
  <2>2. \A s \in Sectors : head[s] = NoImage
    BY <2>1 DEF Init
  <2>3. Kept = {}
    BY <2>2, ImagesAssumption DEF Kept
  <2>4. QED BY <2>1, <2>3 DEF Init, Cache!Init, Phase, Storing, Serving
<1>2. QED
  BY <1>1, CacheStep, Invariance, PTL DEF Spec, CacheSpec, Cache!Spec, cacheVars
=============================================================================
