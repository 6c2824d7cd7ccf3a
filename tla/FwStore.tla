------------------------------ MODULE FwStore ------------------------------
(***************************************************************************)
(* The flash store of firmware images for sensors                          *)
(* (components/bdgs/storage/bd_fwstore.cpp), as the sensor update uses it  *)
(* (obtainFirmwareImage in ota/ota_gs.cpp): find the image wanted, or make *)
(* room, erase, write what is downloaded, check it and write the header.   *)
(*                                                                         *)
(* Every flash and NVS write is a step of its own, and the station may be  *)
(* reset between any two of them: `head`, `data`, `use` and `counter` are  *)
(* what it finds afterwards.                                               *)
(*                                                                         *)
(* The store partitions are laid end to end: a sector is its number, and   *)
(* `Region` tells the partition.  They are searched in this order.         *)
(*                                                                         *)
(* A definition named ...Mutant is what a slip in the code would make of   *)
(* the one after it; it is used nowhere.                                   *)
(***************************************************************************)
EXTENDS Naturals

CONSTANTS
  Images,      \* firmware images, by their SHA-256
  SectorsOf,   \* sectors_for(size) of each
  Flash,       \* sectors of all store partitions together
  Region,      \* the partition of a sector
  MaxUses,     \* bound: images handed out
  FaultKinds,  \* what may go wrong in a run: "reset", "rot", "garbled",
               \* "download", "erase", "header", "nvs"
  MaxFaults    \* bound: how often something goes wrong

Sectors == 0 .. (Flash - 1)

ASSUME FlashAssumption ==
  /\ Flash \in Nat
  /\ SectorsOf \in [Images -> Nat \ {0}]
  /\ Region \in [Sectors -> Nat]
  /\ MaxUses \in Nat /\ MaxFaults \in Nat

NoImage == "none"
ASSUME ImagesAssumption == NoImage \notin Images

(* What a sector holds besides a header: sector k of an image's data, or   *)
(* all ones, or bits that changed on their own, or anything else.          *)
Erased == <<NoImage, 0>>
Rotten == <<NoImage, 1>>
Other == <<NoImage, 2>>
Data == (Images \X Nat) \cup {Erased, Rotten, Other}

VARIABLES
  head,     \* the image whose valid header the sector starts with, or none
  data,     \* the rest of the sector
  use,      \* NVS key of the sector: when its image was last used, or 0
  counter,  \* NVS key "counter"
  entries,  \* the list scan() returned, as far as it is still to be looked at:
            \* the image of each sector listed, or none
  pc,       \* where the sensor update is in the store
  want,     \* {the image it wants}, or {}
  at,       \* the sector in hand: of the image found, dropped or written
  pos,      \* sectors of it erased, or written
  uses,     \* images handed out so far
  faults,   \* things gone wrong so far
  age       \* history variable: how many images were handed out before each
            \* was handed out last, and 1 more; 0: never

flash == <<head, data>>
nvs == <<use, counter>>
bounds == <<uses, faults>>
vars == <<flash, nvs, entries, pc, want, at, pos, bounds, age>>

Places == {"idle", "find", "findKey", "begin", "evictKey", "erase", "write",
           "finish", "count", "mark", "use", "noRoom"}

Storing == {"erase", "write", "finish"}
Serving == {"count", "mark", "use"}

NoEntries == [s \in Sectors |-> NoImage]

(* Sectors that never held an image look like free space. *)
Init ==
  /\ head = [s \in Sectors |-> NoImage]
  /\ data = [s \in Sectors |-> Other]
  /\ use = [s \in Sectors |-> 0] /\ counter = 0
  /\ entries = NoEntries
  /\ pc = "idle" /\ want = {} /\ at = 0 /\ pos = 0
  /\ uses = 0 /\ faults = 0
  /\ age = [i \in Images |-> 0]

Fault(kind) ==
  /\ kind \in FaultKinds
  /\ faults < MaxFaults
  /\ faults' = faults + 1

-----------------------------------------------------------------------------
(* The layout.                                                             *)

(* The sectors of image i, were it to start at s. *)
ExtentMutant(i, s) == s .. (s + SectorsOf[i] - 2)
Extent(i, s) == s .. (s + SectorsOf[i] - 1)

Holds(s) == head[s] # NoImage

(* scan(): a header counts unless it lies inside an image found before it. *)
Entries == {s \in Sectors :
  /\ Holds(s)
  /\ \A t \in Sectors : t < s /\ Holds(t) => s \notin Extent(head[t], t)}

Scan == [s \in Sectors |-> IF s \in Entries THEN head[s] ELSE NoImage]

Listed(s) == entries[s] # NoImage

(* The data at s matches the checksum of i (image_sha256 and memcmp). *)
MatchesMutant(i, s) == TRUE
Matches(i, s) == \A k \in 0 .. (SectorsOf[i] - 1) : data[s + k] = <<i, k>>

(* Outside the entries that are still listed. *)
Free(s) == \A t \in Sectors : Listed(t) => s \notin Extent(entries[t], t)

FitsAtMutantShort(i, s) ==
  /\ s .. (s + SectorsOf[i]) \subseteq Sectors
  /\ \A t \in s .. (s + SectorsOf[i]) : Free(t) /\ Region[t] = Region[s]

(* Room for i from s on, inside one partition. *)
FitsAt(i, s) ==
  /\ Extent(i, s) \subseteq Sectors
  /\ \A t \in Extent(i, s) : Free(t) /\ Region[t] = Region[s]

(* find_free_run: the first place long enough. *)
FreeRun(i, s) == FitsAt(i, s) /\ \A t \in Sectors : t < s => ~FitsAt(i, t)
NoRun(i) == \A s \in Sectors : ~FitsAt(i, s)

(* drop(): the magic is cleared; the NVS key goes in a later step. *)
ClearMagic(s) == head' = [head EXCEPT ![s] = NoImage] /\ UNCHANGED data

(* The list, without the entry dropped. *)
RemoveMutant(s) == UNCHANGED entries
Remove(s) == entries' = [entries EXCEPT ![s] = NoImage]

-----------------------------------------------------------------------------
(* bd_fwstore_find.                                                        *)

Request(i) ==
  /\ pc = "idle" /\ uses < MaxUses
  /\ want' = {i} /\ pc' = "find" /\ entries' = Scan
  /\ UNCHANGED <<flash, nvs, at, pos, bounds, age>>

(* The first entry for the image wanted. *)
Candidate(i, s) ==
  /\ entries[s] = i
  /\ \A t \in Sectors : entries[t] = i => s <= t

FindHit == \E i \in want, s \in Sectors :
  /\ pc = "find" /\ Candidate(i, s) /\ Matches(i, s)
  /\ at' = s /\ pc' = "count" /\ entries' = NoEntries
  /\ UNCHANGED <<flash, nvs, want, pos, bounds, age>>

(* An image that no longer matches its checksum is dropped, and the search *)
(* goes on behind it.                                                      *)
FindRotten == \E i \in want, s \in Sectors :
  /\ pc = "find" /\ Candidate(i, s) /\ ~Matches(i, s)
  /\ ClearMagic(s) /\ Remove(s)
  /\ at' = s /\ pc' = "findKey"
  /\ UNCHANGED <<nvs, want, pos, bounds, age>>

FindMiss == \E i \in want :
  /\ pc = "find" /\ \A s \in Sectors : ~Candidate(i, s)
  /\ pc' = "begin" /\ entries' = Scan
  /\ UNCHANGED <<flash, nvs, want, at, pos, bounds, age>>

(* The second half of drop(). *)
EraseKey ==
  /\ pc \in {"findKey", "evictKey"}
  /\ \/ use' = [use EXCEPT ![at] = 0] /\ UNCHANGED faults
     \/ Fault("nvs") /\ UNCHANGED use
  /\ pc' = IF pc = "findKey" THEN "find" ELSE "begin"
  /\ UNCHANGED <<flash, counter, entries, want, at, pos, uses, age>>

-----------------------------------------------------------------------------
(* bd_fwstore_begin: scans once, and takes what it drops off the list.     *)

OldestMutant(s) == Listed(s) /\ \A t \in Sectors : Listed(t) => s <= t

(* The entry unused the longest, the first of several. *)
Oldest(s) ==
  /\ Listed(s)
  /\ \A t \in Sectors : Listed(t) => use[s] < use[t] \/ (use[s] = use[t] /\ s <= t)

Evict == \E i \in want, s \in Sectors :
  /\ pc = "begin" /\ NoRun(i) /\ Oldest(s)
  /\ ClearMagic(s) /\ Remove(s)
  /\ at' = s /\ pc' = "evictKey"
  /\ UNCHANGED <<nvs, want, pos, bounds, age>>

NoRoom == \E i \in want :
  /\ pc = "begin" /\ NoRun(i) /\ entries = NoEntries
  /\ pc' = "noRoom"
  /\ UNCHANGED <<flash, nvs, entries, want, at, pos, bounds, age>>

BeginRun == \E i \in want, s \in Sectors :
  /\ pc = "begin" /\ FreeRun(i, s)
  /\ at' = s /\ pos' = 0 /\ pc' = "erase" /\ entries' = NoEntries
  /\ UNCHANGED <<flash, nvs, want, bounds, age>>

(* Giving up: what is on flash stays as it is. *)
GiveUp == pc' = "idle" /\ want' = {} /\ entries' = NoEntries

NoRoomReported ==
  /\ pc = "noRoom"
  /\ GiveUp
  /\ UNCHANGED <<flash, nvs, at, pos, bounds, age>>

RoomLeft(i) == pos < SectorsOf[i]

(* esp_partition_erase_range, sector by sector. *)
EraseSector == \E i \in want :
  /\ pc = "erase" /\ RoomLeft(i)
  /\ head' = [head EXCEPT ![at + pos] = NoImage]
  /\ data' = [data EXCEPT ![at + pos] = Erased]
  /\ pos' = pos + 1
  /\ UNCHANGED <<nvs, entries, pc, want, at, bounds, age>>

EraseDone == \E i \in want :
  /\ pc = "erase" /\ ~RoomLeft(i)
  /\ pos' = 0 /\ pc' = "write"
  /\ UNCHANGED <<flash, nvs, entries, want, at, bounds, age>>

EraseFails ==
  /\ pc = "erase"
  /\ Fault("erase") /\ GiveUp
  /\ UNCHANGED <<flash, nvs, at, pos, uses, age>>

-----------------------------------------------------------------------------
(* bd_fwstore_write, and the download around it.                           *)

(* Flash can only be programmed where it has been erased. *)
Programmed(s, d) == IF data[s] = Erased THEN d ELSE Other

WriteSector == \E i \in want :
  /\ pc = "write" /\ RoomLeft(i)
  /\ \/ data' = [data EXCEPT ![at + pos] = Programmed(at + pos, <<i, pos>>)]
        /\ UNCHANGED faults
     \/ Fault("garbled") /\ data' = [data EXCEPT ![at + pos] = Other]
  /\ pos' = pos + 1
  /\ UNCHANGED <<head, nvs, entries, pc, want, at, uses, age>>

(* The download stalls, or a flash write fails. *)
WriteFails ==
  /\ pc = "write"
  /\ Fault("download") /\ GiveUp
  /\ UNCHANGED <<flash, nvs, at, pos, uses, age>>

WriteDone == \E i \in want :
  /\ pc = "write" /\ ~RoomLeft(i)
  /\ pc' = "finish"
  /\ UNCHANGED <<flash, nvs, entries, want, at, pos, bounds, age>>

-----------------------------------------------------------------------------
(* bd_fwstore_finish.                                                      *)

WrongChecksum == \E i \in want :
  /\ pc = "finish" /\ ~Matches(i, at)
  /\ GiveUp
  /\ UNCHANGED <<flash, nvs, at, pos, bounds, age>>

WriteHeader == \E i \in want :
  /\ pc = "finish" /\ Matches(i, at)
  /\ head' = [head EXCEPT ![at] = i]
  /\ pc' = "count"
  /\ UNCHANGED <<data, nvs, entries, want, at, pos, bounds, age>>

(* The header cannot be written, or not be read back: it may be there.     *)
HeaderFails == \E i \in want :
  /\ pc = "finish" /\ Matches(i, at)
  /\ Fault("header") /\ GiveUp
  /\ head' \in {head, [head EXCEPT ![at] = i]}
  /\ UNCHANGED <<data, nvs, at, pos, uses, age>>

-----------------------------------------------------------------------------
(* mark_used, and the image handed to the transfer.                        *)

Count ==
  /\ pc = "count"
  /\ counter' = counter + 1
  /\ pc' = "mark"
  /\ UNCHANGED <<flash, use, entries, want, at, pos, bounds, age>>

HandOut ==
  /\ pc' = "use"
  /\ uses' = uses + 1
  /\ age' = [i \in Images |-> IF i \in want THEN uses + 1 ELSE age[i]]
  /\ UNCHANGED <<flash, entries, want, at, pos>>

Mark ==
  /\ pc = "mark"
  /\ use' = [use EXCEPT ![at] = counter]
  /\ HandOut
  /\ UNCHANGED <<counter, faults>>

(* NVS cannot be opened: the image counts as never used. *)
MarkFails ==
  /\ pc = "count"
  /\ Fault("nvs")
  /\ HandOut
  /\ UNCHANGED nvs

(* The transfer is over. *)
TransferDone ==
  /\ pc = "use"
  /\ GiveUp
  /\ UNCHANGED <<flash, nvs, at, pos, bounds, age>>

-----------------------------------------------------------------------------
(* What happens to the station meanwhile.                                  *)

(* Power loss, a crash or a restart. *)
Reset ==
  /\ pc # "idle"
  /\ Fault("reset") /\ GiveUp
  /\ UNCHANGED <<flash, nvs, at, pos, uses, age>>

(* A sector loses the data it holds. *)
Rot(s) ==
  /\ data[s] \in Images \X Nat
  /\ Fault("rot")
  /\ data' = [data EXCEPT ![s] = Rotten]
  /\ UNCHANGED <<head, nvs, entries, pc, want, at, pos, uses, age>>

InStore ==
  \/ FindHit \/ FindRotten \/ FindMiss \/ EraseKey
  \/ Evict \/ NoRoom \/ NoRoomReported \/ BeginRun
  \/ EraseSector \/ EraseDone \/ EraseFails
  \/ WriteSector \/ WriteFails \/ WriteDone
  \/ WrongChecksum \/ WriteHeader \/ HeaderFails
  \/ Count \/ Mark \/ MarkFails \/ TransferDone

Next ==
  \/ \E i \in Images : Request(i)
  \/ InStore
  \/ Reset
  \/ \E s \in Sectors : Rot(s)

Spec == Init /\ [][Next]_vars

(* The update goes on until it is done with the store. *)
FairSpec == Spec /\ WF_vars(InStore)

-----------------------------------------------------------------------------
(* Properties.                                                             *)

(* Each variable has the values the program can give it; no more is erased *)
(* or written than the image is long.                                      *)
TypeOK ==
  /\ head \in [Sectors -> Images \cup {NoImage}] /\ data \in [Sectors -> Data]
  /\ use \in [Sectors -> Nat] /\ counter \in Nat
  /\ entries \in [Sectors -> Images \cup {NoImage}]
  /\ pc \in Places /\ want \in SUBSET Images /\ at \in Nat
  /\ pos \in Nat /\ \A i \in want : pc \in Storing => pos <= SectorsOf[i]
  /\ uses \in Nat /\ faults \in Nat
  /\ age \in [Images -> Nat]

(* A header means its data: every sector of an image that can be found     *)
(* still holds that image, unless the flash itself lost it; no download    *)
(* that was interrupted, wrong or given up is ever findable, and no other  *)
(* image is written over one (the header comment of bd_fwstore.cpp).       *)
HeaderMeansData == \A s \in Sectors : Holds(s) =>
  /\ Extent(head[s], s) \subseteq Sectors
  /\ \A k \in 0 .. (SectorsOf[head[s]] - 1) :
       data[s + k] \in {<<head[s], k>>, Rotten}

(* An image lies inside one partition, where esp_partition_read can get it. *)
InOneRegion == \A s \in Sectors : Holds(s) =>
  \A t \in Extent(head[s], s) \cap Sectors : Region[t] = Region[s]

(* What is handed to the transfer is the image wanted, whole. *)
ServedIsWanted == pc = "use" =>
  \A i \in want : \A k \in 0 .. (SectorsOf[i] - 1) : data[at + k] \in {<<i, k>>, Rotten}

(* Nothing but a size no partition has ends in "no room": fragments of the *)
(* free space are joined by dropping what lies between them.               *)
NoRoomOnlyIfTooBig == pc = "noRoom" =>
  \A i \in want, s \in Sectors :
    ~(Extent(i, s) \subseteq Sectors /\ \A t \in Extent(i, s) : Region[t] = Region[s])

(* While NVS works and there was no reset, the image dropped for space is  *)
(* the one whose last transfer is the longest ago.                         *)
EvictsTheOldest == [][
  (pc = "begin" /\ pc' = "evictKey" /\ faults = 0) =>
    \A s, t \in Entries : head'[s] = NoImage => age[head[s]] <= age[head[t]]]_vars

(* The store implements the cache of whole images. *)
Kept == {i \in Images : \E s \in Sectors : head[s] = i}
Phase == CASE pc = "idle" -> "idle"
           [] pc \in Storing -> "storing"
           [] pc \in Serving -> "serving"
           [] OTHER -> "lookup"
Cache == INSTANCE ImageCache WITH kept <- Kept, wanted <- want, phase <- Phase
CacheSpec == Cache!Spec

(* A request for an image ends: the loops that drop images take each off   *)
(* the list they look at, and come to an end.                              *)
RequestEnds == pc = "find" ~> pc \in {"use", "noRoom", "idle"}

-----------------------------------------------------------------------------
(* The inductive invariant behind the safety properties.                   *)

(* Images lie apart from each other, each only once. *)
Apart ==
  /\ \A s, t \in Sectors : Holds(s) /\ Holds(t) /\ s # t =>
       /\ Extent(head[s], s) \cap Extent(head[t], t) = {}
       /\ head[s] # head[t]

(* What the request in progress has made sure of. *)
RequestInv ==
  /\ want = {} <=> pc = "idle"
  /\ \A i, j \in want : i = j
  /\ pc \in {"findKey", "evictKey"} \cup Storing \cup Serving => at \in Sectors
  /\ pc \in {"findKey", "evictKey"} => ~Holds(at)
  /\ pc \in {"begin", "evictKey"} \cup Storing =>
       \A i \in want, s \in Sectors : head[s] # i
  /\ pc \in Storing => \A i \in want :
       /\ Extent(i, at) \subseteq Sectors
       /\ \A t \in Extent(i, at) : Region[t] = Region[at]
       /\ \A s \in Sectors : Holds(s) => Extent(head[s], s) \cap Extent(i, at) = {}
  /\ pc \in Serving => \A i \in want : head[at] = i

(* The list is what is on flash. *)
ListInv == pc \in {"find", "findKey", "begin", "evictKey"} => entries = head

(* NVS tells the order of use, as long as nothing has gone wrong. *)
UseInv == faults = 0 =>
  /\ counter = IF pc = "mark" THEN uses + 1 ELSE uses
  /\ \A s \in Sectors :
       Holds(s) /\ ~(pc \in {"count", "mark"} /\ s = at) => use[s] = age[head[s]]

IInv == TypeOK /\ HeaderMeansData /\ InOneRegion /\ NoRoomOnlyIfTooBig
        /\ Apart /\ RequestInv /\ ListInv /\ UseInv
=============================================================================
