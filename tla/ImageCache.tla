----------------------------- MODULE ImageCache -----------------------------
(***************************************************************************)
(* What the flash store of sensor firmware images promises to the sensor   *)
(* update: a set of whole images that survives a reset.  It changes by one *)
(* image at a time; images go only while the one wanted is looked for or   *)
(* room is made for it, never while it is being stored or transferred.     *)
(*                                                                         *)
(* FwStore (components/bdgs/storage/bd_fwstore.cpp) is shown to implement  *)
(* it.                                                                     *)
(***************************************************************************)
CONSTANT Images

VARIABLES
  kept,    \* images that can be found
  wanted,  \* {the image the sensor update asks for}, or {}
  phase    \* of its request

Init == kept = {} /\ wanted = {} /\ phase = "idle"

Want(i) ==
  /\ phase = "idle"
  /\ phase' = "lookup" /\ wanted' = {i}
  /\ UNCHANGED kept

(* The image wanted no longer matches its checksum, or another one makes   *)
(* room for it.                                                            *)
Drop(i) ==
  /\ phase = "lookup" /\ i \in kept
  /\ i \in wanted \/ wanted \cap kept = {}
  /\ kept' = kept \ {i}
  /\ UNCHANGED <<wanted, phase>>

Hit ==
  /\ phase = "lookup" /\ wanted \subseteq kept
  /\ phase' = "serving"
  /\ UNCHANGED <<kept, wanted>>

HaveRoom ==
  /\ phase = "lookup" /\ wanted \cap kept = {}
  /\ phase' = "storing"
  /\ UNCHANGED <<kept, wanted>>

(* The image is complete and verified. *)
Keep ==
  /\ phase = "storing"
  /\ kept' = kept \cup wanted
  /\ phase' = "serving"
  /\ UNCHANGED wanted

(* The transfer is over, the request has failed or the station was reset.  *)
(* A request that fails at its very end may have kept its image.           *)
End ==
  /\ phase' = "idle" /\ wanted' = {}
  /\ \/ UNCHANGED kept
     \/ phase = "storing" /\ kept' = kept \cup wanted

Next == Hit \/ HaveRoom \/ Keep \/ End \/ \E i \in Images : Want(i) \/ Drop(i)

Spec == Init /\ [][Next]_<<kept, wanted, phase>>
=============================================================================
