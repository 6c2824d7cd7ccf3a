---------------------------- MODULE StopAndWait ----------------------------
(***************************************************************************)
(* What the chunk transfer of a sensor update promises, whatever the radio *)
(* does: the station and a sensor agree on the image chunk by chunk, in    *)
(* order.  The sensor is never more than one chunk ahead of what the       *)
(* station believes, and never behind it.                                  *)
(*                                                                         *)
(* OtaTransfer (components/bdgs/ota/ota_gs.cpp) is shown to implement it.  *)
(***************************************************************************)
EXTENDS Naturals

CONSTANTS
  Peers,   \* the sessions (one per announcement nonce)
  Length   \* chunks of the image

VARIABLES
  held,    \* held[p]: leading chunks of its image peer p has stored
  acked    \* acked[p]: chunks the station counts as stored by p

Init ==
  /\ held  = [p \in Peers |-> 0]
  /\ acked = [p \in Peers |-> 0]

(* The next chunk reaches the peer; only once it holds what the station    *)
(* counts, not more.                                                       *)
Deliver(p) ==
  /\ held[p] = acked[p]
  /\ held[p] < Length
  /\ held' = [held EXCEPT ![p] = @ + 1]
  /\ UNCHANGED acked

(* The acknowledgement of that chunk reaches the station. *)
Confirm(p) ==
  /\ held[p] = acked[p] + 1
  /\ acked' = [acked EXCEPT ![p] = @ + 1]
  /\ UNCHANGED held

Next == \E p \in Peers : Deliver(p) \/ Confirm(p)

Spec == Init /\ [][Next]_<<held, acked>>
=============================================================================
