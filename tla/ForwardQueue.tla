---------------------------- MODULE ForwardQueue ----------------------------
(***************************************************************************)
(* What is forwarded to the backend (components/bdgs/net/bd_net.cpp): the  *)
(* radio task puts payloads into a ring that drops the oldest when it is   *)
(* full, the net task takes them out and posts them one by one.  A payload *)
(* is the number of its kind: 1, 2, ...                                    *)
(*                                                                         *)
(* A definition named ...Mutant is what a slip in the code would make of   *)
(* the one after it; it is used nowhere.                                   *)
(***************************************************************************)
EXTENDS Integers

CONSTANTS
  Capacity     \* FORWARD_QUEUE_CAPACITY, 12

ASSUME QueueAssumption == Capacity \in Nat \ {0}

VARIABLES
  items,       \* s_forward_queue
  qhead,       \* s_forward_head
  qcount,      \* s_forward_count
  posting,     \* the payload the net task took out, 0 for none
  last,        \* the newest payload
  posted       \* the newest the backend got

queueVars == <<items, qhead, qcount, posting, last, posted>>

QueueInit ==
  /\ items = [i \in 0..(Capacity - 1) |-> 0] /\ qhead = 0 /\ qcount = 0
  /\ posting = 0 /\ last = 0 /\ posted = 0

QueueTypeOK ==
  /\ items \in [0..(Capacity - 1) -> Nat]
  /\ qhead \in 0..(Capacity - 1) /\ qcount \in 0..Capacity
  /\ {posting, last, posted} \subseteq Nat

(* enqueue_forward_payload                                                 *)
HeadAfterDropMutant == qhead

HeadAfterDrop == IF qcount = Capacity THEN (qhead + 1) % Capacity ELSE qhead

Enqueue ==
  /\ last' = last + 1
  /\ qhead' = HeadAfterDrop
  /\ LET kept == IF qcount = Capacity THEN qcount - 1 ELSE qcount
     IN  /\ items' = [items EXCEPT ![(qhead' + kept) % Capacity] = last']
         /\ qcount' = kept + 1
  /\ UNCHANGED <<posting, posted>>

(* forward_queue_pop                                                       *)
Pop ==
  /\ posting = 0 /\ qcount > 0
  /\ posting' = items[qhead] /\ items' = [items EXCEPT ![qhead] = 0]
  /\ qhead' = (qhead + 1) % Capacity /\ qcount' = qcount - 1
  /\ UNCHANGED <<last, posted>>

(* process_forward_queue: one POST, which may fail; the payload is gone.   *)
Post ==
  /\ posting # 0 /\ posting' = 0
  /\ posted' \in {posted, posting}
  /\ UNCHANGED <<items, qhead, qcount, last>>
=============================================================================
