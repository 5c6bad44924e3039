------------------------------ MODULE RxQueue ------------------------------
(***************************************************************************)
(* What the receive path of the HW6 driver promises, without a ring: the   *)
(* packets the device accepts are handed to the driver in the order they   *)
(* arrived, each exactly once and unaltered, and never more than Capacity  *)
(* of them are waiting.  RxRing is shown to implement this.                *)
(***************************************************************************)
EXTENDS Naturals, Sequences

CONSTANTS
  Capacity,   \* the most packets that wait at one time
  Packet,     \* the packets that may arrive
  NoPacket    \* the content of a descriptor nothing was received into

VARIABLES
  queue,      \* accepted and not yet handed to the driver, oldest first
  last        \* the packet handed over most recently

queueVars == <<queue, last>>

Init ==
  /\ queue = <<>>
  /\ last = NoPacket

(* The device accepts a packet.  When there is no room it drops it, which  *)
(* changes nothing here.                                                   *)
Arrive(p) ==
  /\ Len(queue) < Capacity
  /\ queue' = Append(queue, p)
  /\ UNCHANGED last

(* The driver looks at the oldest waiting packet. *)
Handle ==
  /\ queue # <<>>
  /\ last' = Head(queue)
  /\ queue' = Tail(queue)

Next == (\E p \in Packet : Arrive(p)) \/ Handle

Spec == Init /\ [][Next]_queueVars
=============================================================================
