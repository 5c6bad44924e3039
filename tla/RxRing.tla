------------------------------- MODULE RxRing -------------------------------
(***************************************************************************)
(* The receive path of HW6/hw6.c while the driver is bound to the device.  *)
(* Three actors share the ring and the registers, one MMIO access at a     *)
(* time: the e1000 (external), irq_handler, and thread_function running    *)
(* from the system work queue on another CPU.                              *)
(*                                                                         *)
(* The device may fill the descriptors from RDH up to, not including, RDT. *)
(* The driver processes the one after RDT until it would meet RDH, handing *)
(* each back by moving RDT on.                                             *)
(*                                                                         *)
(* LEDCTL is the set of LEDs whose bit (7, 15, 23, 31) is set.  ICR and    *)
(* IMS are the RXDMT0 bit of those registers, the only one the driver uses.*)
(***************************************************************************)
EXTENDS Integers, Sequences

CONSTANTS
  N,              \* descriptors in the ring (16 in the code)
  MinThreshold,   \* RXDMT0 is raised when this many are left to the device
  Packet,         \* the packets that may arrive
  NoPacket,       \* the content of a descriptor nothing was received into
  IrqMayStall     \* whether one irq_handler call may outlast msleep(500)

ASSUME RingAssumption ==
  /\ N \in Nat /\ N >= 2
  /\ MinThreshold \in 0 .. N - 2
  /\ NoPacket \notin Packet
  /\ IrqMayStall \in BOOLEAN

VARIABLES
  RDH, RDT,       \* receive descriptor head (device) and tail (driver)
  rxDE,           \* mydev.rx_ring->rxDE: what was received into each descriptor
  ICR, IMS,       \* RXDMT0 cause raised; RXDMT0 enabled
  intx,           \* the interrupt controller has a request to deliver
  LEDCTL,         \* the LEDs that are on
  irqPc,          \* next step of irq_handler
  irqMask,        \* its local irq_mask
  irqLed,         \* the LEDCTL value it read
  pending,        \* WORK_STRUCT_PENDING of test_wq->real_work
  workPc,         \* next step of thread_function
  workTail,       \* its local tail
  workDesc,       \* what it saw in *desc
  workLed,        \* its local LED
  overlap         \* the irq_handler running when msleep began still runs

deviceVars == <<RDH, rxDE>>
irqVars    == <<irqPc, irqMask, irqLed>>
workVars   == <<workPc, workTail, workDesc, workLed>>
vars == <<RDH, RDT, rxDE, ICR, IMS, intx, LEDCTL, irqVars, pending, workVars,
          overlap>>

Slots == 0 .. N - 1
Leds  == 0 .. 3

IrqPcs  == {"idle", "mask", "readLed", "writeLed", "schedule", "ack", "unmask"}
WorkPcs == {"idle", "sleep", "ledOff", "test", "inspect", "advance",
            "readLed", "writeLed"}

(* Slip: the index is not reduced modulo the ring. *)
Succ_NoWrap(i) == i + 1

(* The slot after i, as thread_function computes it. *)
Succ(i) == (i + 1) % N

(* How many descriptors the device may still fill, and which. *)
Free == (RDT - RDH) % N
HwOwned == {i \in Slots : (i - RDH) % N < Free}

TypeOK ==
  /\ RDH \in Slots /\ RDT \in Slots
  /\ rxDE \in [Slots -> Packet \cup {NoPacket}]
  /\ ICR \in BOOLEAN /\ IMS \in BOOLEAN /\ intx \in BOOLEAN
  /\ LEDCTL \in SUBSET Leds
  /\ irqPc \in IrqPcs /\ irqMask \in BOOLEAN /\ irqLed \in SUBSET Leds
  /\ pending \in BOOLEAN
  /\ workPc \in WorkPcs /\ workTail \in Slots /\ workLed \in SUBSET Leds
  /\ workDesc \in Packet \cup {NoPacket}
  /\ overlap \in BOOLEAN

-----------------------------------------------------------------------------
(* The state make_DMA leaves: an empty zeroed ring, head 0, tail on the    *)
(* last descriptor, interrupts enabled.  The probe writes LEDCTL with only *)
(* LED 2 on and then resets the device, which puts LEDCTL back to its      *)
(* default value 0x07068302 (LED 1) on a device whose reset covers it.     *)
Init ==
  /\ RDH = 0 /\ RDT = N - 1
  /\ rxDE = [i \in Slots |-> NoPacket]
  /\ ICR = FALSE /\ IMS = TRUE /\ intx = FALSE
  /\ LEDCTL \in {{1}, {2}}
  /\ irqPc = "idle" /\ irqMask = FALSE /\ irqLed = {}
  /\ pending = FALSE
  /\ workPc = "idle" /\ workTail = 0 /\ workDesc = NoPacket /\ workLed = {}
  /\ overlap = FALSE

-----------------------------------------------------------------------------
(* The device.                                                             *)

(* A request reaches the interrupt controller whenever the cause is raised *)
(* and enabled, and stays there until the handler is called.               *)
Latch(cause, enabled) == intx' = (intx \/ (cause /\ enabled))

(* A packet is received into the descriptor at the head.  With no          *)
(* descriptor left it is dropped and nothing changes.                      *)
Receive(p) ==
  /\ RDH # RDT
  /\ rxDE' = [rxDE EXCEPT ![RDH] = p]
  /\ RDH' = Succ(RDH)
  /\ ICR' = (ICR \/ (RDT - Succ(RDH)) % N = MinThreshold)
  /\ Latch(ICR', IMS)
  /\ UNCHANGED <<RDT, IMS, LEDCTL, irqVars, pending, workVars, overlap>>

-----------------------------------------------------------------------------
(* irq_handler, one action per MMIO access that others can tell apart.     *)
(* The kernel runs one call at a time.                                     *)

(* Called for a request whose cause an earlier call has cleared. *)
IrqNone ==
  /\ irqPc = "idle" /\ intx /\ ~ICR
  /\ intx' = FALSE
  /\ UNCHANGED <<deviceVars, RDT, ICR, IMS, LEDCTL, irqVars, pending, workVars,
                 overlap>>

(* Whether reading ICR clears it is left open: the handler clears it again *)
(* itself and must work either way.                                        *)
IrqEnter ==
  /\ irqPc = "idle" /\ intx /\ ICR
  /\ intx' = FALSE
  /\ ICR' \in BOOLEAN
  /\ irqPc' = "mask"
  /\ UNCHANGED <<deviceVars, RDT, IMS, LEDCTL, irqMask, irqLed, pending,
                 workVars, overlap>>

(* irq_mask is read and the device masked; only this handler changes IMS. *)
IrqMaskAll ==
  /\ irqPc = "mask"
  /\ irqMask' = IMS
  /\ IMS' = FALSE
  /\ irqPc' = "readLed"
  /\ UNCHANGED <<deviceVars, RDT, ICR, intx, LEDCTL, irqLed, pending, workVars,
                 overlap>>

IrqReadLed ==
  /\ irqPc = "readLed"
  /\ irqLed' = LEDCTL
  /\ irqPc' = "writeLed"
  /\ UNCHANGED <<deviceVars, RDT, ICR, IMS, intx, LEDCTL, irqMask, pending,
                 workVars, overlap>>

IrqLedOn ==
  /\ irqPc = "writeLed"
  /\ LEDCTL' = irqLed \cup {0}
  /\ irqPc' = "schedule"
  /\ UNCHANGED <<deviceVars, RDT, ICR, IMS, intx, irqMask, irqLed, pending,
                 workVars, overlap>>

(* schedule_work does nothing when the work is already pending; work that  *)
(* is running may be queued to run once more.                              *)
IrqSchedule ==
  /\ irqPc = "schedule"
  /\ pending' = TRUE
  /\ irqPc' = "ack"
  /\ UNCHANGED <<deviceVars, RDT, ICR, IMS, intx, LEDCTL, irqMask, irqLed,
                 workVars, overlap>>

IrqAck ==
  /\ irqPc = "ack"
  /\ ICR' = FALSE
  /\ irqPc' = "unmask"
  /\ UNCHANGED <<deviceVars, RDT, IMS, intx, LEDCTL, irqMask, irqLed, pending,
                 workVars, overlap>>

(* Writing IMS sets the bits that are set in the value written. *)
IrqUnmask ==
  /\ irqPc = "unmask"
  /\ IMS' = (IMS \/ irqMask)
  /\ Latch(ICR, IMS')
  /\ irqPc' = "idle"
  /\ overlap' = FALSE
  /\ UNCHANGED <<deviceVars, RDT, ICR, LEDCTL, irqMask, irqLed, pending, workVars>>

Irq == \/ IrqNone \/ IrqEnter \/ IrqMaskAll \/ IrqReadLed \/ IrqLedOn
       \/ IrqSchedule \/ IrqAck \/ IrqUnmask

-----------------------------------------------------------------------------
(* thread_function.  A work item never runs on two workers at a time, and  *)
(* stops being pending when it starts.                                     *)

WorkStart ==
  /\ workPc = "idle" /\ pending
  /\ pending' = FALSE
  /\ overlap' = (irqPc # "idle")
  /\ workPc' = "sleep"
  /\ UNCHANGED <<deviceVars, RDT, ICR, IMS, intx, LEDCTL, irqVars, workTail,
                 workDesc, workLed>>

(* msleep(500) returns, then LEDCTL is read. *)
WorkWake ==
  /\ workPc = "sleep"
  /\ overlap => IrqMayStall
  /\ workLed' = LEDCTL
  /\ workPc' = "ledOff"
  /\ UNCHANGED <<deviceVars, RDT, ICR, IMS, intx, LEDCTL, irqVars, pending,
                 workTail, workDesc, overlap>>

(* Slip: the bit is not masked out. *)
WorkLedOff_NoMask ==
  /\ workPc = "ledOff"
  /\ LEDCTL' = workLed
  /\ workPc' = "test"
  /\ UNCHANGED <<deviceVars, RDT, ICR, IMS, intx, irqVars, pending, workTail,
                 workDesc, workLed, overlap>>

WorkLedOff ==
  /\ workPc = "ledOff"
  /\ LEDCTL' = workLed \ {0}
  /\ workPc' = "test"
  /\ UNCHANGED <<deviceVars, RDT, ICR, IMS, intx, irqVars, pending, workTail,
                 workDesc, workLed, overlap>>

(* Slip: the loop runs until the tail itself meets the head. *)
WorkTest_UntilEqual ==
  /\ workPc = "test"
  /\ workTail' = Succ(RDT)
  /\ workPc' = IF RDT # RDH THEN "inspect" ELSE "idle"
  /\ UNCHANGED <<deviceVars, RDT, ICR, IMS, intx, LEDCTL, irqVars, pending,
                 workDesc, workLed, overlap>>

(* The loop condition.  RDT is written by this thread only, so the moment  *)
(* that counts is the read of RDH.                                         *)
WorkTest ==
  /\ workPc = "test"
  /\ workTail' = Succ(RDT)
  /\ workPc' = IF Succ(RDT) # RDH THEN "inspect" ELSE "idle"
  /\ UNCHANGED <<deviceVars, RDT, ICR, IMS, intx, LEDCTL, irqVars, pending,
                 workDesc, workLed, overlap>>

(* Processing a descriptor is printing its status and length. *)
WorkInspect ==
  /\ workPc = "inspect"
  /\ workDesc' = rxDE[workTail]
  /\ workPc' = "advance"
  /\ UNCHANGED <<deviceVars, RDT, ICR, IMS, intx, LEDCTL, irqVars, pending,
                 workTail, workLed, overlap>>

(* Slip: the tail is moved one descriptor too far. *)
WorkAdvance_TooFar ==
  /\ workPc = "advance"
  /\ RDT' = Succ(workTail)
  /\ workPc' = "readLed"
  /\ UNCHANGED <<deviceVars, ICR, IMS, intx, LEDCTL, irqVars, pending,
                 workTail, workDesc, workLed, overlap>>

(* Slip: the new tail is computed but not written. *)
WorkAdvance_NotWritten ==
  /\ workPc = "advance"
  /\ workPc' = "readLed"
  /\ UNCHANGED <<deviceVars, RDT, ICR, IMS, intx, LEDCTL, irqVars, pending,
                 workTail, workDesc, workLed, overlap>>

WorkAdvance ==
  /\ workPc = "advance"
  /\ RDT' = workTail
  /\ workPc' = "readLed"
  /\ UNCHANGED <<deviceVars, ICR, IMS, intx, LEDCTL, irqVars, pending,
                 workTail, workDesc, workLed, overlap>>

WorkReadLed ==
  /\ workPc = "readLed"
  /\ workLed' = LEDCTL
  /\ workPc' = "writeLed"
  /\ UNCHANGED <<deviceVars, RDT, ICR, IMS, intx, LEDCTL, irqVars, pending,
                 workTail, workDesc, overlap>>

(* Slip: an if where the code has a while, one descriptor per call. *)
WorkShowTail_Once ==
  /\ workPc = "writeLed"
  /\ LEDCTL' = IF workTail % 2 = 0 THEN workLed \ {1, 3} ELSE workLed \cup {1}
  /\ workPc' = "idle"
  /\ UNCHANGED <<deviceVars, RDT, ICR, IMS, intx, irqVars, pending, workTail,
                 workDesc, workLed, overlap>>

(* The mask of the even branch, 0xFFF7FFF, is seven digits long: beside    *)
(* LED 1 it clears the top four bits, LED 3 with them.                     *)
WorkShowTail ==
  /\ workPc = "writeLed"
  /\ LEDCTL' = IF workTail % 2 = 0 THEN workLed \ {1, 3} ELSE workLed \cup {1}
  /\ workPc' = "test"
  /\ UNCHANGED <<deviceVars, RDT, ICR, IMS, intx, irqVars, pending, workTail,
                 workDesc, workLed, overlap>>

Work == \/ WorkStart \/ WorkWake \/ WorkLedOff \/ WorkTest \/ WorkInspect
        \/ WorkAdvance \/ WorkReadLed \/ WorkShowTail

-----------------------------------------------------------------------------
Next == (\E p \in Packet : Receive(p)) \/ Irq \/ Work

Spec == Init /\ [][Next]_vars

(* Interrupts are delivered, handlers run to completion and the work queue *)
(* runs what is queued.  Nothing is assumed of the network.                *)
Fairness == WF_vars(Irq) /\ WF_vars(Work)

FairSpec == Spec /\ Fairness
-----------------------------------------------------------------------------
(* The packets received and not yet looked at, oldest first.               *)
Unseen ==
  LET seen == IF workPc = "advance" THEN 1 ELSE 0
  IN  [k \in 1 .. N - 1 - Free - seen |-> rxDE[(RDT + seen + k) % N]]

Queue == INSTANCE RxQueue WITH Capacity <- N - 1, queue <- Unseen,
                               last <- workDesc

(* The ring is a first-in first-out queue: whatever way the device and the *)
(* work function interleave, thread_function (hw6.c:172-184) sees every    *)
(* packet the device put into the ring once, unaltered and in order.       *)
RingIsQueue == Queue!Spec

(* A descriptor thread_function reads at hw6.c:173-179 and is about to     *)
(* hand back is never one the device may write to, although the device     *)
(* moves its head between the loop condition and the read.                 *)
WorkerOwnsDescriptor ==
  workPc \in {"inspect", "advance"} => workTail \notin HwOwned

(* No wake-up is lost: when the device is down to its threshold, a request *)
(* is on its way to irq_handler, or the handler has still to call          *)
(* schedule_work, or the work is queued or running.  Clearing ICR after    *)
(* schedule_work (hw6.c:216-217) may discard a newer cause, but then work  *)
(* that has not yet looked at the ring is there.                           *)
LowRingNoticed ==
  Free <= MinThreshold =>
    \/ ICR /\ intx
    \/ irqPc \in {"mask", "readLed", "writeLed", "schedule"}
    \/ pending
    \/ workPc # "idle"

(* A full ring, on which the device drops every packet, gets room again:   *)
(* the interrupt at the threshold leads to work that hands descriptors     *)
(* back (hw6.c:172-184 and 204-218).                                       *)
FullRingGetsRoom == (RDH = RDT) ~> (RDH # RDT)

(* LED 0, which irq_handler turns on (hw6.c:214), is turned off again by   *)
(* the work it queued (hw6.c:169), although both write LEDCTL with values  *)
(* they read before.  Traffic that keeps pace with the loop of             *)
(* thread_function can hold one call in it for ever, so this is for        *)
(* traffic that lets the loop end again and again.                         *)
Led0GoesOff ==
  []<>(workPc = "idle") => ((0 \in LEDCTL) ~> (0 \notin LEDCTL))
=============================================================================
