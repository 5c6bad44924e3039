---------------------------- MODULE RxRingProofs ----------------------------
(***************************************************************************)
(* Proofs about RxRing for a ring of any size, any threshold and any set   *)
(* of packets.                                                             *)
(***************************************************************************)
EXTENDS RxRing, SequenceTheorems, TLAPS

(* The head cannot reach the descriptor thread_function has decided on:    *)
(* it would first have to pass the tail, and the device stops there.       *)
TailAhead ==
  workPc \in {"inspect", "advance"} => workTail = Succ(RDT) /\ RDH # workTail

(* RXDMT0 is masked exactly between the two writes of irq_handler, which   *)
(* keeps the mask to restore in irq_mask.                                  *)
MaskSaved ==
  /\ IMS <=> irqPc \in {"idle", "mask"}
  /\ irqPc \notin {"idle", "mask"} => irqMask

(* When the handler clears ICR, the call of thread_function it asked for   *)
(* has not looked at the ring yet.                                         *)
ClearedBeforeLook ==
  irqPc \in {"ack", "unmask"} => pending \/ (workPc = "sleep" /\ overlap)

-----------------------------------------------------------------------------
(* Arithmetic on the slots of the ring.                                    *)

(* Succ is addition with wrap-around: it stays in the ring and distinct    *)
(* slots have distinct successors (hw6.c:172).                             *)
LEMMA SuccFacts ==
  ASSUME NEW i \in Slots, NEW j \in Slots
  PROVE  /\ Succ(i) = IF i = N - 1 THEN 0 ELSE i + 1
         /\ Succ(i) \in Slots
         /\ Succ(i) = Succ(j) => i = j
BY RingAssumption DEF Slots, Succ

(* The distance from slot i forward to slot j.                             *)
LEMMA DistanceFacts ==
  ASSUME NEW i \in Slots, NEW j \in Slots
  PROVE  /\ (j - i) % N = IF j >= i THEN j - i ELSE j - i + N
         /\ (j - i) % N \in Slots
BY RingAssumption DEF Slots

(* Receiving a packet takes one descriptor from the device, handing one    *)
(* back gives it one.                                                      *)
LEMMA FreeFacts ==
  ASSUME NEW i \in Slots, NEW j \in Slots
  PROVE  /\ i # j => (j - Succ(i)) % N = ((j - i) % N) - 1
         /\ Succ(j) # i => (Succ(j) - i) % N = ((j - i) % N) + 1
         /\ Succ(j) = i => (j - i) % N = N - 1
<1>1. Succ(i) \in Slots /\ Succ(j) \in Slots
  BY SuccFacts
<1>2. Succ(i) = (IF i = N - 1 THEN 0 ELSE i + 1)
      /\ Succ(j) = (IF j = N - 1 THEN 0 ELSE j + 1)
  BY SuccFacts
<1>3. (j - i) % N = IF j >= i THEN j - i ELSE j - i + N
  BY DistanceFacts
<1>4. (j - Succ(i)) % N = IF j >= Succ(i) THEN j - Succ(i) ELSE j - Succ(i) + N
  BY <1>1, DistanceFacts
<1>5. (Succ(j) - i) % N = IF Succ(j) >= i THEN Succ(j) - i ELSE Succ(j) - i + N
  BY <1>1, DistanceFacts
<1>6. QED
  BY <1>2, <1>3, <1>4, <1>5, RingAssumption DEF Slots

-----------------------------------------------------------------------------
(* A step of the device, the handler or the work keeps every index in the  *)
(* ring, whatever module life surrounds it.                                *)
LEMMA TypeStep ==
  TypeOK /\ [Next]_vars => TypeOK'
<1> SUFFICES ASSUME TypeOK, [Next]_vars
             PROVE  TypeOK'
  OBVIOUS
<1> USE DEF TypeOK, deviceVars, irqVars, workVars
<1>1. ASSUME NEW p \in Packet, Receive(p)
      PROVE  TypeOK'
  <2>1. RDH' \in Slots
    BY <1>1, SuccFacts DEF Receive
  <2>2. rxDE' \in [Slots -> Packet \cup {NoPacket}]
    BY <1>1 DEF Receive
  <2>3. ICR' \in BOOLEAN /\ intx' \in BOOLEAN
    BY <1>1 DEF Receive, Latch
  <2>4. QED
    BY <1>1, <2>1, <2>2, <2>3 DEF Receive
<1>2. CASE IrqNone
  BY <1>2 DEF IrqNone
<1>3. CASE IrqEnter
  BY <1>3 DEF IrqEnter, IrqPcs
<1>4. CASE IrqMaskAll
  BY <1>4 DEF IrqMaskAll, IrqPcs
<1>5. CASE IrqReadLed
  BY <1>5 DEF IrqReadLed, IrqPcs
<1>6. CASE IrqLedOn
  BY <1>6 DEF IrqLedOn, IrqPcs, Leds
<1>7. CASE IrqSchedule
  BY <1>7 DEF IrqSchedule, IrqPcs
<1>8. CASE IrqAck
  BY <1>8 DEF IrqAck, IrqPcs
<1>9. CASE IrqUnmask
  BY <1>9 DEF IrqUnmask, Latch, IrqPcs
<1>10. CASE WorkStart
  BY <1>10 DEF WorkStart, WorkPcs
<1>11. CASE WorkWake
  BY <1>11 DEF WorkWake, WorkPcs
<1>12. CASE WorkLedOff
  BY <1>12 DEF WorkLedOff, WorkPcs
<1>13. CASE WorkTest
  BY <1>13, SuccFacts DEF WorkTest, WorkPcs
<1>14. CASE WorkInspect
  BY <1>14 DEF WorkInspect, WorkPcs
<1>15. CASE WorkAdvance
  BY <1>15 DEF WorkAdvance, WorkPcs
<1>16. CASE WorkReadLed
  BY <1>16 DEF WorkReadLed, WorkPcs
<1>17. CASE WorkShowTail
  BY <1>17 DEF WorkShowTail, WorkPcs, Leds
<1>18. CASE UNCHANGED vars
  BY <1>18 DEF vars
<1>19. QED
  BY <1>1, <1>2, <1>3, <1>4, <1>5, <1>6, <1>7, <1>8, <1>9, <1>10, <1>11,
     <1>12, <1>13, <1>14, <1>15, <1>16, <1>17, <1>18 DEF Next, Irq, Work

(* Type correctness: no index leaves the ring, no LED is invented.         *)
THEOREM TypeCorrect == Spec => []TypeOK
<1>1. Init => TypeOK
  <2> SUFFICES ASSUME Init
               PROVE  TypeOK
    OBVIOUS
  <2>1. 0 \in Slots /\ N - 1 \in Slots
    BY RingAssumption DEF Slots
  <2>2. LEDCTL \in SUBSET Leds
    BY DEF Init, Leds
  <2>3. rxDE \in [Slots -> Packet \cup {NoPacket}]
    BY DEF Init
  <2>4. QED
    BY <2>1, <2>2, <2>3 DEF Init, TypeOK, IrqPcs, WorkPcs
<1>2. TypeOK /\ [Next]_vars => TypeOK'
  BY TypeStep
<1>3. QED
  BY <1>1, <1>2, PTL DEF Spec

-----------------------------------------------------------------------------
(* Where thread_function stands relative to head and tail.                 *)

LEMMA TailAheadStep ==
  ASSUME TypeOK, TailAhead, [Next]_vars
  PROVE  TailAhead'
<1> USE DEF TailAhead, deviceVars, irqVars, workVars
<1>1. ASSUME NEW p \in Packet, Receive(p)
      PROVE  TailAhead'
  <2>1. RDH # RDT /\ RDH' = Succ(RDH)
    BY <1>1 DEF Receive
  <2>2. Succ(RDH) # Succ(RDT)
    BY <2>1, SuccFacts DEF TypeOK
  <2>3. UNCHANGED <<RDT, workPc, workTail>>
    BY <1>1 DEF Receive
  <2>4. Succ(RDT)' = Succ(RDT)
    BY <2>3 DEF Succ
  <2>5. QED
    BY <2>1, <2>2, <2>3, <2>4
<1>2. ASSUME Irq
      PROVE  TailAhead'
  BY <1>2 DEF Irq, IrqNone, IrqEnter, IrqMaskAll, IrqReadLed, IrqLedOn,
              IrqSchedule, IrqAck, IrqUnmask, Succ
<1>3. ASSUME WorkTest
      PROVE  TailAhead'
  BY <1>3 DEF WorkTest, Succ
<1>4. ASSUME WorkInspect
      PROVE  TailAhead'
  BY <1>4 DEF WorkInspect, Succ
<1>5. ASSUME WorkStart \/ WorkWake \/ WorkLedOff \/ WorkAdvance
             \/ WorkReadLed \/ WorkShowTail
      PROVE  TailAhead'
  <2>1. workPc' \notin {"inspect", "advance"}
    BY <1>5 DEF WorkStart, WorkWake, WorkLedOff, WorkAdvance, WorkReadLed,
                WorkShowTail
  <2>2. QED
    BY <2>1
<1>6. CASE UNCHANGED vars
  BY <1>6 DEF vars, Succ
<1>7. QED
  BY <1>1, <1>2, <1>3, <1>4, <1>5, <1>6 DEF Next, Work

(* This holds at any time. *)
LEMMA TailAheadInvariant == Spec => []TailAhead
<1>1. Init => TailAhead
  BY DEF Init, TailAhead
<1> QED BY <1>1, TailAheadStep, TypeCorrect, PTL DEF Spec

(* A descriptor ahead of the tail that is not the head is one the device   *)
(* has finished with.                                                      *)
LEMMA AheadOwns == TypeOK /\ TailAhead => WorkerOwnsDescriptor
<1> SUFFICES ASSUME TypeOK, TailAhead, workPc \in {"inspect", "advance"}
             PROVE  workTail \notin HwOwned
  BY DEF WorkerOwnsDescriptor
<1>1. workTail = Succ(RDT) /\ RDH # workTail
  BY DEF TailAhead
<1>2. (workTail - RDH) % N = ((RDT - RDH) % N) + 1
  BY <1>1, FreeFacts DEF TypeOK
<1>3. (RDT - RDH) % N \in Slots
  BY DistanceFacts DEF TypeOK
<1>4. ~((workTail - RDH) % N < (RDT - RDH) % N)
  BY <1>2, <1>3 DEF Slots
<1> QED BY <1>4 DEF HwOwned, Free

(* The device never writes a descriptor thread_function is reading or is   *)
(* about to hand back (hw6.c:172-184), for a ring of any size.             *)
THEOREM WorkerOwns == Spec => []WorkerOwnsDescriptor
BY AheadOwns, TypeCorrect, TailAheadInvariant, PTL

-----------------------------------------------------------------------------
(* No wake-up is lost.                                                     *)

LEMMA MaskSavedStep ==
  TypeOK /\ MaskSaved /\ [Next]_vars => MaskSaved'
<1> SUFFICES ASSUME TypeOK, MaskSaved, [Next]_vars
             PROVE  MaskSaved'
  OBVIOUS
<1> USE DEF TypeOK, MaskSaved, deviceVars, irqVars, workVars
<1>1. ASSUME NEW p \in Packet, Receive(p)
      PROVE  MaskSaved'
  BY <1>1 DEF Receive
<1>2. CASE Irq
  BY <1>2 DEF Irq, IrqNone, IrqEnter, IrqMaskAll, IrqReadLed, IrqLedOn,
              IrqSchedule, IrqAck, IrqUnmask
<1>3. CASE Work
  BY <1>3 DEF Work, WorkStart, WorkWake, WorkLedOff, WorkTest, WorkInspect,
              WorkAdvance, WorkReadLed, WorkShowTail
<1>4. CASE UNCHANGED vars
  BY <1>4 DEF vars
<1>5. QED
  BY <1>1, <1>2, <1>3, <1>4 DEF Next

(* This holds at any time. *)
LEMMA MaskSavedInvariant == Spec => []MaskSaved
<1>1. Init => MaskSaved
  BY DEF Init, MaskSaved
<1>2. TypeOK /\ MaskSaved /\ [Next]_vars => MaskSaved'
  BY MaskSavedStep
<1>3. QED
  BY <1>1, <1>2, TypeCorrect, PTL DEF Spec

(* The work cannot begin to look while the handler that asked for it is    *)
(* still to clear ICR, unless the handler outlasts msleep(500).            *)
LEMMA ClearedBeforeLookStep ==
  ASSUME ~IrqMayStall
  PROVE  TypeOK /\ ClearedBeforeLook /\ [Next]_vars => ClearedBeforeLook'
<1> SUFFICES ASSUME TypeOK, ClearedBeforeLook, [Next]_vars
             PROVE  ClearedBeforeLook'
  OBVIOUS
<1> USE DEF ClearedBeforeLook, deviceVars, irqVars, workVars
<1>1. ASSUME NEW p \in Packet, Receive(p)
      PROVE  ClearedBeforeLook'
  BY <1>1 DEF Receive
<1>2. CASE Irq
  BY <1>2 DEF Irq, IrqNone, IrqEnter, IrqMaskAll, IrqReadLed, IrqLedOn,
              IrqSchedule, IrqAck, IrqUnmask
<1>3. CASE WorkStart
  BY <1>3 DEF WorkStart
<1>4. CASE WorkWake
  BY <1>4 DEF WorkWake
<1>5. CASE WorkLedOff \/ WorkTest \/ WorkInspect \/ WorkAdvance
           \/ WorkReadLed \/ WorkShowTail
  BY <1>5 DEF WorkLedOff, WorkTest, WorkInspect, WorkAdvance, WorkReadLed,
              WorkShowTail
<1>6. CASE UNCHANGED vars
  BY <1>6 DEF vars
<1>7. QED
  BY <1>1, <1>2, <1>3, <1>4, <1>5, <1>6 DEF Next, Work

(* This holds at any time. *)
LEMMA ClearedBeforeLookInvariant ==
  ASSUME ~IrqMayStall PROVE Spec => []ClearedBeforeLook
<1>1. Init => ClearedBeforeLook
  BY DEF Init, ClearedBeforeLook
<1>2. TypeOK /\ ClearedBeforeLook /\ [Next]_vars => ClearedBeforeLook'
  BY ClearedBeforeLookStep
<1>3. QED
  BY <1>1, <1>2, TypeCorrect, PTL DEF Spec

(* A ring that runs low raises a request that is not lost, or finds the    *)
(* handler or the work on the way.                                         *)
LEMMA LowRingStep ==
  TypeOK /\ MaskSaved /\ ClearedBeforeLook /\ LowRingNoticed /\ [Next]_vars
    => LowRingNoticed'
<1> DEFINE Coming == \/ ICR /\ intx
                     \/ irqPc \in {"mask", "readLed", "writeLed", "schedule"}
                     \/ pending
                     \/ workPc # "idle"
<1> SUFFICES ASSUME TypeOK, MaskSaved, ClearedBeforeLook, LowRingNoticed,
                    [Next]_vars
             PROVE  LowRingNoticed'
  OBVIOUS
<1> USE DEF LowRingNoticed, deviceVars, irqVars, workVars
<1>1. ASSUME NEW p \in Packet, Receive(p)
      PROVE  LowRingNoticed'
  <2> USE DEF TypeOK
  <2>1. Free' = (RDT - Succ(RDH)) % N /\ Free' = Free - 1 /\ Free \in Slots
    BY <1>1, FreeFacts, DistanceFacts DEF Receive, Free
  <2>2. CASE Free' = MinThreshold
    <3>1. ICR'
      BY <1>1, <2>1, <2>2 DEF Receive
    <3>2. IMS => intx'
      BY <1>1, <3>1 DEF Receive, Latch
    <3>3. ~IMS => irqPc \in {"readLed", "writeLed", "schedule", "ack", "unmask"}
      BY DEF MaskSaved, IrqPcs
    <3>4. UNCHANGED <<irqPc, pending, workPc>>
      BY <1>1 DEF Receive
    <3>5. QED
      BY <3>1, <3>2, <3>3, <3>4 DEF ClearedBeforeLook
  <2>3. CASE Free' # MinThreshold
    <3>1. Free' <= MinThreshold => Free <= MinThreshold
      BY <2>1, <2>3, RingAssumption DEF Slots
    <3>2. Coming => Coming'
      BY <1>1 DEF Receive, Latch
    <3>3. QED
      BY <3>1, <3>2
  <2>4. QED
    BY <2>2, <2>3
<1>2. CASE Irq
  <2>1. Free' = Free
    BY <1>2 DEF Irq, IrqNone, IrqEnter, IrqMaskAll, IrqReadLed, IrqLedOn,
                IrqSchedule, IrqAck, IrqUnmask, Free
  <2>2. Coming => Coming'
    BY <1>2 DEF Irq, IrqNone, IrqEnter, IrqMaskAll, IrqReadLed, IrqLedOn,
                IrqSchedule, IrqAck, IrqUnmask, Latch, TypeOK,
                ClearedBeforeLook
  <2>3. QED
    BY <2>1, <2>2
<1>3. CASE WorkTest
  <2>1. Free' = Free
    BY <1>3 DEF WorkTest, Free
  <2>2. workPc' = "idle" => ~(Free <= MinThreshold)
    <3>1. workPc' = "idle" => Succ(RDT) = RDH
      BY <1>3 DEF WorkTest
    <3>2. Succ(RDT) = RDH => Free = N - 1
      BY FreeFacts DEF TypeOK, Free
    <3>3. QED
      BY <3>1, <3>2, RingAssumption
  <2>3. QED
    BY <2>1, <2>2
<1>4. CASE WorkStart \/ WorkWake \/ WorkLedOff \/ WorkInspect
           \/ WorkAdvance \/ WorkReadLed \/ WorkShowTail
  <2>1. workPc' # "idle"
    BY <1>4 DEF WorkStart, WorkWake, WorkLedOff, WorkInspect, WorkAdvance,
                WorkReadLed, WorkShowTail
  <2>2. QED
    BY <2>1
<1>5. CASE UNCHANGED vars
  BY <1>5 DEF vars, Free
<1>6. QED
  BY <1>1, <1>2, <1>3, <1>4, <1>5 DEF Next, Work

(* When the device is down to its threshold somebody is on the way to the  *)
(* ring (hw6.c:204-218 against 172-184), for a ring of any size and any    *)
(* threshold below N - 1, provided no call of irq_handler outlasts the     *)
(* msleep(500) of the work it queued.                                      *)
THEOREM LowRing ==
  ASSUME ~IrqMayStall PROVE Spec => []LowRingNoticed
<1>1. Init => LowRingNoticed
  <2> SUFFICES ASSUME Init
               PROVE  ~(Free <= MinThreshold)
    BY DEF LowRingNoticed
  <2>1. Free = N - 1
    BY RingAssumption DEF Init, Free
  <2>2. QED
    BY <2>1, RingAssumption
<1>2. TypeOK /\ MaskSaved /\ ClearedBeforeLook /\ LowRingNoticed /\ [Next]_vars
        => LowRingNoticed'
  BY LowRingStep
<1>3. QED
  BY <1>1, <1>2, TypeCorrect, MaskSavedInvariant, ClearedBeforeLookInvariant,
     PTL DEF Spec

-----------------------------------------------------------------------------
(* The ring implements the queue.                                          *)

(* The contents of m slots of ring content d, from the one after slot i. *)
Slice(d, i, m) == [k \in 1 .. m |-> d[(i + k) % N]]

(* How many of the packets not handed back thread_function has looked at. *)
Seen == IF workPc = "advance" THEN 1 ELSE 0

(* A slice of the ring is a sequence of its length. *)
LEMMA SliceFacts ==
  ASSUME NEW S, NEW d \in [Slots -> S], NEW i \in 0 .. N, NEW m \in 0 .. N
  PROVE  Slice(d, i, m) \in Seq(S) /\ Len(Slice(d, i, m)) = m
<1> DEFINE s == Slice(d, i, m)
<1>1. ASSUME NEW k \in 1 .. m PROVE (i + k) % N \in Slots
  BY RingAssumption DEF Slots
<1>2. ASSUME NEW k \in 1 .. m PROVE d[(i + k) % N] \in S
  BY <1>1
<1>3. m \in Nat
  BY RingAssumption
<1>4. s \in [1 .. m -> S]
  BY <1>2 DEF Slice
<1> HIDE DEF s
<1>5. s \in Seq(S)
  BY <1>3, <1>4, SeqDef
<1>6. Len(s) = m
  <2>1. DOMAIN s = 1 .. m
    BY <1>4
  <2>2. DOMAIN s = 1 .. Len(s) /\ Len(s) \in Nat
    BY <1>5, LenProperties
  <2> QED BY <1>3, <2>1, <2>2
<1> QED BY <1>5, <1>6 DEF s

(* Writing the slot behind a slice and taking it in appends to it. *)
LEMMA SliceAppend ==
  ASSUME NEW S, NEW d \in [Slots -> S], NEW i \in 0 .. N,
         NEW m \in 0 .. N - 1, NEW p \in S
  PROVE  Slice([d EXCEPT ![(i + m + 1) % N] = p], i, m + 1)
           = Append(Slice(d, i, m), p)
<1> DEFINE j == (i + m + 1) % N
           e == [d EXCEPT ![j] = p]
           s == Slice(d, i, m)
           t == Slice(e, i, m + 1)
<1>1. j \in Slots /\ \A k \in 1 .. m : (i + k) % N \in Slots \ {j}
  <2>1. ASSUME NEW k \in 1 .. m + 1
        PROVE  (i + k) % N = IF i + k >= 2 * N THEN i + k - 2 * N
                             ELSE IF i + k >= N THEN i + k - N ELSE i + k
    BY RingAssumption
  <2> QED BY <2>1, RingAssumption DEF Slots
<1>2. e \in [Slots -> S]
  BY <1>1
<1>3. m \in 0 .. N /\ m + 1 \in 0 .. N
  BY RingAssumption
<1>4. s \in Seq(S) /\ Len(s) = m
  BY <1>3, SliceFacts
<1>5. t \in Seq(S) /\ Len(t) = m + 1
  <2> HIDE DEF e
  <2> QED BY <1>2, <1>3, SliceFacts
<1>6. ASSUME NEW k \in 1 .. m PROVE t[k] = s[k]
  BY <1>1, <1>3 DEF Slice
<1>7. t[m + 1] = p
  BY <1>1, <1>3 DEF Slice
<1> HIDE DEF s, t
<1>8. t = Append(s, p)
  <2>1. /\ Append(s, p) \in Seq(S) /\ Len(Append(s, p)) = m + 1
        /\ \A k \in 1 .. m : Append(s, p)[k] = s[k]
        /\ Append(s, p)[m + 1] = p
    BY <1>4, AppendProperties
  <2>2. \A k \in 1 .. m + 1 : t[k] = Append(s, p)[k]
    BY <1>3, <1>6, <1>7, <2>1
  <2> QED BY <1>5, <2>1, <2>2, SeqEqual
<1> QED BY <1>8 DEF s, t

(* The first of a slice, and the slice without it. *)
LEMMA SliceTail ==
  ASSUME NEW S, NEW d \in [Slots -> S], NEW i \in 0 .. N - 1, NEW m \in 1 .. N
  PROVE  /\ Slice(d, i, m) # <<>>
         /\ Head(Slice(d, i, m)) = d[(i + 1) % N]
         /\ Tail(Slice(d, i, m)) = Slice(d, i + 1, m - 1)
<1> DEFINE s == Slice(d, i, m)
           t == Slice(d, i + 1, m - 1)
<1>1. /\ i \in 0 .. N /\ i + 1 \in 0 .. N
      /\ m \in 0 .. N /\ m - 1 \in 0 .. N
  BY RingAssumption
<1>2. s \in Seq(S) /\ Len(s) = m
  BY <1>1, SliceFacts
<1>3. t \in Seq(S) /\ Len(t) = m - 1
  BY <1>1, SliceFacts
<1>4. s[1] = d[(i + 1) % N]
  BY DEF Slice
<1>5. ASSUME NEW k \in 1 .. m - 1 PROVE t[k] = s[k + 1]
  <2>1. k + 1 \in 1 .. m /\ i + (k + 1) = (i + 1) + k
    BY <1>1
  <2> QED BY <2>1 DEF Slice
<1> HIDE DEF s, t
<1>6. s # <<>>
  BY <1>2, EmptySeq
<1>7. Head(s) = d[(i + 1) % N]
  BY <1>2, <1>4, <1>6
<1>8. Tail(s) = t
  <2>1. /\ Tail(s) \in Seq(S) /\ Len(Tail(s)) = m - 1
        /\ \A k \in 1 .. m - 1 : Tail(s)[k] = s[k + 1]
    BY <1>2, <1>6, HeadTailProperties
  <2>2. \A k \in 1 .. m - 1 : Tail(s)[k] = t[k]
    BY <1>5, <2>1
  <2> QED BY <1>3, <2>1, <2>2, SeqEqual
<1> QED BY <1>6, <1>7, <1>8 DEF s, t

(* What is unseen is the slice after the descriptors looked at. *)
LEMMA UnseenSlice == Unseen = Slice(rxDE, RDT + Seen, N - 1 - Free - Seen)
BY DEF Unseen, Slice, Seen

(* The slots with unseen packets are those from the first one that was not *)
(* looked at up to, not including, the head.                               *)
LEMMA UnseenBounds ==
  ASSUME TypeOK, TailAhead
  PROVE  /\ Free \in 0 .. N - 1 /\ Seen \in 0 .. 1
         /\ RDT + Seen \in 0 .. N /\ N - 1 - Free - Seen \in 0 .. N - 1
         /\ workPc = "inspect" => Free <= N - 2
<1>1. Free \in 0 .. N - 1
  BY DistanceFacts DEF TypeOK, Free, Slots
<1>2. workPc \in {"inspect", "advance"} => Free <= N - 2
  <2> SUFFICES ASSUME workPc \in {"inspect", "advance"} PROVE Free <= N - 2
    OBVIOUS
  <2>1. Succ(RDT) # RDH
    BY DEF TailAhead
  <2>2. (Succ(RDT) - RDH) % N = Free + 1 /\ (Succ(RDT) - RDH) % N \in Slots
    BY <2>1, FreeFacts, DistanceFacts, SuccFacts DEF TypeOK, Free
  <2> QED BY <1>1, <2>2, RingAssumption DEF Slots
<1> QED BY <1>1, <1>2, RingAssumption DEF TypeOK, Slots, Seen

(* A packet goes behind the packets that wait, into the slot at the head.  *)
LEMMA ReceiveArrives ==
  ASSUME TypeOK, TailAhead, NEW p \in Packet, Receive(p)
  PROVE  Queue!Arrive(p)
<1> DEFINE m == N - 1 - Free - Seen
           i == RDT + Seen
<1>1. /\ i \in 0 .. N /\ m \in 0 .. N - 1
      /\ Free \in 0 .. N - 1 /\ Seen \in 0 .. 1
  BY UnseenBounds
<1>2. Free' = Free - 1 /\ Free # 0
  <2>1. RDH # RDT /\ RDH' = Succ(RDH) /\ RDT' = RDT
    BY DEF Receive
  <2>2. Free' = Free - 1
    BY <2>1, FreeFacts DEF Free, TypeOK
  <2>3. Free # 0
    <3>1. Free = IF RDT >= RDH THEN RDT - RDH ELSE RDT - RDH + N
      BY DistanceFacts DEF Free, TypeOK
    <3> QED BY <2>1, <3>1, RingAssumption DEF TypeOK, Slots
  <2> QED BY <2>2, <2>3
<1>3. Seen' = Seen /\ RDT' = RDT
  BY DEF Receive, workVars, Seen
<1>4. RDH = (i + m + 1) % N
  <2>1. i + m + 1 = RDT + N - Free
    BY <1>1, RingAssumption DEF TypeOK, Slots
  <2>2. Free = IF RDT >= RDH THEN RDT - RDH ELSE RDT - RDH + N
    BY DistanceFacts DEF Free, TypeOK
  <2>3. RDT + N - Free = IF RDT >= RDH THEN RDH + N ELSE RDH
    BY <2>2, RingAssumption DEF TypeOK, Slots
  <2>4. (RDH + N) % N = RDH /\ RDH % N = RDH
    BY RingAssumption DEF TypeOK, Slots
  <2> QED BY <2>1, <2>3, <2>4
<1>5. Unseen' = Slice([rxDE EXCEPT ![(i + m + 1) % N] = p], i, m + 1)
  <2>1. N - 1 - Free' - Seen' = m + 1
    BY <1>1, <1>2, <1>3, RingAssumption DEF Seen
  <2>2. rxDE' = [rxDE EXCEPT ![(i + m + 1) % N] = p]
    BY <1>4 DEF Receive
  <2>3. Unseen' = Slice(rxDE', RDT' + Seen', N - 1 - Free' - Seen')
    BY DEF Unseen, Slice, Seen
  <2> QED BY <1>3, <2>1, <2>2, <2>3
<1>6. Unseen' = Append(Unseen, p)
  <2>1. rxDE \in [Slots -> Packet \cup {NoPacket}] /\ p \in Packet \cup {NoPacket}
    BY DEF TypeOK
  <2> HIDE DEF m, i
  <2>2. Slice([rxDE EXCEPT ![(i + m + 1) % N] = p], i, m + 1)
          = Append(Slice(rxDE, i, m), p)
    BY <1>1, <2>1, SliceAppend
  <2> QED BY <1>5, <2>2, UnseenSlice DEF m, i
<1>7. Len(Unseen) < N - 1
  <2>1. m \in 0 .. N /\ m < N - 1
    BY <1>1, <1>2, RingAssumption DEF Seen
  <2>2. rxDE \in [Slots -> Packet \cup {NoPacket}]
    BY DEF TypeOK
  <2>3. Len(Slice(rxDE, i, m)) = m
    <3> HIDE DEF m, i
    <3> QED BY <1>1, <2>1, <2>2, SliceFacts
  <2> QED BY <2>1, <2>3, UnseenSlice
<1> QED BY <1>6, <1>7 DEF Queue!Arrive, Receive, workVars

(* thread_function looks at the packet that waits longest. *)
LEMMA InspectHandles ==
  ASSUME TypeOK, TailAhead, WorkInspect
  PROVE  Queue!Handle
<1> DEFINE m == N - 1 - Free
<1>1. RDT \in 0 .. N - 1 /\ m \in 1 .. N
  BY UnseenBounds, RingAssumption DEF WorkInspect, TypeOK, Slots
<1>2. Unseen = Slice(rxDE, RDT, m)
  <2>1. Seen = 0 /\ RDT + 0 = RDT /\ m - 0 = m
    BY <1>1 DEF WorkInspect, Seen
  <2> QED BY <2>1, UnseenSlice
<1>3. Unseen' = Slice(rxDE, RDT + 1, m - 1)
  <2>1. Seen' = 1 /\ UNCHANGED <<rxDE, RDT, Free>>
    BY DEF WorkInspect, deviceVars, Seen, Free
  <2>2. Unseen' = Slice(rxDE', RDT' + Seen', N - 1 - Free' - Seen')
    BY DEF Unseen, Slice, Seen
  <2> QED BY <2>1, <2>2
<1>4. workDesc' = rxDE[(RDT + 1) % N]
  BY DEF WorkInspect, TailAhead, Succ
<1>5. rxDE \in [Slots -> Packet \cup {NoPacket}]
  BY DEF TypeOK
<1> HIDE DEF m
<1>6. /\ Slice(rxDE, RDT, m) # <<>>
      /\ Head(Slice(rxDE, RDT, m)) = rxDE[(RDT + 1) % N]
      /\ Tail(Slice(rxDE, RDT, m)) = Slice(rxDE, RDT + 1, m - 1)
  BY <1>1, <1>5, SliceTail
<1> QED BY <1>2, <1>3, <1>4, <1>6 DEF Queue!Handle

(* Handing a descriptor back changes neither. *)
LEMMA AdvanceStutters ==
  ASSUME TypeOK, TailAhead, WorkAdvance
  PROVE  UNCHANGED <<Unseen, workDesc>>
<1>1. RDT' = Succ(RDT) /\ Succ(RDT) # RDH /\ UNCHANGED <<RDH, rxDE, workDesc>>
  BY DEF WorkAdvance, TailAhead, deviceVars
<1>2. Free' = Free + 1
  BY <1>1, FreeFacts DEF TypeOK, Free
<1>3. Seen = 1 /\ Seen' = 0
  BY DEF WorkAdvance, Seen
<1>4. Free \in 0 .. N - 1 /\ N - 1 - Free - 1 \in 0 .. N - 1
  BY <1>3, UnseenBounds
<1>5. N - 1 - Free' - Seen' = N - 1 - Free - Seen
  BY <1>2, <1>3, <1>4, RingAssumption
<1>6. ASSUME NEW k \in 1 .. N
      PROVE  (RDT' + Seen' + k) % N = (RDT + Seen + k) % N
  <2>1. RDT' = IF RDT = N - 1 THEN 0 ELSE RDT + 1
    BY <1>1, SuccFacts DEF TypeOK
  <2>2. RDT \in 0 .. N - 1
    BY DEF TypeOK, Slots
  <2>3. CASE RDT = N - 1
    <3>1. RDT' + Seen' + k = k /\ RDT + Seen + k = k + N
      BY <1>3, <2>1, <2>3, RingAssumption
    <3>2. (k + N) % N = k % N
      BY RingAssumption
    <3> QED BY <3>1, <3>2
  <2>4. CASE RDT # N - 1
    BY <1>3, <2>1, <2>2, <2>4
  <2> QED BY <2>3, <2>4
<1>7. Unseen' = Unseen
  <2> DEFINE m == N - 1 - Free - Seen
  <2>1. Unseen = [k \in 1 .. m |-> rxDE[(RDT + Seen + k) % N]]
    BY DEF Unseen, Seen
  <2>2. Unseen' = [k \in 1 .. m |-> rxDE[(RDT' + Seen' + k) % N]]
    BY <1>1, <1>5 DEF Unseen, Seen
  <2>3. \A k \in 1 .. m : k \in 1 .. N
    BY <1>3, <1>4, RingAssumption
  <2> QED BY <1>6, <2>1, <2>2, <2>3
<1> QED BY <1>1, <1>7

(* Every step of the ring is one of the queue or changes none of it. *)
LEMMA QueueStep ==
  ASSUME TypeOK, TailAhead, [Next]_vars
  PROVE  [Queue!Next]_(Queue!queueVars)
<1>1. ASSUME UNCHANGED <<RDH, RDT, rxDE, workDesc>>, Seen' = Seen
      PROVE  UNCHANGED <<Unseen, workDesc>>
  BY <1>1 DEF Unseen, Free, Seen
<1>2. ASSUME NEW p \in Packet, Receive(p) PROVE Queue!Next
  BY <1>2, ReceiveArrives DEF Queue!Next
<1>3. CASE WorkInspect
  BY <1>3, InspectHandles DEF Queue!Next
<1>4. CASE WorkAdvance
  BY <1>4, AdvanceStutters DEF Queue!queueVars
<1>5. CASE Irq
  <2>1. UNCHANGED <<RDH, RDT, rxDE, workDesc>> /\ Seen' = Seen
    BY <1>5 DEF Irq, IrqNone, IrqEnter, IrqMaskAll, IrqReadLed, IrqLedOn,
                IrqSchedule, IrqAck, IrqUnmask, deviceVars, workVars, Seen
  <2> QED BY <1>1, <2>1 DEF Queue!queueVars
<1>6. CASE WorkStart \/ WorkWake \/ WorkLedOff \/ WorkTest \/ WorkReadLed
           \/ WorkShowTail
  <2>1. UNCHANGED <<RDH, RDT, rxDE, workDesc>> /\ Seen' = Seen
    BY <1>6 DEF WorkStart, WorkWake, WorkLedOff, WorkTest, WorkReadLed,
                WorkShowTail, deviceVars, workVars, Seen
  <2> QED BY <1>1, <2>1 DEF Queue!queueVars
<1>7. CASE UNCHANGED vars
  <2>1. UNCHANGED <<RDH, RDT, rxDE, workDesc>> /\ Seen' = Seen
    BY <1>7 DEF vars, deviceVars, workVars, Seen
  <2> QED BY <1>1, <2>1 DEF Queue!queueVars
<1> QED BY <1>2, <1>3, <1>4, <1>5, <1>6, <1>7 DEF Next, Work

(* Where the device has every descriptor but one nothing waits. *)
LEMMA EmptyRing ==
  ASSUME RDT \in Slots, Free = N - 1, workPc # "advance"
  PROVE  Unseen = <<>>
<1>1. Seen = 0
  BY DEF Seen
<1>2. N \in Nat /\ Free = N - 1
  BY RingAssumption
<1>3. N - 1 - Free - Seen = 0
  BY <1>1, <1>2
<1>4. Unseen = Slice(rxDE, RDT + Seen, 0)
  BY <1>3, UnseenSlice
<1> QED BY <1>4 DEF Slice

(* The receive path implements the first-in first-out queue of RxQueue,    *)
(* for a ring of any size: every packet the device puts into the ring is   *)
(* seen by thread_function (hw6.c:172-184) once, unaltered and in order.   *)
THEOREM Refinement == Spec => RingIsQueue
<1>1. Init => Queue!Init
  <2> SUFFICES ASSUME Init PROVE Queue!Init
    OBVIOUS
  <2>1. Free = N - 1 /\ RDT \in Slots
    BY RingAssumption DEF Init, Free, Slots
  <2> QED BY <2>1, EmptyRing DEF Init, Queue!Init
<1> QED BY <1>1, QueueStep, TypeCorrect, TailAheadInvariant, PTL
        DEF Spec, RingIsQueue, Queue!Spec
=============================================================================
