--------------------------- MODULE RxStatusProofs ---------------------------
(***************************************************************************)
(* Proofs about RxStatus, for a ring of up to 256 descriptors where the    *)
(* packing of head and tail matters and of any size elsewhere.             *)
(***************************************************************************)
EXTENDS RxStatus, RxRingProofs

(* What a reader has seen of the head is a slot, and at most as far ahead  *)
(* of the tail as the head is now.                                         *)
ReaderInv ==
  /\ head \in Slots
  /\ readPc = "tail" /\ ~overtaken => Waiting(head, RDT) <= Waiting(RDH, RDT)

(* The reader only looks: it takes no step of the receive path. *)
LEMMA StatusIsRing == StatusSpec => Spec
<1>1. StatusInit => Init
  BY DEF StatusInit
<1>2. [StatusNext]_statusVars => [Next]_vars
  BY DEF StatusNext, statusVars, ReadHead, ReadTail, Ring
<1> QED BY <1>1, <1>2, PTL DEF StatusSpec, Spec

(* What RxRingProofs shows of the receive path holds beside programs that  *)
(* read its state (hw6.c:404-447): types, the descriptor that is worked on *)
(* (hw6.c:172-184), and the queue.                                         *)
THEOREM RingBesideReader ==
  StatusSpec => []TypeOK /\ []WorkerOwnsDescriptor /\ RingIsQueue
BY StatusIsRing, TypeCorrect, WorkerOwns, Refinement

(* The distance of two slots, case by case. *)
LEMMA WaitingFacts ==
  ASSUME NEW h \in Slots, NEW t \in Slots
  PROVE  /\ Waiting(h, t) = IF h > t THEN h - t - 1 ELSE h - t - 1 + N
         /\ Waiting(h, t) \in Slots
BY RingAssumption DEF Slots, Waiting

(* A packet makes one more wait, a descriptor handed back one less.        *)
LEMMA WaitingSteps ==
  ASSUME NEW h \in Slots, NEW t \in Slots
  PROVE  /\ h # t => Waiting(Succ(h), t) = Waiting(h, t) + 1
         /\ h # Succ(t) => Waiting(h, Succ(t)) = Waiting(h, t) - 1
<1>1. /\ Succ(h) = (IF h = N - 1 THEN 0 ELSE h + 1) /\ Succ(h) \in Slots
      /\ Succ(t) = (IF t = N - 1 THEN 0 ELSE t + 1) /\ Succ(t) \in Slots
  BY SuccFacts
<1>2. Waiting(h, t) = IF h > t THEN h - t - 1 ELSE h - t - 1 + N
  BY WaitingFacts
<1>3. Waiting(Succ(h), t) = IF Succ(h) > t THEN Succ(h) - t - 1
                            ELSE Succ(h) - t - 1 + N
  BY <1>1, WaitingFacts
<1>4. Waiting(h, Succ(t)) = IF h > Succ(t) THEN h - Succ(t) - 1
                            ELSE h - Succ(t) - 1 + N
  BY <1>1, WaitingFacts
<1> QED BY <1>1, <1>2, <1>3, <1>4, RingAssumption DEF Slots

(* What user.c takes out of the int is what example5_read put in           *)
(* (hw6.c:431, user.c:33-37), for indices of 8 bits.                       *)
LEMMA Unpacks ==
  ASSUME N <= 256, NEW h \in Slots, NEW t \in Slots
  PROVE  ShownHead(Pack(h, t)) = h /\ ShownTail(Pack(h, t)) = t
<1>1. h \in Nat /\ t \in 0 .. 255
  BY RingAssumption DEF Slots
<1> QED BY <1>1 DEF ShownHead, ShownTail, Pack

(* Packets that come in, and descriptors handed back, keep the head that   *)
(* was read no further ahead of the tail than the head is now, unless the  *)
(* tail passes it.                                                         *)
LEMMA ReaderStep ==
  TypeOK /\ TailAhead /\ ReaderInv /\ [StatusNext]_statusVars => ReaderInv'
<1> SUFFICES ASSUME TypeOK, TailAhead, ReaderInv, [StatusNext]_statusVars
             PROVE  ReaderInv'
  OBVIOUS
<1> RDH \in Slots /\ RDT \in Slots /\ head \in Slots
  BY DEF TypeOK, ReaderInv
<1>1. CASE ReadHead
  <2>1. UNCHANGED <<RDH, RDT>> /\ head' = RDH
    BY <1>1 DEF ReadHead, vars, deviceVars
  <2>2. Waiting(head', RDT') <= Waiting(RDH', RDT')
    BY <2>1, WaitingFacts, RingAssumption DEF Slots
  <2> QED BY <2>1, <2>2 DEF ReaderInv, Waiting
<1>2. CASE ReadTail
  BY <1>2, RingAssumption DEF ReadTail, ReaderInv, Slots
<1>3. CASE Ring
  <2> DEFINE Fresh == readPc = "tail" /\ ~overtaken'
  <2>1. UNCHANGED <<readPc, head>> /\ (Fresh => ~overtaken)
    BY <1>3 DEF Ring
  <2>2. /\ Waiting(head, RDT) \in Nat /\ Waiting(RDH, RDT) \in Nat
        /\ Fresh => Waiting(head, RDT) <= Waiting(RDH, RDT)
    BY <2>1, WaitingFacts DEF ReaderInv, Slots
  <2>3. Fresh => Waiting(head, RDT') <= Waiting(RDH', RDT')
    <3>1. ASSUME NEW p \in Packet, Receive(p)
          PROVE  Fresh => Waiting(head, RDT') <= Waiting(RDH', RDT')
      <4>1. RDT' = RDT /\ Waiting(RDH', RDT) = Waiting(RDH, RDT) + 1
        BY <3>1, WaitingSteps DEF Receive
      <4> QED BY <2>2, <4>1
    <3>2. CASE WorkAdvance
      <4>1. RDT' = Succ(RDT) /\ RDT' # RDT /\ RDH' = RDH /\ RDH # Succ(RDT)
        <5>1. RDT' = Succ(RDT) /\ RDH' = RDH /\ RDH # Succ(RDT)
          BY <3>2 DEF WorkAdvance, TailAhead, deviceVars
        <5>2. Succ(RDT) = IF RDT = N - 1 THEN 0 ELSE RDT + 1
          BY SuccFacts
        <5> QED BY <5>1, <5>2, RingAssumption DEF Slots
      <4>2. Fresh => head # Succ(RDT)
        BY <1>3, <4>1 DEF Ring
      <4>3. Waiting(RDH', RDT') = Waiting(RDH, RDT) - 1
        BY <4>1, WaitingSteps
      <4>4. Fresh => Waiting(head, RDT') = Waiting(head, RDT) - 1
        BY <4>1, <4>2, WaitingSteps
      <4> QED BY <2>2, <4>3, <4>4
    <3>3. CASE \/ Irq \/ WorkStart \/ WorkWake \/ WorkLedOff \/ WorkTest
               \/ WorkInspect \/ WorkReadLed \/ WorkShowTail
      <4>1. UNCHANGED <<RDH, RDT>>
        BY <3>3 DEF Irq, IrqNone, IrqEnter, IrqMaskAll, IrqReadLed, IrqLedOn,
                    IrqSchedule, IrqAck, IrqUnmask, WorkStart, WorkWake,
                    WorkLedOff, WorkTest, WorkInspect, WorkReadLed,
                    WorkShowTail, deviceVars
      <4> QED BY <2>2, <4>1
    <3> QED BY <1>3, <3>1, <3>2, <3>3 DEF Ring, Next, Work
  <2> QED BY <2>1, <2>3 DEF ReaderInv, Waiting
<1>4. CASE UNCHANGED statusVars
  BY <1>4 DEF statusVars, vars, deviceVars, ReaderInv, Waiting
<1> QED BY <1>1, <1>2, <1>3, <1>4 DEF StatusNext

(* The head and the tail user.c shows were perhaps never there together    *)
(* (hw6.c:422-431, user.c:33-37), but at least as many packets wait as     *)
(* they say, unless the tail has overtaken the head that was read; for     *)
(* every ring whose indices fit the 8 bits they are packed into.           *)
THEOREM StatusLowerBound ==
  ASSUME N <= 256 PROVE StatusSpec => []StatusIsLowerBound
<1>1. StatusInit => ReaderInv
  BY RingAssumption DEF StatusInit, ReaderInv, Slots
<1>2. TypeOK /\ ReaderInv => StatusIsLowerBound
  <2> SUFFICES ASSUME TypeOK, ReaderInv, readPc = "tail", ~overtaken
               PROVE  LET v == Pack(head, RDT)
                      IN  Waiting(ShownHead(v), ShownTail(v)) <= Waiting(RDH, RDT)
    BY DEF StatusIsLowerBound
  <2>1. /\ ShownHead(Pack(head, RDT)) = head
        /\ ShownTail(Pack(head, RDT)) = RDT
    BY Unpacks DEF TypeOK, ReaderInv
  <2> QED BY <2>1 DEF ReaderInv
<1> QED BY <1>1, <1>2, ReaderStep, StatusIsRing, TypeCorrect,
           TailAheadInvariant, PTL DEF StatusSpec
=============================================================================
