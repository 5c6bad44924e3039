---------------------------- MODULE MCHw6Module ----------------------------
(* Instances of Hw6Module for TLC: see the .cfg files and README.md.       *)
EXTENDS Hw6Module

(* What tells two states apart where no property is about LEDs: not the    *)
(* LEDs, which decide nothing, nor what nobody reads again before it is    *)
(* written: descriptors that do not wait to be looked at, what was seen in *)
(* the last one, and local variables outside the steps that use them.      *)
SafetyView ==
  <<RDH, RDT, Unseen, ICR, IMS, intx, irqPc, irqPc # "idle" /\ irqMask,
    pending, workPc, IF workPc \in {"inspect", "advance"} THEN workTail ELSE 0,
    overlap, moduleVars>>
=============================================================================
