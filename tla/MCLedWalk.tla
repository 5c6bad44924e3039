----------------------------- MODULE MCLedWalk -----------------------------
(* Instances of LedWalk for TLC: see the .cfg files and README.md.         *)
EXTENDS LedWalk, TLC

ProgramSymmetry == Permutations(Program)

(* LEDCTL as HW3/hw3Script shows it after a reset: 0x07068302. *)
ResetValue == [k \in Leds |-> <<2, 131, 6, 7>>[k + 1]]
=============================================================================
