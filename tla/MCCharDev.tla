----------------------------- MODULE MCCharDev -----------------------------
(* Instances of CharDev for TLC: see the .cfg file and README.md.          *)
EXTENDS CharDev, TLC

ProgramSymmetry == Permutations(Program)
=============================================================================
