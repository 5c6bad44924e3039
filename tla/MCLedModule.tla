---------------------------- MODULE MCLedModule ----------------------------
(* Instances of LedModule for TLC: see the .cfg files and README.md.       *)
EXTENDS LedModule, TLC

ProgramSymmetry == Permutations(Program)
=============================================================================
