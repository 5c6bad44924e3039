---------------------------- MODULE MCRxStatus -----------------------------
(* Instances of RxStatus for TLC: see the .cfg files and README.md.        *)
EXTENDS RxStatus, TLC

(* Packets are only stored and compared; the properties of the run that    *)
(* uses this are all safety properties, for which symmetry is sound.       *)
PacketSymmetry == Permutations(Packet)
=============================================================================
