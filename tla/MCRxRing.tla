----------------------------- MODULE MCRxRing ------------------------------
(* The instance of RxRing for TLC: see RxRing_wakeup.cfg and README.md.     *)
EXTENDS RxRing
=============================================================================
