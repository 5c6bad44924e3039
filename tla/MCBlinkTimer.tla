--------------------------- MODULE MCBlinkTimer ----------------------------
(* Instances of BlinkTimer for TLC: see the .cfg files and README.md.  An  *)
(* int has 256 values and a second 10 msecs: 13 is the first rate whose    *)
(* msecs wrap around, as 2147484 is in the code.                           *)
EXTENDS BlinkTimer

(* A rate that is refused, the least that is not, two ordinary ones, and    *)
(* one whose msecs an int cannot hold.                                     *)
SomeRates == {-1, 0, 2, 5, 13}

(* What root writes to the parameter: nothing refuses a negative rate.  It *)
(* is another than the one write refuses, to tell the two ways apart.      *)
SomeParams == {-2, 0, 2, 5}
=============================================================================
