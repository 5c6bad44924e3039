------------------------------ MODULE MCLedMon -----------------------------
(* Instances of LedMon for TLC: see the .cfg files and README.md.          *)
EXTENDS LedMon

(* No file, an interface that is up without a carrier (-1), a link of 100  *)
(* and of 1000 Mb/s, and an interface that is down.                        *)
SomeLinks == {NoFile, -1, 100, 1000, Unreadable}
=============================================================================
