------------------------------ MODULE RxStatus ------------------------------
(***************************************************************************)
(* HW6: a program, HW6/user.c, that reads the state of the ring of RxRing  *)
(* through /dev/ECE_LED.  example5_read reads RDH, then RDT, and packs     *)
(* them into one int, which the program unpacks.                           *)
(*                                                                         *)
(* What follows the second readl is local to the call and the program, and *)
(* part of that step; the int is then printed and not kept.  user.c closes *)
(* the file after each read that moves something.                          *)
(***************************************************************************)
EXTENDS RxRing

VARIABLES
  readPc,         \* next step of example5_read
  head,           \* its local head
  overtaken       \* history: the tail has moved on to head since it was read

statusVars == <<vars, readPc, head, overtaken>>

StatusInit == Init /\ readPc = "idle" /\ head = 0 /\ overtaken = FALSE

(* Slip: the head is shifted by one hexadecimal digit, not two. *)
Pack_Digit(h, t) == h * 16 + t

(* head << 8 | tail, neither of which is beyond 8 bits, and what user.c    *)
(* takes out of it again.                                                  *)
Pack(h, t) == h * 256 + t
ShownHead(v) == v \div 256
ShownTail(v) == v % 256

(* How many packets wait for thread_function when the ring has this head   *)
(* and this tail.                                                          *)
Waiting(h, t) == (h - t - 1) % N

-----------------------------------------------------------------------------
(* example5_read. *)

ReadHead ==
  /\ readPc = "idle" /\ readPc' = "tail"
  /\ head' = RDH /\ overtaken' = FALSE
  /\ UNCHANGED vars

ReadTail ==
  /\ readPc = "tail" /\ readPc' = "idle"
  /\ head' = 0 /\ overtaken' = FALSE
  /\ UNCHANGED vars

Ring ==
  /\ Next
  /\ overtaken' = (overtaken \/ (readPc = "tail" /\ RDT' # RDT /\ RDT' = head))
  /\ UNCHANGED <<readPc, head>>

StatusNext == ReadHead \/ ReadTail \/ Ring

StatusSpec == StatusInit /\ [][StatusNext]_statusVars

-----------------------------------------------------------------------------
(* The head and the tail a user sees (hw6.c:422-431, user.c:33-37) need    *)
(* never have been there together, but whenever example5_read comes to the *)
(* second readl they are a lower bound: at least as many packets wait,     *)
(* unless thread_function has handed back all that waited when the head    *)
(* was read, and more.                                                     *)
StatusIsLowerBound ==
  readPc = "tail" /\ ~overtaken =>
    LET v == Pack(head, RDT)
    IN  Waiting(ShownHead(v), ShownTail(v)) <= Waiting(RDH, RDT)
=============================================================================
