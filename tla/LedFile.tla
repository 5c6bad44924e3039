------------------------------ MODULE LedFile ------------------------------
(***************************************************************************)
(* HW3: the character device of HW3/hw3.c, through which programs read and *)
(* write the LED control register, and copies of HW3/userSpace.c that run  *)
(* on several CPUs.  The module is loaded and the device probed; a program *)
(* is known by the variable of main its next call sets.                    *)
(*                                                                         *)
(* read and write pass what they move through mydev.led_current_val, which *)
(* all calls share.  As compiled (HW3/hw3.o), read loads the register and  *)
(* stores it in two instructions and copies the shared variable to the     *)
(* user; write stores its value and writes the register with the value it  *)
(* still has at hand.  The test for 2^32 (hw3.c:198) is one no int fails,  *)
(* and the compiler drops it.                                              *)
(***************************************************************************)
EXTENDS Integers

CONSTANTS
  Program,        \* the running copies of userSpace.c
  Default         \* what LEDCTL holds when the device is probed

VARIABLES
  LEDCTL,
  led_initial_val, led_current_val, syscall_val,
  pc,             \* the next call of each program
  at,             \* where in example5_read or example5_write it is
  fd,             \* whether its file is open
  offset,         \* the offset of that file
  reg,            \* what example5_read has loaded from LEDCTL
  v,              \* the variable it reads into
  ret,            \* what its calls have returned
  others          \* history: what the driver did for other programs from
                  \* the write of buffer to the end of the read after it

devVars  == <<led_initial_val, led_current_val, syscall_val>>
fileVars == <<fd, offset>>
userVars == <<v, ret>>
vars == <<LEDCTL, devVars, pc, at, fileVars, reg, userVars, others>>

On  == 128        \* buffer
Off == 0          \* buffer2
Buffer == [wz |-> On, wz2 |-> Off]
SizeofInt == 4
ReadLen == 10     \* what the program asks read for

Reads  == {"rz", "rz2"}
Writes == {"wz", "wz2"}
Calls  == Reads \cup Writes
After  == [open |-> "rz", rz |-> "reopen", reopen |-> "wz", wz |-> "rz2",
           rz2 |-> "wz2", wz2 |-> "end"]

Values == {Default, On, Off}

TypeOK ==
  /\ LEDCTL \in Values
  /\ led_initial_val \in Values /\ led_current_val \in Values
  /\ syscall_val \in {0, 40, On, Off}
  /\ pc \in [Program -> DOMAIN After \cup {"end"}]
  /\ at \in [Program -> {"user", "store", "copy", "writel"}]
  /\ fd \in [Program -> BOOLEAN] /\ offset \in [Program -> {0, ReadLen}]
  /\ reg \in [Program -> Values] /\ v \in [Program -> Values]
  /\ ret \in [Program -> [Calls -> {-1, 0, 2, SizeofInt}]]
  /\ others \in [Program -> SUBSET {"read", "write"}]

Init ==
  /\ LEDCTL = Default /\ led_initial_val = Default
  /\ led_current_val = 0 /\ syscall_val = 0
  /\ pc = [p \in Program |-> "open"] /\ at = [p \in Program |-> "user"]
  /\ fd = [p \in Program |-> FALSE] /\ offset = [p \in Program |-> 0]
  /\ reg = [p \in Program |-> Default] /\ v = [p \in Program |-> 0]
  /\ ret = [p \in Program |-> [c \in Calls |-> IF c = "wz2" THEN 2 ELSE 0]]
  /\ others = [p \in Program |-> {}]

-----------------------------------------------------------------------------
Goto(p, from, to) == at[p] = from /\ at' = [at EXCEPT ![p] = to]

(* The call of p ends and returns n. *)
Return(p, n) ==
  /\ at' = [at EXCEPT ![p] = "user"]
  /\ pc' = [pc EXCEPT ![p] = After[@]]
  /\ ret' = [ret EXCEPT ![p][pc[p]] = n]

(* The driver does something for p, a read or a write. *)
ReadsBackNow(q) == pc[q] = "rz2" \/ (pc[q] = "wz" /\ at[q] = "writel")

Touch(p, kind) ==
  others' = [q \in Program |-> IF q # p /\ ReadsBackNow(q)
                               THEN others[q] \cup {kind} ELSE others[q]]

(* open, at first and after closing the file again.  It fails when the     *)
(* node is missing or its mode does not allow it.                          *)
Open(p) ==
  /\ pc[p] \in {"open", "reopen"}
  /\ pc' = [pc EXCEPT ![p] = After[@]]
  /\ offset' = [offset EXCEPT ![p] = 0]
  /\ \/ fd' = [fd EXCEPT ![p] = TRUE] /\ syscall_val' = 40
     \/ fd' = [fd EXCEPT ![p] = FALSE] /\ UNCHANGED syscall_val
  /\ UNCHANGED <<LEDCTL, led_initial_val, led_current_val, at, reg, userVars,
                 others>>

NoFile(p) ==
  /\ pc[p] \in Calls /\ ~fd[p]
  /\ Return(p, -1)
  /\ UNCHANGED <<LEDCTL, devVars, fileVars, reg, v, others>>

(* Slip: the value saved by the probe is read. *)
ReadBegin_Initial(p) ==
  /\ pc[p] \in Reads /\ at[p] = "user" /\ fd[p]
  /\ Goto(p, "user", "store")
  /\ reg' = [reg EXCEPT ![p] = led_initial_val]
  /\ Touch(p, "read")
  /\ UNCHANGED <<LEDCTL, devVars, fileVars, v, pc, ret>>

(* example5_read: end of file, or the register is loaded... *)
ReadBegin(p) ==
  /\ pc[p] \in Reads /\ at[p] = "user" /\ fd[p]
  /\ IF offset[p] >= SizeofInt
       THEN Return(p, 0) /\ UNCHANGED <<reg, others>>
       ELSE /\ Goto(p, "user", "store")
            /\ reg' = [reg EXCEPT ![p] = LEDCTL]
            /\ Touch(p, "read")
            /\ UNCHANGED <<pc, ret>>
  /\ UNCHANGED <<LEDCTL, devVars, fileVars, v>>

(* ... stored in the variable all calls share ... *)
ReadStore(p) ==
  /\ Goto(p, "store", "copy")
  /\ led_current_val' = reg[p]
  /\ Touch(p, "read")
  /\ UNCHANGED <<LEDCTL, led_initial_val, syscall_val, pc, fileVars, reg,
                 userVars>>

(* ... and copied from there to the user. *)
ReadCopy(p) ==
  /\ at[p] = "copy"
  /\ v' = [v EXCEPT ![p] = led_current_val]
  /\ offset' = [offset EXCEPT ![p] = @ + ReadLen]
  /\ Return(p, SizeofInt)
  /\ Touch(p, "read")
  /\ UNCHANGED <<LEDCTL, devVars, fd, reg>>

(* example5_write: the user's value is stored, and written to LEDCTL. *)
WriteStore(p) ==
  /\ pc[p] \in Writes /\ fd[p]
  /\ Goto(p, "user", "writel")
  /\ led_current_val' = Buffer[pc[p]] /\ syscall_val' = Buffer[pc[p]]
  /\ Touch(p, "write")
  /\ UNCHANGED <<LEDCTL, led_initial_val, pc, fileVars, reg, userVars>>

WriteEnd(p, value) ==
  /\ at[p] = "writel"
  /\ LEDCTL' = value
  /\ Return(p, SizeofInt)
  /\ Touch(p, "write")
  /\ UNCHANGED <<devVars, fd, reg, v>>

(* Slip: bits are set with |=, so that writing 0 turns nothing off. *)
WriteCtl_Or(p) ==
  /\ WriteEnd(p, IF pc[p] = "wz2" THEN LEDCTL ELSE Buffer[pc[p]])
  /\ UNCHANGED offset

(* Slip: write moves the offset, as read does. *)
WriteCtl_Offset(p) ==
  /\ WriteEnd(p, Buffer[pc[p]])
  /\ offset' = [offset EXCEPT ![p] = @ + SizeofInt]

WriteCtl(p) == WriteEnd(p, Buffer[pc[p]]) /\ UNCHANGED offset

Next == \E p \in Program :
  \/ Open(p) \/ NoFile(p)
  \/ ReadBegin(p) \/ ReadStore(p) \/ ReadCopy(p)
  \/ WriteStore(p) \/ WriteCtl(p)

Spec == Init /\ [][Next]_vars

-----------------------------------------------------------------------------
(* "%d is updated led_val" (userSpace.c:45): a program that writes 0x80    *)
(* and reads back gets 0x80, if the driver does nothing for another        *)
(* program from the beginning of the write to the end of the read.         *)
ReadsBack ==
  \A p \in Program : pc[p] = "wz2" /\ fd[p] /\ others[p] = {} => v[p] = On

(* However the copies interleave, each write reaches the register with the *)
(* value of its own program (hw3.c:203), so that the LED is off in the end *)
(* when any of them could write.                                           *)
LedsOff ==
  (\A p \in Program : pc[p] = "end") /\ (\E p \in Program : fd[p])
    => LEDCTL = Off

(* A call on an open file moves an int, never nothing: the read before the *)
(* write has moved the offset (hw3.c:135 and 152) of a file that has been  *)
(* closed, and write does not move it.                                     *)
CallsTransfer ==
  \A p \in Program : pc[p] = "end" =>
    \A c \in Calls : ret[p][c] \in {-1, SizeofInt}
=============================================================================
