------------------------------ MODULE CharDev ------------------------------
(***************************************************************************)
(* HW2: the character device of HW2/hw2.c, which keeps one int for all who *)
(* open its node, copies of HW2/part3.c that use it at the same time, and  *)
(* root loading and unloading the module.  Each call of the driver touches *)
(* that int once, so a call is one step.                                   *)
(***************************************************************************)
EXTENDS Integers

CONSTANT Program  \* the running copies of part3.c

VARIABLES
  loaded,         \* the node's device number is the module's
  syscall_val,
  pc,             \* the next call of each program
  fd,             \* whether its file is open
  offset,         \* the offset of that file
  v,              \* the variable it reads into
  ret,            \* what its calls have returned
  others          \* history: what other programs' calls have done since the
                  \* program last opened the node or wrote to it

vars == <<loaded, syscall_val, pc, fd, offset, v, ret, others>>

Opened    == 40   \* what open sets syscall_val to
Written   == 17   \* buffer
SizeofInt == 4
ReadLen   == 10   \* what the program asks read for

Calls == {"rz", "wz", "rz2"}
After == [open |-> "rz", rz |-> "close", close |-> "reopen", reopen |-> "wz",
          wz |-> "rz2", rz2 |-> "exit", exit |-> "end"]

TypeOK ==
  /\ loaded \in BOOLEAN /\ syscall_val \in {0, Opened, Written}
  /\ pc \in [Program -> DOMAIN After \cup {"end"}]
  /\ fd \in [Program -> BOOLEAN] /\ offset \in [Program -> {0, ReadLen}]
  /\ v \in [Program -> {0, Opened, Written}]
  /\ ret \in [Program -> [Calls -> {-1, 0, SizeofInt}]]
  /\ others \in [Program -> SUBSET {"open", "write"}]

Init ==
  /\ loaded = FALSE /\ syscall_val = 0
  /\ pc = [p \in Program |-> "open"]
  /\ fd = [p \in Program |-> FALSE] /\ offset = [p \in Program |-> 0]
  /\ v = [p \in Program |-> 0]
  /\ ret = [p \in Program |-> [c \in Calls |-> 0]]
  /\ others = [p \in Program |-> {}]

-----------------------------------------------------------------------------
(* Root.  A load that fails leaves nothing; the int of a module that is    *)
(* loaded again is 0.  An open file keeps the module from being unloaded.  *)
Insmod ==
  /\ ~loaded /\ loaded' = TRUE
  /\ syscall_val' = 0
  /\ UNCHANGED <<pc, fd, offset, v, ret, others>>

Rmmod ==
  /\ loaded /\ (\A p \in Program : ~fd[p])
  /\ loaded' = FALSE
  /\ UNCHANGED <<syscall_val, pc, fd, offset, v, ret, others>>

-----------------------------------------------------------------------------
(* The programs. *)

Step(p) == pc' = [pc EXCEPT ![p] = After[@]]
Return(p, n) == Step(p) /\ ret' = [ret EXCEPT ![p][pc[p]] = n]

Touch(p, kind) ==
  others' = [q \in Program |-> IF q = p THEN {} ELSE others[q] \cup {kind}]

Open(p) ==
  /\ pc[p] \in {"open", "reopen"} /\ loaded
  /\ Step(p)
  /\ fd' = [fd EXCEPT ![p] = TRUE] /\ offset' = [offset EXCEPT ![p] = 0]
  /\ syscall_val' = Opened
  /\ Touch(p, "open")
  /\ UNCHANGED <<loaded, v, ret>>

(* The module is not there, or the mode of the node forbids it. *)
OpenFails(p) ==
  /\ pc[p] \in {"open", "reopen"}
  /\ Step(p)
  /\ UNCHANGED <<loaded, syscall_val, fd, offset, v, ret, others>>

(* Closing the file, at the end by returning from main. *)
Close(p) ==
  /\ pc[p] \in {"close", "exit"}
  /\ Step(p)
  /\ fd' = [fd EXCEPT ![p] = FALSE]
  /\ UNCHANGED <<loaded, syscall_val, offset, v, ret, others>>

NoFile(p) ==
  /\ pc[p] \in Calls /\ ~fd[p]
  /\ Return(p, -1)
  /\ UNCHANGED <<loaded, syscall_val, fd, offset, v, others>>

(* Slip: what has been read is gone. *)
Read_Consumes(p) ==
  /\ pc[p] \in {"rz", "rz2"} /\ fd[p]
  /\ Return(p, SizeofInt)
  /\ v' = [v EXCEPT ![p] = syscall_val]
  /\ offset' = [offset EXCEPT ![p] = @ + ReadLen]
  /\ syscall_val' = 0
  /\ UNCHANGED <<loaded, fd, others>>

(* example5_read; past the int the file is at its end. *)
Read(p) ==
  /\ pc[p] \in {"rz", "rz2"} /\ fd[p]
  /\ IF offset[p] >= SizeofInt
       THEN Return(p, 0) /\ UNCHANGED <<v, offset>>
       ELSE /\ Return(p, SizeofInt)
            /\ v' = [v EXCEPT ![p] = syscall_val]
            /\ offset' = [offset EXCEPT ![p] = @ + ReadLen]
  /\ UNCHANGED <<loaded, syscall_val, fd, others>>

(* Slip: write moves the offset, as read does. *)
Write_Offset(p) ==
  /\ pc[p] = "wz" /\ fd[p]
  /\ Return(p, SizeofInt)
  /\ syscall_val' = Written
  /\ offset' = [offset EXCEPT ![p] = @ + SizeofInt]
  /\ Touch(p, "write")
  /\ UNCHANGED <<loaded, fd, v>>

(* example5_write. *)
Write(p) ==
  /\ pc[p] = "wz" /\ fd[p]
  /\ Return(p, SizeofInt)
  /\ syscall_val' = Written
  /\ Touch(p, "write")
  /\ UNCHANGED <<loaded, fd, offset, v>>

Next ==
  \/ Insmod \/ Rmmod
  \/ \E p \in Program : \/ Open(p) \/ OpenFails(p) \/ Close(p) \/ NoFile(p)
                        \/ Read(p) \/ Write(p)

Spec == Init /\ [][Next]_vars

-----------------------------------------------------------------------------
(* "%d is starting syscall_val" (part3.c:33) is the 40 open has set        *)
(* (hw2.c:39), whatever other programs open or read, unless one writes     *)
(* between.                                                                *)
StartsAt40 ==
  \A p \in Program : pc[p] = "close" /\ fd[p] /\ "write" \notin others[p] =>
    v[p] = Opened

(* "%d is updated syscall_val" (part3.c:42) is the 17 written before it,   *)
(* whatever other programs read or write, unless one opens the node        *)
(* between.                                                                *)
UpdatedIs17 ==
  \A p \in Program : pc[p] = "exit" /\ fd[p] /\ "open" \notin others[p] =>
    v[p] = Written
=============================================================================
