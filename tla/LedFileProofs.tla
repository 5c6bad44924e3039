--------------------------- MODULE LedFileProofs ---------------------------
(***************************************************************************)
(* What LedFile promises for every number of copies of userSpace.c: its    *)
(* types, and that the copies leave the LED off.                           *)
(***************************************************************************)
EXTENDS LedFile, TLAPS

(* A call inside the driver is one on an open file, and a read that has    *)
(* got past the test for the end of the file.                              *)
AtCall ==
  \A p \in Program :
    /\ at[p] \in {"store", "copy"} =>
         pc[p] \in Reads /\ fd[p] /\ offset[p] = 0
    /\ at[p] = "writel" => pc[p] \in Writes /\ fd[p]

CallInv == TypeOK /\ AtCall

(* The program writes to its open file now or has done so. *)
Writing(p) == fd[p] /\ pc[p] \in {"rz2", "wz2"}
Wrote(p)   == fd[p] /\ pc[p] \in {"rz2", "wz2", "end"}

(* Once a program has written, the LED is off or one that turned it on has *)
(* not turned it off yet.                                                  *)
LastWriteOff ==
  (\E p \in Program : Wrote(p)) =>
    LEDCTL = Off \/ \E p \in Program : Writing(p)

-----------------------------------------------------------------------------
(* The calls of userSpace.c in their order, one by one. *)
LEMMA AfterFacts ==
  /\ DOMAIN After = {"open", "rz", "reopen", "wz", "rz2", "wz2"}
  /\ After["open"] = "rz" /\ After["rz"] = "reopen" /\ After["reopen"] = "wz"
  /\ After["wz"] = "rz2" /\ After["rz2"] = "wz2" /\ After["wz2"] = "end"
BY DEF After

(* A call that returns leaves the types as they are. *)
LEMMA ReturnFacts ==
  ASSUME TypeOK, NEW p \in Program, pc[p] \in Calls,
         NEW n \in {-1, 0, SizeofInt}, Return(p, n)
  PROVE  /\ pc' \in [Program -> DOMAIN After \cup {"end"}]
         /\ at' \in [Program -> {"user", "store", "copy", "writel"}]
         /\ ret' \in [Program -> [Calls -> {-1, 0, 2, SizeofInt}]]
<1>1. pc' \in [Program -> DOMAIN After \cup {"end"}]
  BY AfterFacts DEF TypeOK, Return, Calls, Reads, Writes
<1>2. at' \in [Program -> {"user", "store", "copy", "writel"}]
  BY DEF TypeOK, Return
<1>3. [ret[p] EXCEPT ![pc[p]] = n] \in [Calls -> {-1, 0, 2, SizeofInt}]
  BY DEF TypeOK
<1>4. ret' \in [Program -> [Calls -> {-1, 0, 2, SizeofInt}]]
  BY <1>3 DEF TypeOK, Return
<1> QED BY <1>1, <1>2, <1>4

(* What is noted of other programs' calls keeps its type. *)
LEMMA TouchFacts ==
  ASSUME TypeOK, NEW p \in Program, NEW kind \in {"read", "write"},
         Touch(p, kind)
  PROVE  others' \in [Program -> SUBSET {"read", "write"}]
BY DEF TypeOK, Touch

-----------------------------------------------------------------------------
(* No program has called when the first begins. *)
LEMMA InitCall == Init => CallInv
<1> SUFFICES ASSUME Init PROVE CallInv
  OBVIOUS
<1>1. TypeOK
  BY AfterFacts DEF Init, TypeOK, Values, On, Off, ReadLen, SizeofInt
<1>2. AtCall
  BY DEF Init, AtCall
<1> QED BY <1>1, <1>2 DEF CallInv

(* Every step keeps the types and has a call inside the driver on a file   *)
(* that is open.                                                           *)
LEMMA NextCall == CallInv /\ [Next]_vars => CallInv'
<1> SUFFICES ASSUME CallInv, [Next]_vars PROVE CallInv'
  OBVIOUS
<1> USE DEF CallInv
<1>1. ASSUME NEW p \in Program, Open(p) PROVE CallInv'
  <2>1. TypeOK'
    BY <1>1, AfterFacts DEF Open, TypeOK, userVars
  <2>2. AtCall'
    BY <1>1, AfterFacts DEF Open, TypeOK, AtCall, Reads, Writes
  <2> QED BY <2>1, <2>2
<1>2. ASSUME NEW p \in Program, NoFile(p) PROVE CallInv'
  <2>1. TypeOK'
    BY <1>2, ReturnFacts DEF NoFile, TypeOK, devVars, fileVars
  <2>2. AtCall'
    BY <1>2 DEF NoFile, Return, TypeOK, AtCall, fileVars
  <2> QED BY <2>1, <2>2
<1>3. ASSUME NEW p \in Program, ReadBegin(p) PROVE CallInv'
  <2>1. CASE offset[p] >= SizeofInt
    <3>1. TypeOK'
      BY <1>3, <2>1, ReturnFacts
      DEF ReadBegin, TypeOK, devVars, fileVars, Calls
    <3>2. AtCall'
      BY <1>3, <2>1 DEF ReadBegin, Return, TypeOK, AtCall, fileVars
    <3> QED BY <3>1, <3>2
  <2>2. CASE ~(offset[p] >= SizeofInt)
    <3>1. offset[p] = 0
      BY <2>2 DEF TypeOK, ReadLen, SizeofInt
    <3>2. /\ Goto(p, "user", "store") /\ Touch(p, "read")
          /\ reg' = [reg EXCEPT ![p] = LEDCTL]
          /\ UNCHANGED <<pc, ret, LEDCTL, devVars, fileVars, v>>
      BY <1>3, <2>2 DEF ReadBegin
    <3>3. others' \in [Program -> SUBSET {"read", "write"}]
      BY <3>2, TouchFacts
    <3>4. TypeOK'
      BY <3>2, <3>3 DEF Goto, TypeOK, devVars, fileVars
    <3>5. AtCall'
      BY <1>3, <2>2, <3>1 DEF ReadBegin, Goto, TypeOK, AtCall, fileVars
    <3> QED BY <3>4, <3>5
  <2> QED BY <2>1, <2>2
<1>4. ASSUME NEW p \in Program, ReadStore(p) PROVE CallInv'
  <2>1. TypeOK'
    BY <1>4, TouchFacts DEF ReadStore, Goto, TypeOK, fileVars, userVars
  <2>2. AtCall'
    BY <1>4 DEF ReadStore, Goto, TypeOK, AtCall, fileVars
  <2> QED BY <2>1, <2>2
<1>5. ASSUME NEW p \in Program, ReadCopy(p) PROVE CallInv'
  <2>1. pc[p] \in Calls /\ offset[p] = 0
    BY <1>5 DEF ReadCopy, AtCall, Calls
  <2>2. offset' \in [Program -> {0, ReadLen}]
    BY <1>5, <2>1 DEF ReadCopy, TypeOK, ReadLen
  <2>3. v' \in [Program -> Values]
    BY <1>5 DEF ReadCopy, TypeOK
  <2>4. TypeOK'
    BY <1>5, <2>1, <2>2, <2>3, ReturnFacts, TouchFacts
    DEF ReadCopy, TypeOK, devVars
  <2>5. AtCall'
    BY <1>5 DEF ReadCopy, Return, TypeOK, AtCall
  <2> QED BY <2>4, <2>5
<1>6. ASSUME NEW p \in Program, WriteStore(p) PROVE CallInv'
  <2>1. Buffer[pc[p]] \in {On, Off}
    BY <1>6 DEF WriteStore, Writes, Buffer
  <2>2. TypeOK'
    BY <1>6, <2>1, TouchFacts
    DEF WriteStore, Goto, TypeOK, Values, fileVars, userVars
  <2>3. AtCall'
    BY <1>6 DEF WriteStore, Goto, TypeOK, AtCall, fileVars
  <2> QED BY <2>2, <2>3
<1>7. ASSUME NEW p \in Program, WriteCtl(p) PROVE CallInv'
  <2>1. pc[p] \in Writes /\ pc[p] \in Calls
    BY <1>7 DEF WriteCtl, WriteEnd, AtCall, Calls
  <2>2. Buffer[pc[p]] \in Values
    BY <2>1 DEF Writes, Buffer, Values
  <2>3. TypeOK'
    BY <1>7, <2>1, <2>2, ReturnFacts, TouchFacts
    DEF WriteCtl, WriteEnd, TypeOK, devVars
  <2>4. AtCall'
    BY <1>7 DEF WriteCtl, WriteEnd, Return, TypeOK, AtCall
  <2> QED BY <2>3, <2>4
<1>8. CASE UNCHANGED vars
  BY <1>8 DEF vars, devVars, fileVars, userVars, TypeOK, AtCall
<1> QED BY <1>1, <1>2, <1>3, <1>4, <1>5, <1>6, <1>7, <1>8 DEF Next

(* The variables and the functions on programs keep their types, for every *)
(* number of copies.                                                       *)
THEOREM FileTypeCorrect == Spec => []TypeOK
<1>1. CallInv => TypeOK
  BY DEF CallInv
<1> QED BY InitCall, NextCall, <1>1, PTL DEF Spec

THEOREM CallInvariant == Spec => []CallInv
BY InitCall, NextCall, PTL DEF Spec

-----------------------------------------------------------------------------
(* A step that does not write LEDCTL and takes no program past its first   *)
(* write, nor one that has its file open past its last, keeps              *)
(* LastWriteOff.                                                           *)
LEMMA QuietStep ==
  ASSUME LastWriteOff, UNCHANGED LEDCTL,
         \A q \in Program : Wrote(q)' => Wrote(q),
         \A q \in Program : Writing(q) => Writing(q)'
  PROVE  LastWriteOff'
BY DEF LastWriteOff

(* Every step leaves the LED off or somebody who will turn it off. *)
LEMMA NextLastWrite == CallInv /\ LastWriteOff /\ [Next]_vars => LastWriteOff'
<1> SUFFICES ASSUME CallInv, LastWriteOff, [Next]_vars PROVE LastWriteOff'
  OBVIOUS
<1> USE AfterFacts DEF CallInv, Wrote, Writing
<1>1. ASSUME NEW p \in Program, Open(p) PROVE LastWriteOff'
  BY <1>1, QuietStep DEF Open, TypeOK
<1>2. ASSUME NEW p \in Program, NoFile(p) PROVE LastWriteOff'
  BY <1>2, QuietStep DEF NoFile, Return, TypeOK, fileVars
<1>3. ASSUME NEW p \in Program, ReadBegin(p) PROVE LastWriteOff'
  BY <1>3, QuietStep DEF ReadBegin, Return, Goto, TypeOK, Reads, fileVars
<1>4. ASSUME NEW p \in Program, ReadStore(p) PROVE LastWriteOff'
  BY <1>4, QuietStep DEF ReadStore, fileVars
<1>5. ASSUME NEW p \in Program, ReadCopy(p) PROVE LastWriteOff'
  BY <1>5, QuietStep DEF ReadCopy, Return, TypeOK, AtCall, Reads
<1>6. ASSUME NEW p \in Program, WriteStore(p) PROVE LastWriteOff'
  BY <1>6, QuietStep DEF WriteStore, fileVars
<1>7. ASSUME NEW p \in Program, WriteCtl(p) PROVE LastWriteOff'
  <2>1. pc[p] \in {"wz", "wz2"} /\ fd[p] /\ fd'[p]
    BY <1>7 DEF WriteCtl, WriteEnd, AtCall, Writes
  <2>2. CASE pc[p] = "wz"
    <3>1. Writing(p)'
      BY <1>7, <2>1, <2>2 DEF WriteCtl, WriteEnd, Return, TypeOK
    <3> QED BY <3>1 DEF LastWriteOff
  <2>3. CASE pc[p] = "wz2"
    <3>1. LEDCTL' = Off
      BY <1>7, <2>3 DEF WriteCtl, WriteEnd, Buffer
    <3> QED BY <3>1 DEF LastWriteOff
  <2> QED BY <2>1, <2>2, <2>3
<1>8. CASE UNCHANGED vars
  BY <1>8 DEF vars, fileVars, LastWriteOff
<1> QED BY <1>1, <1>2, <1>3, <1>4, <1>5, <1>6, <1>7, <1>8 DEF Next

(* When all copies have ended and one of them could write, the LED is off, *)
(* however many run and however their calls interleave (hw3.c:162-212).    *)
THEOREM LedsOffInTheEnd == Spec => []LedsOff
<1>1. Init => LastWriteOff
  BY DEF Init, LastWriteOff, Wrote
<1>2. CallInv /\ LastWriteOff => LedsOff
  BY DEF LastWriteOff, LedsOff, Wrote, Writing
<1> QED BY <1>1, <1>2, NextLastWrite, CallInvariant, PTL DEF Spec

-----------------------------------------------------------------------------
(* The calls a program has made when it comes to the next.                 *)
Finished ==
  [open |-> {}, rz |-> {}, reopen |-> {"rz"}, wz |-> {"rz"},
   rz2 |-> {"rz", "wz"}, wz2 |-> {"rz", "wz", "rz2"}, end |-> Calls]

(* Every read finds its file at the beginning, also after a write, and a   *)
(* call that has been made has moved an int or had no file.                *)
TransferInv ==
  \A p \in Program :
    /\ pc[p] \in {"open", "rz", "wz", "rz2"} => offset[p] = 0
    /\ \A c \in Finished[pc[p]] : ret[p][c] \in {-1, SizeofInt}

(* A program that goes on has finished the call it was at. *)
LEMMA FinishedFacts ==
  ASSUME NEW c \in DOMAIN After
  PROVE  Finished[After[c]] = Finished[c] \cup ({c} \cap Calls)
<1>1. /\ Finished["open"] = {} /\ Finished["rz"] = {}
      /\ Finished["reopen"] = {"rz"} /\ Finished["wz"] = {"rz"}
      /\ Finished["rz2"] = {"rz", "wz"}
      /\ Finished["wz2"] = {"rz", "wz", "rz2"}
      /\ Finished["end"] = {"rz", "wz", "rz2", "wz2"}
  BY DEF Finished, Calls, Reads, Writes
<1>2. /\ {"open"} \cap Calls = {} /\ {"reopen"} \cap Calls = {}
      /\ \A d \in Calls : {d} \cap Calls = {d}
  BY DEF Calls, Reads, Writes
<1>3. Calls = {"rz", "wz", "rz2", "wz2"}
  BY DEF Calls, Reads, Writes
<1>4. CASE c \in {"open", "rz", "reopen"}
  BY <1>1, <1>2, <1>3, <1>4, AfterFacts
<1>5. CASE c \in {"wz", "rz2", "wz2"}
  BY <1>1, <1>2, <1>3, <1>5, AfterFacts
<1> QED BY <1>4, <1>5, AfterFacts

(* A call that returns an int or -1 keeps TransferInv.                     *)
LEMMA ReturnTransfers ==
  ASSUME CallInv, TransferInv, NEW p \in Program, pc[p] \in Calls,
         NEW n \in {-1, SizeofInt}, Return(p, n),
         offset' = offset \/ (pc[p] \in Reads /\ offset' = [offset EXCEPT ![p] = @ + ReadLen]),
         pc[p] = "wz" => offset' = offset
  PROVE  TransferInv'
<1> USE DEF CallInv, TypeOK
<1>1. pc[p] \in DOMAIN After /\ pc'[p] = After[pc[p]]
  BY AfterFacts DEF Return, Calls, Reads, Writes
<1>2. \A q \in Program : q # p => UNCHANGED <<pc[q], ret[q], offset[q]>>
  BY DEF Return
<1>3. pc'[p] \in {"open", "rz", "wz", "rz2"} => offset'[p] = 0
  BY <1>1, AfterFacts DEF TransferInv, Calls, Reads, Writes
<1>4. \A c \in Calls : ret'[p][c] = IF c = pc[p] THEN n ELSE ret[p][c]
  BY DEF Return
<1>5. ASSUME NEW c \in Finished[pc'[p]] PROVE ret'[p][c] \in {-1, SizeofInt}
  <2>1. c \in Finished[pc[p]] \/ c = pc[p]
    BY <1>1, <1>5, FinishedFacts
  <2>2. c \in Calls
    BY <2>1, AfterFacts DEF Finished, Calls, Reads, Writes
  <2> QED BY <1>4, <2>1, <2>2 DEF TransferInv
<1> QED BY <1>2, <1>3, <1>5 DEF TransferInv

(* Every call transfers an int, if its file could be opened. *)
LEMMA NextTransfer == CallInv /\ TransferInv /\ [Next]_vars => TransferInv'
<1> SUFFICES ASSUME CallInv, TransferInv, [Next]_vars PROVE TransferInv'
  OBVIOUS
<1> USE DEF CallInv
<1>1. ASSUME NEW p \in Program, Open(p) PROVE TransferInv'
  <2>1. pc'[p] = After[pc[p]] /\ offset'[p] = 0 /\ ret' = ret
    BY <1>1 DEF Open, TypeOK, userVars
  <2>2. Finished[pc'[p]] = Finished[pc[p]]
    BY <1>1, <2>1, AfterFacts, FinishedFacts DEF Open, Calls, Reads, Writes
  <2>3. \A q \in Program : q # p => UNCHANGED <<pc[q], offset[q]>>
    BY <1>1 DEF Open, TypeOK
  <2> QED BY <2>1, <2>2, <2>3 DEF TransferInv
<1>2. ASSUME NEW p \in Program, NoFile(p) PROVE TransferInv'
  BY <1>2, ReturnTransfers DEF NoFile, fileVars
<1>3. ASSUME NEW p \in Program, ReadBegin(p) PROVE TransferInv'
  <2>1. CASE offset[p] >= SizeofInt
    <3>1. pc[p] \in {"rz", "rz2"} /\ offset[p] = 0
      BY <1>3 DEF ReadBegin, Reads, TransferInv
    <3> QED BY <2>1, <3>1 DEF SizeofInt
  <2>2. CASE ~(offset[p] >= SizeofInt)
    BY <1>3, <2>2 DEF ReadBegin, TransferInv, fileVars
  <2> QED BY <2>1, <2>2
<1>4. ASSUME NEW p \in Program, ReadStore(p) \/ WriteStore(p)
      PROVE  TransferInv'
  BY <1>4 DEF ReadStore, WriteStore, TransferInv, fileVars, userVars
<1>5. ASSUME NEW p \in Program, ReadCopy(p) PROVE TransferInv'
  <2>1. pc[p] \in Reads /\ pc[p] \in Calls /\ pc[p] # "wz"
    BY <1>5 DEF ReadCopy, AtCall, Calls, Reads
  <2> QED BY <1>5, <2>1, ReturnTransfers DEF ReadCopy
<1>6. ASSUME NEW p \in Program, WriteCtl(p) PROVE TransferInv'
  <2>1. pc[p] \in Calls
    BY <1>6 DEF WriteCtl, WriteEnd, AtCall, Calls
  <2> QED BY <1>6, <2>1, ReturnTransfers DEF WriteCtl, WriteEnd
<1>7. CASE UNCHANGED vars
  BY <1>7 DEF vars, fileVars, userVars, TransferInv
<1> QED BY <1>1, <1>2, <1>3, <1>4, <1>5, <1>6, <1>7 DEF Next

(* Nothing has been called at first. *)
LEMMA InitTransfer == Init => TransferInv
<1>1. Finished["open"] = {}
  BY DEF Finished
<1>2. Init => \A p \in Program : pc[p] = "open" /\ offset[p] = 0
  BY DEF Init
<1> QED BY <1>1, <1>2 DEF TransferInv

(* A program that is at its end has finished all its calls. *)
LEMMA TransferEnd == TransferInv => CallsTransfer
BY DEF TransferInv, CallsTransfer, Finished

(* A call on an open file moves an int, never nothing, however the calls   *)
(* of the copies interleave (hw3.c:127-160 and 162-212).                   *)
THEOREM CallsAlwaysTransfer == Spec => []CallsTransfer
BY InitTransfer, NextTransfer, TransferEnd, CallInvariant, PTL DEF Spec

-----------------------------------------------------------------------------
(* The value p has written, on its way back to it as long as the driver    *)
(* does nothing for others: in the register, in what example5_read has     *)
(* loaded, in the variable all calls share, and in v.                      *)
ReadingBack(p) ==
  fd[p] /\ others[p] = {} =>
    /\ pc[p] = "rz2" /\ at[p] = "user" => LEDCTL = On
    /\ pc[p] = "rz2" /\ at[p] = "store" => reg[p] = On
    /\ pc[p] = "rz2" /\ at[p] = "copy" => led_current_val = On
    /\ pc[p] = "wz2" => v[p] = On

(* A step of another program leaves p alone, and what it does to the       *)
(* register or to the shared variable is recorded in others.               *)
LEMMA OthersAlone ==
  ASSUME CallInv, NEW p \in Program, NEW q \in Program, q # p,
         \/ Open(q) \/ NoFile(q) \/ ReadBegin(q) \/ ReadStore(q)
         \/ ReadCopy(q) \/ WriteStore(q) \/ WriteCtl(q)
  PROVE  /\ UNCHANGED <<pc[p], at[p], fd[p], reg[p], v[p]>>
         /\ others'[p] = {} => others[p] = {}
         /\ \/ UNCHANGED <<LEDCTL, led_current_val, others>>
            \/ pc[p] = "rz2" => others'[p] # {}
<1> USE DEF CallInv, TypeOK
<1>1. UNCHANGED <<pc[p], at[p], fd[p], reg[p], v[p]>>
  <2>1. CASE Open(q) \/ NoFile(q) \/ ReadBegin(q)
    BY <2>1 DEF Open, NoFile, ReadBegin, Goto, Return, fileVars, userVars
  <2>2. CASE ReadStore(q) \/ ReadCopy(q)
    BY <2>2 DEF ReadStore, ReadCopy, Goto, Return, fileVars, userVars
  <2>3. CASE WriteStore(q) \/ WriteCtl(q)
    BY <2>3 DEF WriteStore, WriteCtl, WriteEnd, Goto, Return, fileVars, userVars
  <2> QED BY <2>1, <2>2, <2>3
<1>2. \/ UNCHANGED <<LEDCTL, led_current_val, others>>
      \/ \E kind \in {"read", "write"} : Touch(q, kind)
  BY DEF Open, NoFile, ReadBegin, ReadStore, ReadCopy, WriteStore, WriteCtl,
         WriteEnd, devVars
<1>3. ASSUME NEW kind \in {"read", "write"}, Touch(q, kind)
      PROVE  /\ pc[p] = "rz2" => others'[p] # {}
             /\ others'[p] = {} => others[p] = {}
  BY <1>3 DEF Touch, ReadsBackNow
<1> QED BY <1>1, <1>2, <1>3

(* A call of another program that touches the LED ends the claim about p,  *)
(* any other leaves its value alone.                                       *)
LEMMA OthersReadBack ==
  ASSUME CallInv, NEW p \in Program, NEW q \in Program, q # p,
         \/ Open(q) \/ NoFile(q) \/ ReadBegin(q) \/ ReadStore(q)
         \/ ReadCopy(q) \/ WriteStore(q) \/ WriteCtl(q),
         ReadingBack(p)
  PROVE  ReadingBack(p)'
BY OthersAlone DEF ReadingBack

(* The calls of p itself carry its value from one place to the next. *)
LEMMA OwnReadBack ==
  ASSUME CallInv, TransferInv, NEW p \in Program,
         \/ Open(p) \/ NoFile(p) \/ ReadBegin(p) \/ ReadStore(p)
         \/ ReadCopy(p) \/ WriteStore(p) \/ WriteCtl(p),
         ReadingBack(p)
  PROVE  ReadingBack(p)'
<1> USE AfterFacts DEF CallInv, TypeOK
<1>1. CASE Open(p)
  BY <1>1 DEF Open, ReadingBack
<1>2. CASE NoFile(p)
  BY <1>2 DEF NoFile, ReadingBack, fileVars
<1>3. CASE ReadBegin(p)
  <2>1. pc[p] \in {"rz", "rz2"} /\ offset[p] = 0 /\ at[p] = "user"
    BY <1>3 DEF ReadBegin, Reads, TransferInv
  <2>2. /\ at'[p] = "store" /\ reg'[p] = LEDCTL
        /\ UNCHANGED <<pc, fd>> /\ others'[p] = others[p]
    <3>1. ~(offset[p] >= SizeofInt)
      BY <2>1 DEF SizeofInt
    <3>2. /\ Goto(p, "user", "store") /\ Touch(p, "read")
          /\ reg' = [reg EXCEPT ![p] = LEDCTL] /\ UNCHANGED <<pc, fileVars>>
      BY <1>3, <3>1 DEF ReadBegin
    <3> QED BY <3>2 DEF Goto, Touch, fileVars
  <2> QED BY <2>1, <2>2 DEF ReadingBack
<1>4. CASE ReadStore(p)
  BY <1>4 DEF ReadStore, Goto, Touch, ReadingBack, fileVars, userVars
<1>5. CASE ReadCopy(p)
  BY <1>5 DEF ReadCopy, Return, Touch, AtCall, Reads, ReadingBack
<1>6. CASE WriteStore(p)
  BY <1>6 DEF WriteStore, Goto, Touch, Writes, ReadingBack, fileVars, userVars
<1>7. CASE WriteCtl(p)
  <2>1. pc[p] \in {"wz", "wz2"}
    BY <1>7 DEF WriteCtl, WriteEnd, AtCall, Writes
  <2>2. pc[p] = "wz" => LEDCTL' = On
    BY <1>7 DEF WriteCtl, WriteEnd, Buffer
  <2>3. pc'[p] = After[pc[p]] /\ at'[p] = "user"
    BY <1>7 DEF WriteCtl, WriteEnd, Return
  <2> QED BY <2>1, <2>2, <2>3 DEF ReadingBack
<1> QED BY <1>1, <1>2, <1>3, <1>4, <1>5, <1>6, <1>7

(* A program reads back what it has written, if the driver does nothing    *)
(* for another from the one to the other, however many there are           *)
(* (hw3.c:143-148 and 180-203).                                            *)
THEOREM AlwaysReadsBack == Spec => []ReadsBack
<1> DEFINE Back == \A p \in Program : ReadingBack(p)
<1>1. Init => Back
  BY DEF Init, ReadingBack
<1>2. CallInv /\ TransferInv /\ Back /\ [Next]_vars => Back'
  <2> SUFFICES ASSUME CallInv, TransferInv, Back, [Next]_vars PROVE Back'
    OBVIOUS
  <2>1. CASE Next
    BY <2>1, OwnReadBack, OthersReadBack DEF Next
  <2>2. CASE UNCHANGED vars
    BY <2>2 DEF vars, devVars, fileVars, userVars, ReadingBack
  <2> QED BY <2>1, <2>2
<1>3. Back => ReadsBack
  BY DEF ReadingBack, ReadsBack
<1> HIDE DEF Back
<1> QED BY <1>1, <1>2, <1>3, InitTransfer, NextTransfer, CallInvariant, PTL
    DEF Spec
=============================================================================
