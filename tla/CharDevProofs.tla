---------------------------- MODULE CharDevProofs ----------------------------
(***************************************************************************)
(* Proofs about CharDev, for any number of copies of part3.c.              *)
(***************************************************************************)
EXTENDS CharDev, TLAPS

(* An open file keeps the module and its int. *)
LoadedInv == \A p \in Program : fd[p] => loaded

(* Between the opening and the first read, and from there to the end of    *)
(* the first half, the int and then v hold 40 until somebody writes; in    *)
(* the second half they hold 17 after the write until somebody opens.      *)
Half(p) ==
  /\ pc[p] \in {"open", "reopen"} => ~fd[p]
  /\ pc[p] \in {"rz", "wz", "rz2"} /\ fd[p] => offset[p] = 0
  /\ fd[p] /\ "write" \notin others[p] =>
       /\ pc[p] = "rz" => syscall_val = Opened
       /\ pc[p] = "close" => v[p] = Opened
  /\ fd[p] /\ "open" \notin others[p] =>
       /\ pc[p] = "rz2" => syscall_val = Written
       /\ pc[p] = "exit" => v[p] = Written

CharInv == TypeOK /\ LoadedInv /\ \A p \in Program : Half(p)

-----------------------------------------------------------------------------
(* The calls of part3.c in their order, one by one. *)
LEMMA AfterFacts ==
  /\ DOMAIN After = {"open", "rz", "close", "reopen", "wz", "rz2", "exit"}
  /\ After["open"] = "rz" /\ After["rz"] = "close" /\ After["close"] = "reopen"
  /\ After["reopen"] = "wz" /\ After["wz"] = "rz2" /\ After["rz2"] = "exit"
  /\ After["exit"] = "end"
BY DEF After

(* Before the first insmod and the first call the invariant holds. *)
LEMMA CharInit == Init => CharInv
<1> SUFFICES ASSUME Init PROVE CharInv
  OBVIOUS
<1>1. TypeOK
  <2>1. pc \in [Program -> DOMAIN After \cup {"end"}]
    BY AfterFacts DEF Init
  <2>2. ret \in [Program -> [Calls -> {-1, 0, SizeofInt}]]
    BY DEF Init
  <2>3. others \in [Program -> SUBSET {"open", "write"}]
    BY DEF Init
  <2> QED BY <2>1, <2>2, <2>3 DEF Init, TypeOK
<1>2. LoadedInv /\ \A p \in Program : Half(p)
  BY DEF Init, LoadedInv, Half
<1> QED BY <1>1, <1>2 DEF CharInv

(* A program goes from one call to the next, and only it does. *)
LEMMA StepFacts ==
  ASSUME TypeOK, NEW p \in Program, pc[p] # "end", Step(p)
  PROVE  /\ pc' \in [Program -> DOMAIN After \cup {"end"}]
         /\ pc'[p] = After[pc[p]]
         /\ \A q \in Program : q # p => pc'[q] = pc[q]
<1>1. After[pc[p]] \in DOMAIN After \cup {"end"}
  BY AfterFacts DEF TypeOK
<1>2. pc \in [Program -> DOMAIN After \cup {"end"}]
  BY DEF TypeOK
<1> HIDE DEF After
<1> QED BY <1>1, <1>2 DEF Step

(* No call, and neither insmod nor rmmod, takes a variable out of its      *)
(* type.                                                                   *)
LEMMA CharTypeStep == TypeOK /\ [Next]_vars => TypeOK'
<1> SUFFICES ASSUME TypeOK, [Next]_vars PROVE TypeOK'
  OBVIOUS
<1> USE DEF TypeOK
<1>1. ASSUME NEW p \in Program, NEW n \in {-1, 0, SizeofInt}, Return(p, n),
             pc[p] \in Calls
      PROVE  /\ pc' \in [Program -> DOMAIN After \cup {"end"}]
             /\ ret' \in [Program -> [Calls -> {-1, 0, SizeofInt}]]
  <2>1. pc' \in [Program -> DOMAIN After \cup {"end"}]
    BY <1>1, StepFacts DEF Return, Calls
  <2>2. ret' \in [Program -> [Calls -> {-1, 0, SizeofInt}]]
    BY <1>1 DEF Return
  <2> QED BY <2>1, <2>2
<1>2. ASSUME NEW p \in Program, NEW kind \in {"open", "write"}, Touch(p, kind)
      PROVE  others' \in [Program -> SUBSET {"open", "write"}]
  BY <1>2 DEF Touch
<1>3. CASE Insmod \/ Rmmod
  BY <1>3 DEF Insmod, Rmmod
<1>4. ASSUME NEW p \in Program, Open(p) PROVE TypeOK'
  <2>1. pc' \in [Program -> DOMAIN After \cup {"end"}]
    BY <1>4, StepFacts DEF Open
  <2>2. others' \in [Program -> SUBSET {"open", "write"}]
    BY <1>2, <1>4 DEF Open
  <2> QED BY <1>4, <2>1, <2>2 DEF Open
<1>5. ASSUME NEW p \in Program, OpenFails(p) \/ Close(p) PROVE TypeOK'
  <2>1. pc' \in [Program -> DOMAIN After \cup {"end"}]
    BY <1>5, StepFacts DEF OpenFails, Close
  <2> QED BY <1>5, <2>1 DEF OpenFails, Close
<1>6. ASSUME NEW p \in Program, NoFile(p) PROVE TypeOK'
  BY <1>1, <1>6 DEF NoFile
<1>7. ASSUME NEW p \in Program, Read(p) PROVE TypeOK'
  <2>1. /\ pc' \in [Program -> DOMAIN After \cup {"end"}]
        /\ ret' \in [Program -> [Calls -> {-1, 0, SizeofInt}]]
    BY <1>1, <1>7 DEF Read, Calls
  <2>2. v' \in [Program -> {0, Opened, Written}]
    BY <1>7 DEF Read
  <2>3. offset' \in [Program -> {0, ReadLen}]
    BY <1>7 DEF Read, ReadLen, SizeofInt
  <2> QED BY <1>7, <2>1, <2>2, <2>3 DEF Read
<1>8. ASSUME NEW p \in Program, Write(p) PROVE TypeOK'
  <2>1. /\ pc' \in [Program -> DOMAIN After \cup {"end"}]
        /\ ret' \in [Program -> [Calls -> {-1, 0, SizeofInt}]]
    BY <1>1, <1>8 DEF Write, Calls
  <2>2. others' \in [Program -> SUBSET {"open", "write"}]
    BY <1>2, <1>8 DEF Write
  <2> QED BY <1>8, <2>1, <2>2 DEF Write
<1>9. CASE UNCHANGED vars
  BY <1>9 DEF vars
<1> QED BY <1>3, <1>4, <1>5, <1>6, <1>7, <1>8, <1>9 DEF Next

-----------------------------------------------------------------------------
(* Root cannot take the int from a program that has the node open.         *)
LEMMA RootKeeps ==
  ASSUME CharInv, Insmod \/ Rmmod \/ UNCHANGED vars
  PROVE  LoadedInv' /\ \A p \in Program : Half(p)'
<1>1. \A p \in Program : fd[p] => UNCHANGED <<loaded, syscall_val>>
  BY DEF Insmod, Rmmod, vars, CharInv, LoadedInv
<1>2. UNCHANGED <<pc, fd, offset, v, others>>
  BY DEF Insmod, Rmmod, vars
<1> QED BY <1>1, <1>2 DEF CharInv, LoadedInv, Half

(* A call of p, for p itself. *)
LEMMA OwnCall ==
  ASSUME CharInv, NEW p \in Program,
         Open(p) \/ OpenFails(p) \/ Close(p) \/ NoFile(p) \/ Read(p) \/ Write(p)
  PROVE  Half(p)' /\ (fd'[p] => loaded')
<1>1. TypeOK /\ LoadedInv /\ Half(p)
  BY DEF CharInv
<1>2. pc[p] # "end" /\ Step(p)
  BY DEF Open, OpenFails, Close, NoFile, Read, Write, Return, Calls
<1>3. pc'[p] = After[pc[p]]
  BY <1>1, <1>2, StepFacts
<1>4. CASE Open(p)
  <2>1. pc'[p] \in {"rz", "wz"} /\ offset'[p] = 0 /\ syscall_val' = Opened
        /\ loaded'
    BY <1>1, <1>3, <1>4, AfterFacts DEF Open, TypeOK
  <2> QED BY <2>1 DEF Half
<1>5. CASE OpenFails(p)
  <2>1. fd'[p] = fd[p] /\ loaded' = loaded /\ pc[p] \in {"open", "reopen"}
    BY <1>5 DEF OpenFails
  <2>2. ~fd[p] /\ pc'[p] \notin {"open", "reopen"}
    BY <1>1, <1>3, <2>1, AfterFacts DEF Half
  <2> QED BY <2>1, <2>2 DEF Half
<1>6. CASE Close(p) \/ NoFile(p)
  <2>1. ~fd'[p]
    BY <1>1, <1>6 DEF Close, NoFile, TypeOK
  <2> QED BY <2>1 DEF Half
<1>7. CASE Read(p)
  <2>1. offset[p] = 0
    BY <1>1, <1>7 DEF Read, Half
  <2>2. v'[p] = syscall_val
    BY <1>1, <1>7, <2>1 DEF Read, TypeOK, SizeofInt
  <2>3. fd'[p] = fd[p] /\ loaded' = loaded /\ others' = others
        /\ pc[p] \in {"rz", "rz2"}
    BY <1>7 DEF Read
  <2>4. (pc[p] = "rz" /\ pc'[p] = "close") \/ (pc[p] = "rz2" /\ pc'[p] = "exit")
    BY <1>3, <2>3, AfterFacts
  <2> QED BY <1>1, <2>2, <2>3, <2>4 DEF Half, LoadedInv
<1>8. CASE Write(p)
  <2>1. pc'[p] = "rz2" /\ syscall_val' = Written /\ fd'[p] = fd[p]
        /\ offset'[p] = offset[p] /\ loaded' = loaded
    BY <1>3, <1>8, AfterFacts DEF Write
  <2> QED BY <1>1, <1>8, <2>1 DEF Write, Half, LoadedInv
<1> QED BY <1>4, <1>5, <1>6, <1>7, <1>8

(* A call of p, for another program: p opens the node or writes to it, or  *)
(* does nothing the other can tell.                                        *)
LEMMA OthersCall ==
  ASSUME CharInv, NEW p \in Program,
         Open(p) \/ OpenFails(p) \/ Close(p) \/ NoFile(p) \/ Read(p) \/ Write(p),
         NEW q \in Program, q # p
  PROVE  Half(q)' /\ (fd'[q] => loaded')
<1>1. TypeOK /\ LoadedInv /\ Half(q)
  BY DEF CharInv
<1>2. pc[p] # "end" /\ Step(p) /\ loaded' = loaded
  BY DEF Open, OpenFails, Close, NoFile, Read, Write, Return, Calls
<1>3. pc'[q] = pc[q]
  BY <1>1, <1>2, StepFacts
<1>4. fd'[q] = fd[q] /\ offset'[q] = offset[q] /\ v'[q] = v[q]
  BY <1>1 DEF Open, OpenFails, Close, NoFile, Read, Write, TypeOK
<1>5. \/ syscall_val' = syscall_val /\ others'[q] = others[q]
      \/ syscall_val' = Opened /\ others'[q] = others[q] \cup {"open"}
      \/ syscall_val' = Written /\ others'[q] = others[q] \cup {"write"}
  BY DEF Open, OpenFails, Close, NoFile, Read, Write, Touch
<1> QED BY <1>1, <1>2, <1>3, <1>4, <1>5 DEF Half, LoadedInv

(* Every step keeps the invariant: a call of its own moves a program on    *)
(* to what Half asks of the next call, a call of another one is noted in   *)
(* others.                                                                 *)
LEMMA CharStep == CharInv /\ [Next]_vars => CharInv'
<1> SUFFICES ASSUME CharInv, [Next]_vars PROVE CharInv'
  OBVIOUS
<1>1. TypeOK'
  BY CharTypeStep DEF CharInv
<1>2. LoadedInv' /\ \A q \in Program : Half(q)'
  <2>1. CASE Insmod \/ Rmmod \/ UNCHANGED vars
    BY <2>1, RootKeeps
  <2>2. ASSUME NEW p \in Program,
               Open(p) \/ OpenFails(p) \/ Close(p) \/ NoFile(p) \/ Read(p)
                 \/ Write(p)
        PROVE  LoadedInv' /\ \A q \in Program : Half(q)'
    <3>1. ASSUME NEW q \in Program PROVE Half(q)' /\ (fd'[q] => loaded')
      BY <2>2, OwnCall, OthersCall
    <3> QED BY <3>1 DEF LoadedInv
  <2> QED BY <2>1, <2>2 DEF Next
<1> QED BY <1>1, <1>2 DEF CharInv

(* It holds at any time. *)
LEMMA CharInvariant == Spec => []CharInv
BY CharInit, CharStep, PTL DEF Spec

(* The driver's int is never anything but 0, 40 or 17, and no call returns *)
(* more than the size of an int (hw2.c:36-116).                            *)
THEOREM CharTypeCorrect == Spec => []TypeOK
BY CharInvariant, PTL DEF CharInv

(* A copy of part3.c starts at the 40 its open has set (hw2.c:39,          *)
(* part3.c:33) beside any number of others, unless one of them writes      *)
(* between, and although root loads and unloads the module.                *)
THEOREM AlwaysStartsAt40 == Spec => []StartsAt40
<1>1. CharInv => StartsAt40
  BY DEF CharInv, Half, StartsAt40
<1> QED BY <1>1, CharInvariant, PTL

(* It reads back the 17 it wrote (hw2.c:72-83, part3.c:42), unless one of  *)
(* the others opens the node between.                                      *)
THEOREM AlwaysUpdatedTo17 == Spec => []UpdatedIs17
<1>1. CharInv => UpdatedIs17
  BY DEF CharInv, Half, UpdatedIs17
<1> QED BY <1>1, CharInvariant, PTL
=============================================================================
