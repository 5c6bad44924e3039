-------------------------- MODULE LedModuleProofs ---------------------------
(***************************************************************************)
(* What LedFileProofs shows of the copies of userSpace.c while the module  *)
(* stays, for LedModule, where root loads and unloads it under them.       *)
(***************************************************************************)
EXTENDS LedModule, LedFileProofs

FileInv == CallInv /\ LastWriteOff

(* Insmod and the probe set variables of the driver only, to values that   *)
(* LEDCTL can have or to 0.                                                *)
LEMMA RootFile == CallInv /\ LastWriteOff /\ Root => FileInv'
<1> SUFFICES ASSUME CallInv, LastWriteOff, Root PROVE FileInv'
  OBVIOUS
<1> USE DEF CallInv, FileInv
<1>1. ASSUME UNCHANGED <<LEDCTL, callVars>>,
             led_initial_val' \in Values, led_current_val' \in Values,
             syscall_val' \in {0, 40, On, Off}
      PROVE  FileInv'
  <2>1. TypeOK'
    BY <1>1 DEF TypeOK, callVars, fileVars, userVars
  <2>2. AtCall' /\ LastWriteOff'
    BY <1>1 DEF AtCall, LastWriteOff, Wrote, Writing, callVars, fileVars
  <2> QED BY <2>1, <2>2
<1>2. CASE UNCHANGED vars
  BY <1>1, <1>2 DEF vars, devVars, callVars, TypeOK
<1>3. CASE Insmod
  BY <1>1, <1>3 DEF Insmod, Values, Off
<1>4. CASE Bind
  BY <1>1, <1>4 DEF Bind, TypeOK
<1> QED BY <1>2, <1>3, <1>4
    DEF Root, Probe, NoDevice, RegisterFails, Rebind, Rmmod

(* What root and the kernel do keeps what LedFileProofs shows of the       *)
(* calls.                                                                  *)
LEMMA LifeFile == FileInv /\ [LifeNext]_moduleVars => FileInv'
<1> SUFFICES ASSUME FileInv, [LifeNext]_moduleVars PROVE FileInv'
  OBVIOUS
<1>1. CASE Root
  BY <1>1, RootFile DEF FileInv
<1>2. ASSUME NEW p \in Program, Calling(p) PROVE FileInv'
  <2>1. Next
    BY <1>2 DEF Calling, Next
  <2> QED BY <2>1, NextCall, NextLastWrite DEF FileInv
<1>3. CASE UNCHANGED vars
  BY <1>3, NextCall, NextLastWrite DEF FileInv
<1> QED BY <1>1, <1>2, <1>3 DEF LifeNext, Fault, moduleVars

(* It keeps the offsets and the results of the calls too. *)
LEMMA LifeTransfer ==
  FileInv /\ TransferInv /\ [LifeNext]_moduleVars => TransferInv'
<1> SUFFICES ASSUME FileInv, TransferInv, [LifeNext]_moduleVars
             PROVE  TransferInv'
  OBVIOUS
<1>1. CASE Root
  <2>1. UNCHANGED <<pc, offset, ret>>
    BY <1>1 DEF Root, Insmod, Probe, Bind, NoDevice, RegisterFails, Rebind,
                Rmmod, vars, callVars, fileVars, userVars
  <2> QED BY <2>1 DEF TransferInv
<1>2. ASSUME NEW p \in Program, Calling(p) PROVE TransferInv'
  <2>1. Next
    BY <1>2 DEF Calling, Next
  <2> QED BY <2>1, NextTransfer DEF FileInv
<1>3. CASE UNCHANGED vars
  BY <1>3, NextTransfer DEF FileInv
<1> QED BY <1>1, <1>2, <1>3 DEF LifeNext, Fault, moduleVars

(* All this holds before the first insmod. *)
LEMMA LifeInitFile == LifeInit => FileInv
<1>1. Init => LastWriteOff
  BY DEF Init, LastWriteOff, Wrote
<1> QED BY <1>1, InitCall DEF LifeInit, FileInv

(* The variables of driver and programs keep their types through every     *)
(* load, unload, bind and failure (hw3.c:64-275), for every number of      *)
(* copies of userSpace.c.                                                  *)
THEOREM LifeTypeCorrect == LifeSpec => []TypeOK
<1>1. FileInv => TypeOK
  BY DEF FileInv, CallInv
<1> QED BY <1>1, LifeInitFile, LifeFile, PTL DEF LifeSpec

(* When all copies have ended and one of them could write, the LED is off, *)
(* also when the module comes and goes between their calls                 *)
(* (hw3.c:162-212).                                                        *)
THEOREM LedsOffThroughLife == LifeSpec => []LedsOff
<1>1. FileInv => LedsOff
  BY DEF FileInv, LastWriteOff, LedsOff, Wrote, Writing
<1> QED BY <1>1, LifeInitFile, LifeFile, PTL DEF LifeSpec

-----------------------------------------------------------------------------
(* A file of a module that is gone is one it had when pci_register_driver  *)
(* failed, and a device is bound to a driver that is there.                *)
LifeInv ==
  /\ mapped => module = "live"
  /\ lost # {} => dangling
  /\ \A p \in Program : Opened(p) /\ p \notin lost => module # "out"
  /\ OopsHasCause

(* What a call needs to keep LifeInv: the program has no file open after   *)
(* it that it had not before, if the module is out.                        *)
LEMMA CallingLife ==
  ASSUME CallInv, LifeInv, NEW p \in Program, Calling(p)
  PROVE  LifeInv'
<1> USE DEF CallInv
<1>1. UNCHANGED lifeVars /\ p \notin lost
  BY DEF Calling, CanStep
<1>2. Opened(p)' => Opened(p) \/ module # "out"
  <2>1. CASE Open(p) /\ (fd'[p] => module # "out")
    BY <2>1 DEF Opened
  <2>2. CASE NoFile(p) \/ ReadBegin(p) \/ ReadStore(p) \/ ReadCopy(p)
    BY <2>2 DEF NoFile, ReadBegin, ReadStore, ReadCopy, AtCall, Opened, Calls,
                fileVars
  <2>3. CASE WriteStore(p) \/ WriteCtl(p)
    BY <2>3 DEF WriteStore, WriteCtl, WriteEnd, AtCall, Opened, Calls, fileVars
  <2> QED BY <2>1, <2>2, <2>3 DEF Calling
<1>3. ASSUME NEW q \in Program, q # p PROVE Opened(q)' = Opened(q)
  <2>1. fd'[q] = fd[q]
    BY <1>3
    DEF Calling, Open, NoFile, ReadBegin, ReadStore, ReadCopy, WriteStore,
        WriteCtl, WriteEnd, TypeOK, fileVars
  <2>2. pc'[q] = pc[q]
    BY <1>3
    DEF Calling, Open, NoFile, ReadBegin, ReadStore, ReadCopy, WriteStore,
        WriteCtl, WriteEnd, Return, TypeOK
  <2> QED BY <2>1, <2>2 DEF Opened
<1> QED BY <1>1, <1>2, <1>3 DEF LifeInv, OopsHasCause, lifeVars

(* A call that faults does so for one of the two reasons. *)
LEMMA FaultLife ==
  ASSUME TypeOK, AtCall, LifeInv, NEW p \in Program, Fault(p)
  PROVE  LifeInv'
<1>1. AtRegister(p) => Opened(p)
  BY DEF AtCall, AtRegister, Opened, Calls
<1>2. OopsHasCause'
  BY <1>1 DEF LifeInv, Fault, CanStep, OopsHasCause
<1>3. UNCHANGED <<mapped, module, lost, dangling>>
      /\ \A q \in Program : Opened(q)' = Opened(q)
  BY DEF Fault, vars, fileVars, Opened
<1> QED BY <1>2, <1>3 DEF LifeInv

(* Neither loading nor unloading nor binding leaves a file without its     *)
(* module, but for those that are lost.                                    *)
LEMMA RootLife ==
  ASSUME LifeInv, ~oops, Root
  PROVE  LifeInv'
<1>1. ~oops'
  BY DEF Root, Insmod, Probe, Bind, NoDevice, RegisterFails, Rebind, Rmmod
<1>2. \A q \in Program : Opened(q)' = Opened(q)
  BY DEF Root, Insmod, Probe, Bind, NoDevice, RegisterFails, Rebind, Rmmod,
         vars, callVars, fileVars, Opened
<1>3. CASE Insmod
  BY <1>1, <1>2, <1>3 DEF Insmod, LifeInv, OopsHasCause
<1>4. CASE Probe \/ NoDevice \/ Rebind
  BY <1>1, <1>2, <1>4 DEF Probe, Bind, NoDevice, Rebind, LifeInv, OopsHasCause
<1>5. CASE RegisterFails
  BY <1>1, <1>2, <1>5 DEF RegisterFails, Gone, LifeInv, OopsHasCause
<1>6. CASE Rmmod
  BY <1>1, <1>2, <1>6 DEF Rmmod, Gone, LifeInv, OopsHasCause
<1> QED BY <1>3, <1>4, <1>5, <1>6 DEF Root

(* There are no files before the first insmod. *)
LEMMA LifeInitLife == LifeInit => LifeInv
BY DEF LifeInit, Init, LifeInv, Opened, OopsHasCause

(* Every step keeps the invariant of the module's life. *)
LEMMA LifeStep == FileInv /\ LifeInv /\ [LifeNext]_moduleVars => LifeInv'
<1> SUFFICES ASSUME FileInv, LifeInv, [LifeNext]_moduleVars PROVE LifeInv'
  OBVIOUS
<1>1. CASE ~oops /\ Root
  BY <1>1, RootLife
<1>2. ASSUME NEW p \in Program, Calling(p) PROVE LifeInv'
  BY <1>2, CallingLife DEF FileInv
<1>3. ASSUME NEW p \in Program, Fault(p) PROVE LifeInv'
  BY <1>3, FaultLife DEF FileInv, CallInv
<1>4. CASE UNCHANGED moduleVars
  BY <1>4 DEF moduleVars, lifeVars, vars, fileVars, LifeInv, OopsHasCause,
              Opened
<1> QED BY <1>1, <1>2, <1>3, <1>4 DEF LifeNext

(* Both invariants hold at any time. *)
LEMMA LifeInvariant == LifeSpec => [](FileInv /\ LifeInv)
BY LifeInitFile, LifeFile, LifeInitLife, LifeStep, PTL DEF LifeSpec

(* For every number of copies and of loads: a call finds its registers     *)
(* unmapped only while no device is bound to the loaded module, and its    *)
(* module gone only after a pci_register_driver has failed (hw3.c:225-275).*)
THEOREM OopsCause == LifeSpec => []OopsHasCause
<1>1. LifeInv => OopsHasCause
  BY DEF LifeInv
<1> QED BY <1>1, LifeInvariant, PTL

(* A device is bound only to a module that is loaded, the module is loaded *)
(* no more often than root does, and only programs lose their files        *)
(* (hw3.c:64-275).                                                         *)
THEOREM LifeStateCorrect == LifeSpec => []LifeTypeOK
<1>1. LifeInit => LifeTypeOK
  <2>1. 0 \in 0 .. Loads
    BY LifeAssumption
  <2> QED BY <2>1 DEF LifeInit, LifeTypeOK
<1>2. LifeTypeOK /\ [LifeNext]_moduleVars => LifeTypeOK'
  <2> SUFFICES ASSUME LifeTypeOK, [LifeNext]_moduleVars PROVE LifeTypeOK'
    OBVIOUS
  <2>1. CASE Root
    <3>1. CASE Insmod
      <4>1. loads' \in 0 .. Loads
        BY <3>1, LifeAssumption DEF Insmod, LifeTypeOK
      <4>2. ~mapped'
        BY <3>1 DEF Insmod, LifeTypeOK
      <4> QED BY <3>1, <4>1, <4>2 DEF Insmod, LifeTypeOK
    <3>2. CASE Probe \/ NoDevice \/ Rebind
      BY <3>2 DEF Probe, Bind, NoDevice, Rebind, LifeTypeOK
    <3>3. CASE RegisterFails
      <4>1. ~mapped'
        BY <3>3 DEF RegisterFails, LifeTypeOK
      <4> QED BY <3>3, <4>1 DEF RegisterFails, Gone, LifeTypeOK
    <3>4. CASE Rmmod
      BY <3>4 DEF Rmmod, Gone, LifeTypeOK
    <3> QED BY <2>1, <3>1, <3>2, <3>3, <3>4 DEF Root
  <2>2. ASSUME NEW p \in Program, Calling(p) PROVE LifeTypeOK'
    BY <2>2 DEF Calling, lifeVars, LifeTypeOK
  <2>4. ASSUME NEW p \in Program, Fault(p) PROVE LifeTypeOK'
    BY <2>4 DEF Fault, LifeTypeOK
  <2>3. CASE UNCHANGED moduleVars
    BY <2>3 DEF moduleVars, lifeVars, LifeTypeOK
  <2> QED BY <2>1, <2>2, <2>3, <2>4 DEF LifeNext
<1> QED BY <1>1, <1>2, PTL DEF LifeSpec

-----------------------------------------------------------------------------
(* A call on an open file moves an int, also when the module comes and     *)
(* goes between the calls (hw3.c:127-212): a file of an earlier load is    *)
(* never called again, and a new one begins at offset 0.                   *)
THEOREM CallsTransferThroughLife == LifeSpec => []CallsTransfer
<1>1. LifeInit => TransferInv
  BY InitTransfer DEF LifeInit
<1> QED BY <1>1, LifeInitFile, LifeFile, LifeTransfer, TransferEnd, PTL
    DEF LifeSpec

(* insmod begins with led_current_val cleared (hw3.c:25), under a program  *)
(* whose module is gone; that one never ends its read.                     *)
LifeBack ==
  \A p \in Program :
    /\ p \notin lost => ReadingBack(p)
    /\ fd[p] /\ others[p] = {} /\ pc[p] = "wz2" => v[p] = On

(* Root's steps leave the register and the programs alone;                 *)
(* led_current_val is cleared only under lost files.                       *)
LEMMA RootBack ==
  ASSUME FileInv, LifeInv, LifeBack, Root
  PROVE  LifeBack'
<1>1. UNCHANGED <<LEDCTL, callVars>>
  BY DEF Root, Insmod, Probe, Bind, NoDevice, RegisterFails, Rebind, Rmmod,
         vars, callVars, fileVars, userVars
<1>2. lost \subseteq lost'
  BY DEF Root, Insmod, Probe, Bind, NoDevice, RegisterFails, Rebind, Rmmod,
         Gone
<1>3. CASE Insmod
  <2>1. ASSUME NEW p \in Program, p \notin lost, pc[p] = "rz2"
        PROVE  ~fd[p]
    BY <1>3, <2>1 DEF Insmod, LifeInv, Opened, Calls, Reads
  <2> QED BY <1>1, <1>2, <2>1
      DEF LifeBack, ReadingBack, callVars, fileVars, userVars
<1>4. CASE ~Insmod
  <2>1. UNCHANGED led_current_val
    BY <1>4 DEF Root, Probe, Bind, NoDevice, RegisterFails, Rebind, Rmmod,
                vars, devVars
  <2> QED BY <1>1, <1>2, <2>1
      DEF LifeBack, ReadingBack, callVars, fileVars, userVars
<1> QED BY <1>3, <1>4

(* A call carries the value it is to read back as it does in LedFile. *)
LEMMA CallingBack ==
  ASSUME FileInv, TransferInv, LifeBack, NEW q \in Program, Calling(q)
  PROVE  LifeBack'
<1>1. UNCHANGED lost /\ q \notin lost
  BY DEF Calling, CanStep, lifeVars
<1>2. \/ Open(q) \/ NoFile(q) \/ ReadBegin(q) \/ ReadStore(q)
      \/ ReadCopy(q) \/ WriteStore(q) \/ WriteCtl(q)
  BY DEF Calling
<1>3. ASSUME NEW p \in Program, p \notin lost PROVE ReadingBack(p)'
  <2>1. CASE p = q
    BY <1>2, <1>3, <2>1, OwnReadBack DEF LifeBack, FileInv
  <2>2. CASE p # q
    BY <1>2, <1>3, <2>2, OthersReadBack DEF LifeBack, FileInv
  <2> QED BY <2>1, <2>2
<1>4. ASSUME NEW p \in Program, p \in lost,
             fd'[p], others'[p] = {}, pc'[p] = "wz2"
      PROVE  v'[p] = On
  <2>1. UNCHANGED <<pc[p], fd[p], v[p]>> /\ (others'[p] = {} => others[p] = {})
    BY <1>1, <1>2, <1>4, OthersAlone DEF FileInv
  <2> QED BY <1>4, <2>1 DEF LifeBack
<1> QED BY <1>1, <1>3, <1>4 DEF LifeBack, ReadingBack

(* A program reads back what it has written, if the driver does nothing    *)
(* for another from the one to the other, also when the module comes and   *)
(* goes meanwhile (hw3.c:143-148 and 180-203).                             *)
THEOREM ReadsBackThroughLife == LifeSpec => []ReadsBack
<1>1. LifeInit => LifeBack
  BY DEF LifeInit, Init, LifeBack, ReadingBack
<1>2. LifeInit => TransferInv
  BY InitTransfer DEF LifeInit
<1>3. FileInv /\ LifeInv /\ TransferInv /\ LifeBack
        /\ [LifeNext]_moduleVars => LifeBack'
  <2> SUFFICES ASSUME FileInv, LifeInv, TransferInv, LifeBack,
                      [LifeNext]_moduleVars
               PROVE  LifeBack'
    OBVIOUS
  <2>1. CASE Root
    BY <2>1, RootBack
  <2>2. ASSUME NEW p \in Program, Calling(p) PROVE LifeBack'
    BY <2>2, CallingBack
  <2>3. ASSUME UNCHANGED <<vars, lost>> PROVE LifeBack'
    BY <2>3 DEF vars, devVars, fileVars, userVars, LifeBack, ReadingBack
  <2> QED BY <2>1, <2>2, <2>3 DEF LifeNext, Fault, moduleVars, lifeVars
<1>4. LifeBack => ReadsBack
  BY DEF LifeBack, ReadsBack
<1> QED BY <1>1, <1>2, <1>3, <1>4, LifeTransfer, LifeInvariant, PTL
    DEF LifeSpec
=============================================================================
