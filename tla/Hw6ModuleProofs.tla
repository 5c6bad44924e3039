-------------------------- MODULE Hw6ModuleProofs --------------------------
(***************************************************************************)
(* Proofs about Hw6Module, for a ring of any size, any traffic, any number *)
(* of open files, any device and, where a theorem does not say otherwise,  *)
(* whatever calls fail and whenever root unbinds the device.               *)
(*                                                                         *)
(* The inductive invariant says, for every point of the thread that loads  *)
(* or unloads and of a remove beside it, what is held and what can be      *)
(* running there.                                                          *)
(***************************************************************************)
EXTENDS Hw6Module, RxRingProofs

(* insmod before make_DMA returns, where a device can be bound, and rmmod. *)
Loading  == {"out", "chrdev", "cdev", "driver", "enable", "regions",
             "ioremap", "work", "reset", "ring", "buffers", "rctl", "irq",
             "ims"}
Bindable == {"class", "node", "in", "cancel", "cancelWait", "unregister"}
Exiting  == {"cancel", "cancelWait", "unregister", "devices"}

(* Where the thread stands, against the flags and the users; a remove is   *)
(* under way only for a device that is bound.                              *)
StageInv ==
  /\ pc \in Loading \cup {"class", "node", "in"} => ~unloading
  /\ pc \in Exiting => unloading
  /\ bound => pc \in Bindable
  /\ remPc # "none" => bound
  /\ "node" \in held => pc \in {"in"} \cup Exiting
  /\ opens > 0 => pc = "in"

(* What the probe has acquired, and keeps until the device is removed. *)
HeldInv ==
  /\ pc \notin {"out", "gone"} => "text" \in held
  /\ pc \in {"work", "reset", "ring", "buffers", "rctl", "irq", "ims"} \/ bound
       => "mapping" \in held
  /\ pc \in {"reset", "ring", "buffers", "rctl", "irq", "ims"} \/ bound
       => "work" \in held
  /\ pc \in {"ring", "buffers", "rctl", "irq", "ims"} \/ bound
       => "ring" \in held
  /\ pc \in {"buffers", "rctl", "irq", "ims"} \/ (bound /\ remPc # "unmap")
       => {"bufinfo", "desc"} \subseteq held
  /\ pc \in {"rctl", "irq", "ims"} \/ (bound /\ remPc # "unmap")
       => "buffers" \in held

(* When the handler can be called, and when it can still be running. *)
HandlerInv ==
  /\ "irq" \in held => /\ bound \/ pc = "ims"
                       /\ remPc \in {"none", "freeIrq"}
  /\ irqPc # "idle" => /\ bound
                       /\ remPc \in {"none", "freeIrq", "freeIrqWait"}

(* When the device is set to receive, and when it can write packets: until *)
(* the ring is freed, or for good when pci_disable_device does not end it. *)
DmaInv ==
  /\ pc \in {"irq", "ims"} \/ bound => rxOn
  /\ pc \in Loading \ {"irq", "ims"} \/ (pc = "gone" /\ ~unloading) => ~rxOn
  /\ rxOn /\ dma = "on" =>
       \/ pc \in {"irq", "ims"}
       \/ bound /\ remPc \notin {"freeRing", "unmap"}

(* Before the probe has ended nothing runs, and nor does anything when the *)
(* device has never been set to receive; work may be left of one that was  *)
(* unbound.                                                                *)
QuietInv ==
  pc \in Loading \/ (~rxOn /\ ~unloading) =>
    ~IMS /\ ~intx /\ irqPc = "idle" /\ ~pending /\ workPc = "idle"

ModInv ==
  /\ ModTypeOK /\ StageInv /\ HeldInv /\ HandlerInv /\ DmaInv /\ QuietInv

(* What insmod has registered when one of its calls fails. *)
LoadInv ==
  /\ pc = "out" => held = {}
  /\ pc = "chrdev" => held = {"text"}
  /\ pc = "cdev" => held = {"text", "chrdev"}
  /\ pc = "driver" => held = {"text", "chrdev", "cdev"}
  /\ FailedLoadLeaves

(* What is left to release, when no probe stops half way. *)
ReleaseInv ==
  LET Kept == {"text", "chrdev", "cdev", "driver", "class", "node", "work",
               "ring"}
      Mapped == {"mapping", "regions"}
  IN  /\ pc \notin Loading \ {"out", "chrdev", "cdev", "driver"} /\ ~bound
           => held \subseteq Kept
      /\ remPc \in {"freeIrqWait", "disable"} => "irq" \notin held
      /\ remPc = "freeRing" => held \cap {"irq", "enabled"} = {}
      /\ remPc = "unmap" => held \subseteq Kept \cup Mapped
      /\ pc = "devices" => "driver" \notin held
      /\ pc = "gone" => held \subseteq {"chrdev", "cdev", "work", "ring"}
      /\ pc = "gone" /\ unloading => held \subseteq {"work", "ring"}

(* The receive path after the probe, and how a probe hands it over: the    *)
(* ring is empty until RCTL, and what comes in before IMS leaves ICR set.  *)
PathInv ==
  /\ pc \in {"buffers", "rctl"} => RDH = 0 /\ RDT = N - 1
  /\ pc \in {"irq", "ims"} => (Free <= MinThreshold => ICR)
  /\ bound /\ pc \in {"class", "node", "in"} =>
       MaskSaved /\ ClearedBeforeLook /\ LowRingNoticed

(* When a device is there and neither probe nor class_create fails, the    *)
(* module is complete from the end of insmod to rmmod.                     *)
WholeInv ==
  /\ pc \in {"class", "node", "in", "cancel", "cancelWait"} => bound
  /\ remPc # "none" => pc = "unregister"
  /\ pc \in {"node", "in"} \cup Exiting => "class" \in held
  /\ pc \notin Exiting \cup {"gone"} => ~unloading
  /\ OopsIsLateWork

-----------------------------------------------------------------------------
(* Steps of one kind: those of the thread, by what they belong to.         *)
InitStep   == \/ Insmod \/ InitChrdev \/ InitCdev \/ InitDriver \/ InitClass
              \/ InitNode
ProbeStep  == ProbeEnable \/ ProbeRegions \/ ProbeMap \/ ProbeWork
DmaStep    == \/ DmaReset \/ DmaRing \/ DmaBuffers \/ DmaReceiveOn
              \/ DmaRequestIrq \/ DmaEnableIrq
RemoveStep == (StartRemove /\ (MayUnbind \/ pc = "unregister")) \/ Remove
ExitDrop   == ~bound /\ At("unregister", "devices") /\ Release({"driver"}) /\ Quiet
ExitStep   == Rmmod \/ ExitCancel \/ ExitCancelWait \/ ExitDrop \/ ExitDevices
UserStep   == UserOpen \/ UserClose \/ UserRead
RingStep   == DeviceStep \/ HandlerStep \/ WorkStep

(* Every step is of one of these kinds. *)
LEMMA StepKinds ==
  [ModNext]_allVars =>
    \/ InitStep \/ ProbeStep \/ DmaStep \/ RemoveStep \/ ExitStep
    \/ UserStep \/ RingStep \/ Fault \/ UNCHANGED allVars
BY DEF ModNext, Thread, InitStep, ProbeStep, DmaStep, RemoveStep, ExitStep,
       UserStep, RingStep, Unbind, ExitUnregister, ExitDrop

(* Device, handler and work step in RxRing and touch nothing of the module. *)
LEMMA RingStepFacts == RingStep => Next /\ UNCHANGED moduleVars
BY DEF RingStep, DeviceStep, HandlerStep, WorkStep, Next

(* The invariant holds before insmod. *)
LEMMA ModInitInv == ModInit => ModInv
<1> SUFFICES ASSUME ModInit PROVE ModInv
  OBVIOUS
<1>1. TypeOK
  <2>1. 0 \in Slots
    BY RingAssumption DEF Slots
  <2>2. rxDE \in [Slots -> Packet \cup {NoPacket}]
    BY DEF ModInit
  <2>3. LEDCTL \in SUBSET Leds /\ irqLed \in SUBSET Leds /\ workLed \in SUBSET Leds
    BY DEF ModInit, Leds
  <2> QED BY <2>1, <2>2, <2>3 DEF ModInit, TypeOK, IrqPcs, WorkPcs
<1>2. ModTypeOK
  <2>1. opens \in 0 .. MaxOpens
    BY ModuleAssumption DEF ModInit
  <2>2. /\ pc \in Pcs /\ remPc \in RemPcs /\ dma \in DmaKinds
        /\ held \subseteq Resources
    BY ModuleAssumption DEF ModInit, Pcs, RemPcs
  <2>3. {unloading, bound, rxOn, reading, oops} \subseteq BOOLEAN
    BY DEF ModInit
  <2> QED BY <1>1, <2>1, <2>2, <2>3 DEF ModTypeOK
<1>3. StageInv /\ HeldInv /\ HandlerInv /\ DmaInv /\ QuietInv
  BY DEF ModInit, StageInv, HeldInv, HandlerInv, DmaInv, QuietInv, Loading,
         Bindable, Exiting
<1> QED BY <1>2, <1>3 DEF ModInv

(* No step takes a variable out of its type. *)
LEMMA ModTypeStep == ModInv /\ [ModNext]_allVars => ModTypeOK'
<1> SUFFICES ASSUME ModInv, [ModNext]_allVars PROVE ModTypeOK'
  OBVIOUS
<1> DEFINE ThreadTypeOK == 
             /\ pc \in Pcs /\ remPc \in RemPcs /\ dma \in DmaKinds
             /\ held \subseteq Resources /\ opens \in 0 .. MaxOpens
             /\ {unloading, bound, rxOn, reading, oops} \subseteq BOOLEAN
<1>1. TypeOK'
  <2>1. TypeOK /\ UNCHANGED vars => TypeOK'
    BY TypeStep
  <2>2. RingStep => TypeOK'
    BY RingStepFacts, TypeStep DEF ModInv, ModTypeOK
  <2>3. CASE InitStep \/ RemoveStep \/ UserStep \/ Fault \/ UNCHANGED allVars
    BY <2>1, <2>3
    DEF InitStep, Insmod, InitChrdev, InitCdev, InitDriver, InitClass, InitNode,
        RemoveStep, StartRemove, Remove, RemoveFreeIrq, RemoveFreeIrqWait, RemoveDisable,
        RemoveFreeRing, RemoveUnmap, UserStep, UserOpen, UserClose, UserRead,
        Fault, allVars, Quiet, ModInv, ModTypeOK
  <2>4. CASE ProbeEnable \/ ProbeRegions \/ ProbeMap \/ DmaBuffers
             \/ DmaReceiveOn \/ DmaRequestIrq \/ Rmmod \/ ExitDrop
             \/ ExitDevices
    BY <2>1, <2>4
    DEF ProbeEnable, ProbeRegions, ProbeMap, DmaBuffers, DmaReceiveOn,
        DmaRequestIrq, Rmmod, ExitDrop, ExitDevices, Quiet, ModInv,
        ModTypeOK
  <2>5. CASE ProbeWork \/ DmaReset \/ DmaRing
    <3>1. 0 \in Slots /\ N - 1 \in Slots
      BY RingAssumption DEF Slots
    <3>2. rxDE' \in [Slots -> Packet \cup {NoPacket}]
      BY <2>5
      DEF ProbeWork, DmaReset, DmaRing, deviceVars, ModInv, ModTypeOK, TypeOK
    <3>3. LEDCTL' \in SUBSET Leds
      <4>1. {1} \in SUBSET Leds /\ {2} \in SUBSET Leds
        BY DEF Leds
      <4>2. LEDCTL' = {2} \/ LEDCTL' = {1} \/ LEDCTL' = LEDCTL
        BY <2>5 DEF ProbeWork, DmaReset, DmaRing
      <4> QED BY <4>1, <4>2 DEF ModInv, ModTypeOK, TypeOK
    <3>4. RDH' \in Slots /\ RDT' \in Slots /\ ICR' \in BOOLEAN /\ IMS' \in BOOLEAN
      BY <2>5, <3>1
      DEF ProbeWork, DmaReset, DmaRing, deviceVars, ModInv, ModTypeOK, TypeOK
    <3>5. UNCHANGED <<intx, irqVars, pending, workVars, overlap>>
      BY <2>5 DEF ProbeWork, DmaReset, DmaRing
    <3> QED
      BY <3>2, <3>3, <3>4, <3>5
      DEF irqVars, workVars, ModInv, ModTypeOK, TypeOK
  <2>6. CASE DmaEnableIrq \/ ExitCancel \/ ExitCancelWait
    BY <2>6
    DEF DmaEnableIrq, Latch, ExitCancel, ExitCancelWait, deviceVars, irqVars,
        workVars, ModInv, ModTypeOK, TypeOK
  <2> QED BY <2>2, <2>3, <2>4, <2>5, <2>6, StepKinds
          DEF ProbeStep, DmaStep, ExitStep
<1>2. ThreadTypeOK'
  <2> ThreadTypeOK
    BY DEF ModInv, ModTypeOK
  <2>1. CASE RingStep \/ Fault \/ UNCHANGED allVars
    BY <2>1, RingStepFacts DEF Fault, moduleVars, allVars
  <2>2. CASE InitStep
    BY <2>2
    DEF InitStep, Insmod, InitChrdev, InitCdev, InitDriver, InitClass, InitNode,
        Quiet, At, RemoveAt, Acquire, Release, Pcs, Resources
  <2>3. CASE ProbeStep
    BY <2>3
    DEF ProbeStep, ProbeEnable, ProbeRegions, ProbeMap, ProbeWork, Quiet, At,
        Acquire, Release, Pcs, DmaKinds, Resources
  <2>4. CASE DmaStep
    BY <2>4
    DEF DmaStep, DmaReset, DmaRing, DmaBuffers, DmaReceiveOn, DmaRequestIrq,
        DmaEnableIrq, Quiet, At, RemoveAt, Acquire, Release, Pcs, Resources
  <2>5. CASE RemoveStep
    BY <2>5
    DEF RemoveStep, StartRemove, Remove, RemoveFreeIrq, RemoveFreeIrqWait, RemoveDisable,
        RemoveFreeRing, RemoveUnmap, Quiet, At, RemoveAt, Release, Pcs, RemPcs, DmaKinds,
        Resources
  <2>6. CASE ExitStep
    BY <2>6
    DEF ExitStep, Rmmod, ExitCancel, ExitCancelWait, ExitDrop,
        ExitDevices, Quiet, At, RemoveAt, Release, Pcs, RemPcs, DmaKinds,
        Resources
  <2>7. CASE UserStep
    <3>1. UNCHANGED <<pc, remPc, unloading, bound, held, rxOn, dma>>
          /\ reading' \in BOOLEAN /\ oops' \in BOOLEAN
      BY <2>7 DEF UserStep, UserOpen, UserClose, UserRead
    <3>2. opens' \in 0 .. MaxOpens
      BY <2>7, ModuleAssumption DEF UserStep, UserOpen, UserClose, UserRead
    <3> QED BY <3>1, <3>2
  <2> QED BY <2>1, <2>2, <2>3, <2>4, <2>5, <2>6, <2>7, StepKinds
<1> QED BY <1>1, <1>2 DEF ModTypeOK

(* The thread's place agrees with the flags after every step. *)
LEMMA StageStep == ModInv /\ [ModNext]_allVars => StageInv'
<1> SUFFICES ASSUME ModInv, [ModNext]_allVars PROVE StageInv'
  OBVIOUS
<1> USE DEF ModInv, StageInv, Loading, Bindable, Exiting, Quiet, At, RemoveAt,
            Acquire, Release
<1>1. CASE RingStep \/ Fault \/ UNCHANGED allVars
  BY <1>1, RingStepFacts DEF Fault, moduleVars, allVars
<1>2. CASE InitStep
  BY <1>2
  DEF InitStep, Insmod, InitChrdev, InitCdev, InitDriver, InitClass, InitNode
<1>3. CASE ProbeStep
  BY <1>3 DEF ProbeStep, ProbeEnable, ProbeRegions, ProbeMap, ProbeWork
<1>4. CASE DmaStep
  BY <1>4 DEF DmaStep, DmaReset, DmaRing, DmaBuffers, DmaReceiveOn,
              DmaRequestIrq, DmaEnableIrq
<1>5. CASE RemoveStep
  BY <1>5 DEF RemoveStep, StartRemove, Remove, RemoveFreeIrq, RemoveFreeIrqWait,
              RemoveDisable, RemoveFreeRing, RemoveUnmap
<1>6. CASE ExitStep
  BY <1>6 DEF ExitStep, Rmmod, ExitCancel, ExitCancelWait, ExitDrop,
              ExitDevices
<1>7. CASE UserStep
  BY <1>7 DEF UserStep, UserOpen, UserClose, UserRead, ModTypeOK
<1> QED BY <1>1, <1>2, <1>3, <1>4, <1>5, <1>6, <1>7, StepKinds

(* What the thread's place asks for is held after every step. *)
LEMMA HeldStep == ModInv /\ [ModNext]_allVars => HeldInv'
<1> SUFFICES ASSUME ModInv, [ModNext]_allVars PROVE HeldInv'
  OBVIOUS
<1> USE DEF HeldInv, Quiet, At, RemoveAt, Acquire, Release
<1> HeldInv /\ StageInv
  BY DEF ModInv
<1>1. CASE RingStep \/ Fault \/ UserStep \/ UNCHANGED allVars
  BY <1>1, RingStepFacts
  DEF Fault, UserStep, UserOpen, UserClose, UserRead, moduleVars, allVars
<1>2. CASE InitStep
  BY <1>2
  DEF InitStep, Insmod, InitChrdev, InitCdev, InitDriver, InitClass, InitNode,
      StageInv, Bindable
<1>3. CASE ProbeStep
  BY <1>3 DEF ProbeStep, ProbeEnable, ProbeRegions, ProbeMap, ProbeWork,
              StageInv, Bindable
<1>4. CASE DmaStep
  BY <1>4 DEF DmaStep, DmaReset, DmaRing, DmaBuffers, DmaReceiveOn,
              DmaRequestIrq, DmaEnableIrq
<1>5. CASE RemoveStep
  BY <1>5 DEF RemoveStep, StartRemove, Remove, RemoveFreeIrq, RemoveFreeIrqWait,
              RemoveDisable, RemoveFreeRing, RemoveUnmap, StageInv, Bindable
<1>6. CASE ExitStep
  BY <1>6 DEF ExitStep, Rmmod, ExitCancel, ExitCancelWait, ExitDrop,
              ExitDevices, StageInv, Bindable
<1> QED BY <1>1, <1>2, <1>3, <1>4, <1>5, <1>6, StepKinds

(* irq_handler is entered only when it is registered and a request is      *)
(* there, and free_irq waits for its end.                                  *)
LEMMA HandlerInvStep == ModInv /\ [ModNext]_allVars => HandlerInv'
<1> SUFFICES ASSUME ModInv, [ModNext]_allVars PROVE HandlerInv'
  OBVIOUS
<1> USE DEF HandlerInv, Quiet, At, RemoveAt, Acquire, Release
<1> HandlerInv /\ StageInv /\ QuietInv /\ HeldInv
  BY DEF ModInv
<1>1. CASE Fault \/ UserStep \/ UNCHANGED allVars
  BY <1>1
  DEF Fault, UserStep, UserOpen, UserClose, UserRead, moduleVars, allVars, vars,
      irqVars
<1>2. CASE HandlerStep
  <2>1. CASE irqPc = "idle"
    <3>1. irqPc' = "idle" \/ ("irq" \in held /\ intx)
      BY <1>2, <2>1
      DEF HandlerStep, Irq, IrqNone, IrqEnter, IrqMaskAll, IrqReadLed, IrqLedOn,
          IrqSchedule, IrqAck, IrqUnmask, irqVars
    <3>2. intx /\ pc = "ims" => bound
      BY DEF QuietInv, StageInv, Loading
    <3>3. UNCHANGED moduleVars
      BY <1>2 DEF HandlerStep
    <3> QED BY <2>1, <3>1, <3>2, <3>3 DEF moduleVars
  <2>2. CASE irqPc # "idle"
    BY <1>2, <2>2 DEF HandlerStep, moduleVars
  <2> QED BY <2>1, <2>2
<1>3. CASE DeviceStep \/ WorkStep
  <2>1. UNCHANGED irqVars
    BY <1>3
    DEF DeviceStep, WorkStep, Receive, Work, WorkStart, WorkWake, WorkLedOff,
        WorkTest, WorkInspect, WorkAdvance, WorkReadLed, WorkShowTail
  <2> QED BY <1>3, <2>1 DEF DeviceStep, WorkStep, irqVars, moduleVars
<1>4. CASE InitStep
  BY <1>4
  DEF InitStep, Insmod, InitChrdev, InitCdev, InitDriver, InitClass, InitNode,
      StageInv, Bindable, vars, irqVars
<1>5. CASE ProbeStep
  BY <1>5 DEF ProbeStep, ProbeEnable, ProbeRegions, ProbeMap, ProbeWork,
              StageInv, Bindable, vars, irqVars
<1>6. CASE DmaStep
  BY <1>6 DEF DmaStep, DmaReset, DmaRing, DmaBuffers, DmaReceiveOn,
              DmaRequestIrq, DmaEnableIrq, StageInv, Bindable, vars, irqVars
<1>7. CASE RemoveStep
  BY <1>7 DEF RemoveStep, StartRemove, Remove, RemoveFreeIrq, RemoveFreeIrqWait,
              RemoveDisable, RemoveFreeRing, RemoveUnmap, vars, irqVars
<1>8. CASE ExitStep
  BY <1>8 DEF ExitStep, Rmmod, ExitCancel, ExitCancelWait, ExitDrop,
              ExitDevices, StageInv, Bindable, vars, irqVars
<1> QED BY <1>1, <1>2, <1>3, <1>4, <1>5, <1>6, <1>7, <1>8, StepKinds
        DEF RingStep

(* No step leaves the device writing into a ring that is not there. *)
LEMMA DmaInvStep == ModInv /\ [ModNext]_allVars => DmaInv'
<1> SUFFICES ASSUME ModInv, [ModNext]_allVars PROVE DmaInv'
  OBVIOUS
<1> USE DEF DmaInv, Loading, Quiet, At, RemoveAt, Acquire, Release
<1> DmaInv /\ StageInv
  BY DEF ModInv
<1>1. CASE RingStep \/ Fault \/ UserStep \/ UNCHANGED allVars
  BY <1>1, RingStepFacts
  DEF Fault, UserStep, UserOpen, UserClose, UserRead, moduleVars, allVars
<1>2. CASE InitStep
  BY <1>2
  DEF InitStep, Insmod, InitChrdev, InitCdev, InitDriver, InitClass, InitNode,
      StageInv, Bindable
<1>3. CASE ProbeStep
  BY <1>3 DEF ProbeStep, ProbeEnable, ProbeRegions, ProbeMap, ProbeWork,
              StageInv, Bindable
<1>4. CASE DmaStep
  BY <1>4 DEF DmaStep, DmaReset, DmaRing, DmaBuffers, DmaReceiveOn,
              DmaRequestIrq, DmaEnableIrq, StageInv, Bindable
<1>5. CASE RemoveStep
  BY <1>5 DEF RemoveStep, StartRemove, Remove, RemoveFreeIrq, RemoveFreeIrqWait,
              RemoveDisable, RemoveFreeRing, RemoveUnmap
<1>6. CASE ExitStep
  BY <1>6 DEF ExitStep, Rmmod, ExitCancel, ExitCancelWait, ExitDrop,
              ExitDevices, StageInv, Bindable, Exiting
<1> QED BY <1>1, <1>2, <1>3, <1>4, <1>5, <1>6, StepKinds

(* No step but that of a bound driver sets the receive path going. *)
LEMMA QuietStep == ModInv /\ [ModNext]_allVars => QuietInv'
<1> SUFFICES ASSUME ModInv, [ModNext]_allVars PROVE QuietInv'
  OBVIOUS
<1> USE DEF QuietInv, Loading, Quiet, At, RemoveAt
<1> QuietInv /\ StageInv /\ DmaInv /\ ModTypeOK
  BY DEF ModInv
<1>1. CASE Fault \/ UserStep \/ UNCHANGED allVars
  BY <1>1
  DEF Fault, UserStep, UserOpen, UserClose, UserRead, moduleVars, allVars, vars,
      irqVars, workVars
<1>2. CASE RingStep
  <2>1. UNCHANGED moduleVars
    BY <1>2, RingStepFacts
  <2>2. CASE DeviceStep
    BY <2>1, <2>2
    DEF DeviceStep, Receive, Latch, moduleVars, irqVars, workVars, ModTypeOK,
        TypeOK
  <2>3. CASE HandlerStep
    BY <2>1, <2>3
    DEF HandlerStep, Irq, IrqNone, IrqEnter, IrqMaskAll, IrqReadLed, IrqLedOn,
        IrqSchedule, IrqAck, IrqUnmask, moduleVars
  <2>4. CASE WorkStep
    BY <2>1, <2>4 DEF WorkStep, WorkRuns, moduleVars
  <2> QED BY <1>2, <2>2, <2>3, <2>4 DEF RingStep
<1>3. CASE InitStep
  BY <1>3
  DEF InitStep, Insmod, InitChrdev, InitCdev, InitDriver, InitClass, InitNode,
      vars, irqVars, workVars
<1>4. CASE ProbeStep
  BY <1>4 DEF ProbeStep, ProbeEnable, ProbeRegions, ProbeMap, ProbeWork,
              vars, irqVars, workVars
<1>5. CASE DmaStep
  BY <1>5 DEF DmaStep, DmaReset, DmaRing, DmaBuffers, DmaReceiveOn,
              DmaRequestIrq, DmaEnableIrq, DmaInv, vars, irqVars, workVars
<1>6. CASE RemoveStep
  BY <1>6 DEF RemoveStep, StartRemove, Remove, RemoveFreeIrq, RemoveFreeIrqWait,
              RemoveDisable, RemoveFreeRing, RemoveUnmap, StageInv, Bindable,
              vars, irqVars, workVars
<1>7. CASE ExitStep
  BY <1>7 DEF ExitStep, Rmmod, ExitCancel, ExitCancelWait, ExitDrop,
              ExitDevices, StageInv, Exiting, vars, irqVars, workVars
<1> QED BY <1>1, <1>2, <1>3, <1>4, <1>5, <1>6, <1>7, StepKinds

(* Every step keeps the invariant. *)
LEMMA ModInvStep == ModInv /\ [ModNext]_allVars => ModInv'
BY ModTypeStep, StageStep, HeldStep, HandlerInvStep, DmaInvStep, QuietStep
DEF ModInv

(* It holds through the life of the module. *)
LEMMA ModInvariant == ModSpec => []ModInv
BY ModInitInv, ModInvStep, PTL DEF ModSpec

-----------------------------------------------------------------------------
(* The module's life stays in its type: no thread of it ends up outside    *)
(* the steps of hw6.c:164-584, no ring index leaves the ring.              *)
THEOREM ModTypeCorrect == ModSpec => []ModTypeOK
BY ModInvariant, PTL DEF ModInv

(* Whatever fails and whenever the device is unbound, irq_handler          *)
(* (hw6.c:199-221) runs only between request_irq and the end of free_irq,  *)
(* and inside that time its mapping and its work are there.                *)
THEOREM HandlerAlwaysSafe == ModSpec => []HandlerSafe
<1>1. ModInv => HandlerSafe
  BY DEF ModInv, HandlerInv, HeldInv, StageInv, Bindable, HandlerSafe,
         HandlerUses
<1> QED BY <1>1, ModInvariant, PTL

(* Whatever fails and whenever the device is unbound, the device writes    *)
(* only into a ring that is allocated and mapped (hw6.c:299-350, 382-390), *)
(* but for one that goes on without heeding pci_disable_device, after the  *)
(* ring is freed: RCTL.EN is never cleared.                                *)
THEOREM DmaAlwaysIntoRing == ModSpec => []DmaIntoRing
<1>1. ModInv => DmaIntoRing
  BY DEF ModInv, DmaInv, HeldInv, DmaIntoRing, DeviceGone, AfterProbe, Loading,
         ModTypeOK, Pcs, DmaKinds
<1> QED BY <1>1, ModInvariant, PTL

-----------------------------------------------------------------------------
(* An insmod that goes on has registered what its place says, and one      *)
(* that fails has released what the code releases.                         *)
LEMMA LoadStep == ModInv /\ LoadInv /\ [ModNext]_allVars => LoadInv'
<1> SUFFICES ASSUME ModInv, LoadInv, [ModNext]_allVars PROVE LoadInv'
  OBVIOUS
<1> USE DEF LoadInv, FailedLoadLeaves, Quiet, At, RemoveAt, Acquire, Release
<1>1. CASE RingStep \/ Fault \/ UserStep \/ UNCHANGED allVars
  BY <1>1, RingStepFacts
  DEF Fault, UserStep, UserOpen, UserClose, UserRead, moduleVars, allVars
<1>2. CASE InitStep
  BY <1>2
  DEF InitStep, Insmod, InitChrdev, InitCdev, InitDriver, InitClass, InitNode
<1>3. CASE ProbeStep
  BY <1>3 DEF ProbeStep, ProbeEnable, ProbeRegions, ProbeMap, ProbeWork
<1>4. CASE DmaStep
  BY <1>4 DEF DmaStep, DmaReset, DmaRing, DmaBuffers, DmaReceiveOn,
              DmaRequestIrq, DmaEnableIrq
<1>5. CASE RemoveStep
  BY <1>5 DEF RemoveStep, StartRemove, Remove, RemoveFreeIrq, RemoveFreeIrqWait,
              RemoveDisable, RemoveFreeRing, RemoveUnmap
<1>6. CASE ExitStep
  BY <1>6 DEF ExitStep, Rmmod, ExitCancel, ExitCancelWait, ExitDrop,
              ExitDevices, ModInv, StageInv, Exiting
<1> QED BY <1>1, <1>2, <1>3, <1>4, <1>5, <1>6, StepKinds

(* This holds through the life of the module. *)
LEMMA LoadInvariant == ModSpec => []LoadInv
<1>1. ModInit => LoadInv
  BY DEF ModInit, LoadInv, FailedLoadLeaves
<1> QED BY <1>1, LoadStep, ModInvariant, PTL DEF ModSpec

(* A failed insmod leaves nothing, or the cdev and its numbers             *)
(* (hw6.c:524-562), whichever of its calls fails.                          *)
THEOREM FailedLoad == ModSpec => []FailedLoadLeaves
BY LoadInvariant, PTL DEF LoadInv

(* Every step of the teardown releases what it should, when the probe has  *)
(* not stopped between pci_enable_device and its end.                      *)
LEMMA ReleaseStep ==
  ASSUME Failures \cap {"regions", "mapping"} = {}
  PROVE  ModInv /\ LoadInv /\ ReleaseInv /\ [ModNext]_allVars => ReleaseInv'
<1> SUFFICES ASSUME ModInv, LoadInv, ReleaseInv, [ModNext]_allVars
             PROVE  ReleaseInv'
  OBVIOUS
<1> USE DEF ReleaseInv, Quiet, At, RemoveAt, Acquire, Release
<1> StageInv /\ held \subseteq Resources
  BY DEF ModInv, ModTypeOK
<1>1. CASE RingStep \/ Fault \/ UserStep \/ UNCHANGED allVars
  BY <1>1, RingStepFacts
  DEF Fault, UserStep, UserOpen, UserClose, UserRead, moduleVars, allVars
<1>2. CASE InitStep
  BY <1>2
  DEF InitStep, Insmod, InitChrdev, InitCdev, InitDriver, InitClass, InitNode,
      LoadInv, StageInv, Loading, Bindable
<1>3. CASE ProbeStep
  BY <1>3 DEF ProbeStep, ProbeEnable, ProbeRegions, ProbeMap, ProbeWork,
              StageInv, Loading, Bindable
<1>4. CASE DmaStep
  BY <1>4 DEF DmaStep, DmaReset, DmaRing, DmaBuffers, DmaReceiveOn,
              DmaRequestIrq, DmaEnableIrq, StageInv, Loading,
              Bindable
<1>5. CASE RemoveStep
  BY <1>5 DEF RemoveStep, StartRemove, Remove, RemoveFreeIrq, RemoveFreeIrqWait,
              RemoveDisable, RemoveFreeRing, RemoveUnmap, Resources, Loading,
              StageInv, Bindable
<1>6. CASE ExitStep
  BY <1>6 DEF ExitStep, Rmmod, ExitCancel, ExitCancelWait, ExitDrop,
              ExitDevices, StageInv, Bindable, Loading
<1> QED BY <1>1, <1>2, <1>3, <1>4, <1>5, <1>6, StepKinds

(* rmmod gives everything back but test_wq and the rx_ring structure       *)
(* (hw6.c:362-394 and 566-584), also of a module whose device was absent   *)
(* or was unbound, unless a probe stopped half way: that one leaves the    *)
(* device enabled (hw6.c:244-255).                                         *)
THEOREM Unload ==
  ASSUME Failures \cap {"regions", "mapping"} = {}
  PROVE  ModSpec => []UnloadReleases
<1>1. ModInit => ReleaseInv
  BY DEF ModInit, ReleaseInv
<1>2. ReleaseInv => UnloadReleases
  BY DEF ReleaseInv, UnloadReleases
<1> QED BY <1>1, <1>2, ReleaseStep, LoadInvariant, ModInvariant, PTL DEF ModSpec

-----------------------------------------------------------------------------
(* The receive path.                                                       *)

LEMMA PathStep ==
  ASSUME ~IrqMayStall
  PROVE  ModInv /\ PathInv /\ [ModNext]_allVars => PathInv'
<1> SUFFICES ASSUME ModInv, PathInv, [ModNext]_allVars PROVE PathInv'
  OBVIOUS
<1> USE DEF PathInv, Quiet, At, RemoveAt
<1> StageInv /\ QuietInv /\ TypeOK
  BY DEF ModInv, ModTypeOK
<1> DEFINE Path == MaskSaved /\ ClearedBeforeLook /\ LowRingNoticed
<1>1. UNCHANGED vars => UNCHANGED <<Free, ICR, RDH, RDT>> /\ (Path => Path')
  BY DEF vars, irqVars, workVars, deviceVars, Free, MaskSaved,
         ClearedBeforeLook, LowRingNoticed
<1>2. CASE RingStep
  <2>1. Next /\ UNCHANGED moduleVars
    BY <1>2, RingStepFacts
  <2>2. Path => Path'
    BY <2>1, MaskSavedStep, ClearedBeforeLookStep, LowRingStep
  <2>3. pc \in {"buffers", "rctl", "irq", "ims"} => DeviceStep /\ rxOn
    BY <1>2
    DEF RingStep, DeviceStep, HandlerStep, WorkStep, WorkRuns, QuietInv,
        StageInv, Bindable, Loading, Irq, IrqNone, IrqEnter, IrqMaskAll,
        IrqReadLed, IrqLedOn, IrqSchedule, IrqAck, IrqUnmask
  <2>4. pc \notin {"buffers", "rctl"}
    BY <2>3 DEF ModInv, DmaInv, Loading
  <2>5. ASSUME pc \in {"irq", "ims"}, NEW p \in Packet, Receive(p)
        PROVE  Free' <= MinThreshold => ICR'
    <3>1. Free' = (RDT - Succ(RDH)) % N /\ Free' = Free - 1 /\ Free \in Slots
      BY <2>5, FreeFacts, DistanceFacts DEF Receive, Free, TypeOK
    <3>2. Free' = MinThreshold => ICR'
      BY <2>5, <3>1 DEF Receive
    <3>3. Free' # MinThreshold /\ Free' <= MinThreshold => Free <= MinThreshold
      BY <3>1, RingAssumption DEF Slots
    <3>4. ICR => ICR'
      BY <2>5 DEF Receive
    <3> QED BY <2>5, <3>1, <3>2, <3>3, <3>4, RingAssumption DEF Slots
  <2>6. pc \in {"irq", "ims"} => (Free' <= MinThreshold => ICR')
    BY <2>3, <2>5 DEF DeviceStep
  <2> QED BY <2>1, <2>2, <2>4, <2>6 DEF moduleVars
<1>3. CASE Fault \/ UserStep \/ UNCHANGED allVars
  <2>1. UNCHANGED <<vars, pc, remPc, bound>>
    BY <1>3 DEF Fault, UserStep, UserOpen, UserClose, UserRead, moduleVars,
                allVars
  <2> QED BY <1>1, <2>1
<1>4. CASE InitStep
  <2>1. UNCHANGED <<vars, bound>>
    BY <1>4
    DEF InitStep, Insmod, InitChrdev, InitCdev, InitDriver, InitClass, InitNode
  <2>2. /\ pc' \notin {"buffers", "rctl", "irq", "ims"}
        /\ bound /\ pc' \in {"class", "node", "in"} => pc \in {"class", "node"}
    BY <1>4
    DEF InitStep, Insmod, InitChrdev, InitCdev, InitDriver, InitClass, InitNode,
        StageInv, Bindable
  <2> QED BY <1>1, <2>1, <2>2
<1>5. CASE ProbeStep
  <2>1. pc' \notin {"buffers", "rctl", "irq", "ims"} /\ ~bound'
    BY <1>5 DEF ProbeStep, ProbeEnable, ProbeRegions, ProbeMap, ProbeWork,
                StageInv, Bindable
  <2> QED BY <2>1
<1>6. CASE DmaStep
  <2>1. ~bound
    BY <1>6 DEF DmaStep, DmaReset, DmaRing, DmaBuffers, DmaReceiveOn,
                DmaRequestIrq, DmaEnableIrq, StageInv, Bindable
  <2>2. CASE DmaReset \/ DmaRing \/ DmaBuffers
    BY <2>1, <2>2 DEF DmaReset, DmaRing, DmaBuffers, vars, deviceVars
  <2>3. CASE DmaReceiveOn
    <3>1. Free = N - 1 /\ N - 1 > MinThreshold
      BY <2>3, RingAssumption DEF DmaReceiveOn, Free
    <3>2. ~(Free' <= MinThreshold)
      BY <1>1, <2>3, <3>1, RingAssumption DEF DmaReceiveOn
    <3> QED BY <2>1, <2>3, <3>2 DEF DmaReceiveOn
  <2>4. CASE DmaRequestIrq
    BY <1>1, <2>1, <2>4 DEF DmaRequestIrq
  <2>5. CASE DmaEnableIrq
    <3>1. /\ IMS' /\ (ICR => intx') /\ irqPc = "idle"
          /\ UNCHANGED <<ICR, irqPc>> /\ Free' = Free
      BY <2>1, <2>5
      DEF DmaEnableIrq, Latch, StageInv, QuietInv, Loading, deviceVars, irqVars,
          Free
    <3>2. MaskSaved' /\ ClearedBeforeLook'
      BY <3>1 DEF MaskSaved, ClearedBeforeLook
    <3>3. LowRingNoticed'
      BY <2>5, <3>1 DEF DmaEnableIrq, LowRingNoticed
    <3>4. pc' = "class"
      BY <2>5 DEF DmaEnableIrq
    <3> QED BY <3>2, <3>3, <3>4
  <2> QED BY <1>6, <2>2, <2>3, <2>4, <2>5 DEF DmaStep
<1>7. CASE RemoveStep
  <2>1. UNCHANGED <<vars, pc>> /\ (bound' => bound)
    BY <1>7
    DEF RemoveStep, StartRemove, Remove, RemoveFreeIrq, RemoveFreeIrqWait,
              RemoveDisable, RemoveFreeRing, RemoveUnmap
  <2> QED BY <1>1, <2>1
<1>8. CASE ExitStep
  BY <1>8 DEF ExitStep, Rmmod, ExitCancel, ExitCancelWait, ExitDrop,
              ExitDevices
<1> QED BY <1>2, <1>3, <1>4, <1>5, <1>6, <1>7, <1>8, StepKinds

(* How make_DMA hands the ring over: nothing of the receive path runs and  *)
(* the ring is empty until RCTL lets the device receive; and it can go on  *)
(* as long as the device is bound.                                         *)
HandoverInv ==
  /\ ~rxOn => /\ irqPc = "idle" /\ workPc = "idle"
              /\ pending => pc = "cancelWait"
  /\ pc \in {"buffers", "rctl"} => RDH = 0 /\ RDT = N - 1
  /\ TailAhead

(* A step that leaves the receive path alone leaves the hand-over alone.   *)
LEMMA QuietHandover ==
  ASSUME HandoverInv, UNCHANGED vars, rxOn' = rxOn, pc' # "buffers",
         pc' = "rctl" => pc = "buffers",
         pc = "cancelWait" => pc' = "cancelWait"
  PROVE  HandoverInv'
BY DEF HandoverInv, TailAhead, Succ, vars, deviceVars, irqVars, workVars

(* The receive path is started with an empty ring and found at rest, and   *)
(* the work stays ahead of the tail.                                       *)
LEMMA HandoverStep == ModInv /\ HandoverInv /\ [ModNext]_allVars => HandoverInv'
<1> SUFFICES ASSUME ModInv, HandoverInv, [ModNext]_allVars PROVE HandoverInv'
  OBVIOUS
<1> USE DEF Quiet, At, RemoveAt
<1> StageInv /\ QuietInv /\ HandlerInv /\ DmaInv /\ TypeOK
  BY DEF ModInv, ModTypeOK
<1>1. CASE RingStep
  <2>1. Next /\ UNCHANGED moduleVars
    BY <1>1, RingStepFacts
  <2>2. TailAhead'
    BY <2>1, TailAheadStep DEF HandoverInv
  <2>3. rxOn
    <3>1. CASE DeviceStep
      BY <3>1 DEF DeviceStep
    <3>2. CASE HandlerStep
      BY <3>2 DEF HandlerStep, HandlerInv, DmaInv
    <3>3. CASE WorkStep
      BY <3>3 DEF WorkStep, WorkRuns, HandoverInv
    <3> QED BY <1>1, <3>1, <3>2, <3>3 DEF RingStep
  <2>4. pc \notin {"buffers", "rctl"}
    BY <2>3 DEF DmaInv, Loading
  <2> QED BY <2>1, <2>2, <2>3, <2>4 DEF HandoverInv, moduleVars
<1>2. CASE Fault \/ UserStep \/ UNCHANGED allVars
  <2>1. UNCHANGED <<vars, pc, remPc, bound, rxOn>>
    BY <1>2 DEF Fault, UserStep, UserOpen, UserClose, UserRead, moduleVars,
                allVars
  <2> QED BY <2>1 DEF HandoverInv, TailAhead, Succ, vars, deviceVars, irqVars,
                      workVars
<1>3. CASE InitStep
  BY <1>3, QuietHandover
  DEF InitStep, Insmod, InitChrdev, InitCdev, InitDriver, InitClass, InitNode,
      HandoverInv
<1>4. CASE ProbeStep
  <2>1. CASE ProbeEnable \/ ProbeRegions \/ ProbeMap
    BY <2>1, QuietHandover DEF ProbeEnable, ProbeRegions, ProbeMap, HandoverInv
  <2>2. CASE ProbeWork
    <3>1. /\ pc' = "reset" /\ ~rxOn /\ ~bound
          /\ UNCHANGED <<rxOn, bound, irqPc, workPc, pending>>
      BY <2>2 DEF ProbeWork, StageInv, Bindable, DmaInv, Loading, irqVars,
                  workVars
    <3>2. workPc' = "idle" /\ irqPc' = "idle" /\ ~pending'
      BY <2>2, <3>1 DEF ProbeWork, HandoverInv
    <3> QED BY <3>1, <3>2 DEF HandoverInv, TailAhead
  <2> QED BY <1>4, <2>1, <2>2 DEF ProbeStep
<1>5. CASE DmaStep
  <2>1. ~bound /\ ~unloading /\ irqPc = "idle" /\ workPc = "idle" /\ ~pending
    BY <1>5 DEF DmaStep, DmaReset, DmaRing, DmaBuffers, DmaReceiveOn,
                DmaRequestIrq, DmaEnableIrq, StageInv, Bindable, QuietInv,
                Loading
  <2>2. irqPc' = "idle" /\ workPc' = "idle" /\ ~pending'
    BY <1>5, <2>1 DEF DmaStep, DmaReset, DmaRing, DmaBuffers, DmaReceiveOn,
                DmaRequestIrq, DmaEnableIrq, vars, irqVars, workVars
  <2>3. pc' \in {"buffers", "rctl"} => RDH' = 0 /\ RDT' = N - 1
    BY <1>5, <2>1
    DEF DmaStep, DmaReset, DmaRing, DmaBuffers, DmaReceiveOn, DmaRequestIrq,
        DmaEnableIrq, HandoverInv, vars, deviceVars
  <2> QED BY <2>2, <2>3 DEF HandoverInv, TailAhead
<1>6. CASE RemoveStep
  BY <1>6, QuietHandover
  DEF RemoveStep, StartRemove, Remove, RemoveFreeIrq, RemoveFreeIrqWait, RemoveDisable,
      RemoveFreeRing, RemoveUnmap, StageInv, Bindable
<1>7. CASE ExitStep
  <2>1. CASE Rmmod \/ ExitDrop \/ ExitDevices
    BY <2>1, QuietHandover DEF Rmmod, ExitDrop, ExitDevices, HandoverInv
  <2>2. CASE ExitCancel \/ ExitCancelWait
    <3>1. /\ UNCHANGED <<RDH, RDT, rxOn, bound, irqPc, workPc, workTail>>
          /\ pc' \in {"cancelWait", "unregister"}
          /\ pending' => pc' = "cancelWait"
      BY <2>2 DEF ExitCancel, ExitCancelWait, deviceVars, irqVars, workVars
    <3> QED BY <3>1 DEF HandoverInv, TailAhead, Succ
  <2> QED BY <1>7, <2>1, <2>2 DEF ExitStep
<1> QED BY <1>1, <1>2, <1>3, <1>4, <1>5, <1>6, <1>7, StepKinds

(* This holds through the life of the module. *)
LEMMA HandoverInvariant == ModSpec => []HandoverInv
<1>1. ModInit => HandoverInv
  BY DEF ModInit, HandoverInv, TailAhead
<1> QED BY <1>1, HandoverStep, ModInvariant, PTL DEF ModSpec

(* Through the whole life of the module, its probe, unbinding and teardown *)
(* included, thread_function never looks at or hands back a descriptor the *)
(* device may write (hw6.c:172-184).                                       *)
THEOREM WorkerAlwaysOwns == ModSpec => []WorkerOwnsDescriptor
<1>1. ModInv /\ HandoverInv => WorkerOwnsDescriptor
  BY AheadOwns DEF ModInv, ModTypeOK, HandoverInv
<1> QED BY <1>1, ModInvariant, HandoverInvariant, PTL

(* The module, whatever of it fails and whenever its device is unbound,    *)
(* implements the queue: packets leave it in the order they came, each at  *)
(* most once and unaltered (hw6.c:172-184, 299-350, 382-394).              *)
THEOREM ModuleRefinement == ModSpec => ModuleIsQueue
<1>1. ModInit => ModQueue!Init
  BY DEF ModInit, ModQueue!Init, Waiting
<1>2. ModInv /\ HandoverInv /\ [ModNext]_allVars
        => [ModQueue!Next]_(ModQueue!queueVars)
  <2> SUFFICES ASSUME ModInv, HandoverInv, [ModNext]_allVars
               PROVE  [ModQueue!Next]_(ModQueue!queueVars)
    OBVIOUS
  <2> USE DEF Quiet, At, RemoveAt
  <2> StageInv /\ QuietInv /\ DmaInv /\ TypeOK
    BY DEF ModInv, ModTypeOK
  <2>1. UNCHANGED vars => UNCHANGED <<Unseen, workDesc>>
    BY DEF vars, deviceVars, workVars, Unseen, Free
  <2>2. CASE RingStep
    <3>1. Next /\ UNCHANGED moduleVars
      BY <2>2, RingStepFacts
    <3>2. rxOn
      <4>1. CASE DeviceStep
        BY <4>1 DEF DeviceStep
      <4>2. CASE HandlerStep
        BY <4>2 DEF HandlerStep, ModInv, HandlerInv, DmaInv
      <4>3. CASE WorkStep
        BY <4>3 DEF WorkStep, WorkRuns, HandoverInv
      <4> QED BY <2>2, <4>1, <4>2, <4>3 DEF RingStep
    <3>3. Waiting = Unseen /\ Waiting' = Unseen'
      BY <3>1, <3>2 DEF Waiting, moduleVars
    <3>4. [Queue!Next]_(Queue!queueVars)
      BY <3>1, QueueStep DEF HandoverInv
    <3> QED BY <3>3, <3>4
        DEF Queue!Next, Queue!Arrive, Queue!Handle, Queue!queueVars,
            ModQueue!Next, ModQueue!Arrive, ModQueue!Handle, ModQueue!queueVars
  <2>3. CASE DmaReceiveOn
    <3>1. RDH = 0 /\ RDT = N - 1 /\ ~rxOn /\ workPc = "idle"
      BY <2>3 DEF DmaReceiveOn, HandoverInv, DmaInv, Loading
    <3>2. Free = N - 1
      BY <3>1, RingAssumption DEF Free
    <3>3. Unseen = <<>>
      BY <3>1, <3>2, EmptyRing DEF TypeOK
    <3>4. Waiting = <<>> /\ Waiting' = <<>> /\ workDesc' = workDesc
      BY <2>1, <2>3, <3>1, <3>3 DEF DmaReceiveOn, Waiting, vars, workVars
    <3> QED BY <3>4 DEF ModQueue!queueVars
  <2>4. CASE ProbeWork \/ DmaReset \/ DmaRing
    <3>1. ~rxOn /\ ~rxOn' /\ workDesc' = workDesc
      BY <2>4 DEF ProbeWork, DmaReset, DmaRing, DmaInv, Loading, workVars
    <3> QED BY <3>1 DEF ModQueue!queueVars, Waiting
  <2>5. CASE DmaEnableIrq \/ ExitCancel \/ ExitCancelWait
    <3>1. UNCHANGED <<rxOn, RDH, RDT, rxDE, workPc, workDesc>>
      BY <2>5 DEF DmaEnableIrq, ExitCancel, ExitCancelWait, deviceVars, workVars
    <3> QED BY <3>1 DEF ModQueue!queueVars, Waiting, Unseen, Free
  <2>6. ASSUME UNCHANGED <<vars, rxOn>>
        PROVE  [ModQueue!Next]_(ModQueue!queueVars)
    BY <2>1, <2>6 DEF ModQueue!queueVars, Waiting
  <2> QED BY <2>2, <2>3, <2>4, <2>5, <2>6, StepKinds
      DEF InitStep, Insmod, InitChrdev, InitCdev, InitDriver, InitClass,
          InitNode, ProbeStep, ProbeEnable, ProbeRegions, ProbeMap, DmaStep,
          DmaBuffers, DmaRequestIrq, RemoveStep, StartRemove, Remove, RemoveFreeIrq,
          RemoveFreeIrqWait, RemoveDisable, RemoveFreeRing, RemoveUnmap,
          ExitStep, Rmmod, ExitDrop, ExitDevices, UserStep, UserOpen,
          UserClose, UserRead, Fault, moduleVars, allVars
<1> QED BY <1>1, <1>2, ModInvariant, HandoverInvariant, PTL
        DEF ModSpec, ModuleIsQueue, ModQueue!Spec

(* From the end of the probe (hw6.c:359) until the device is unbound or    *)
(* rmmod starts no wake-up is lost, although packets come in since RCTL    *)
(* (hw6.c:350); provided no call of irq_handler outlasts msleep(500).      *)
THEOREM BoundRing ==
  ASSUME ~IrqMayStall PROVE ModSpec => []BoundRingNoticed
<1>1. ModInit => PathInv
  BY DEF ModInit, PathInv
<1>2. PathInv => BoundRingNoticed
  BY DEF PathInv, BoundRingNoticed
<1> QED BY <1>1, <1>2, PathStep, ModInvariant, PTL DEF ModSpec

-----------------------------------------------------------------------------
(* What can go wrong.                                                      *)

(* A step of thread_function that lacks something comes after the removal  *)
(* of the device, or without one, or in rmmod.                             *)
LEMMA FaultCause ==
  ASSUME ModInv, Fault
  PROVE  /\ pending \/ workPc # "idle"
         /\ unloading \/ (rxOn /\ DeviceGone)
<1> StageInv /\ HeldInv /\ HandlerInv /\ QuietInv
  BY DEF ModInv
<1>1. irqPc # "idle" => HandlerUses \subseteq held
  BY DEF HandlerUses, HandlerInv, HeldInv, StageInv, Bindable
<1>2. WorkRuns /\ ~(WorkUses \subseteq held)
  BY <1>1 DEF Fault
<1>3. pending \/ workPc # "idle"
  BY <1>2 DEF WorkRuns
<1>4. bound /\ remPc # "unmap" => WorkUses \subseteq held
  BY DEF WorkUses, HeldInv, StageInv, Bindable
<1>5. pc \in AfterProbe /\ (rxOn \/ unloading)
  BY <1>3 DEF QuietInv, ModInv, ModTypeOK, Pcs, Loading, AfterProbe
<1> QED BY <1>2, <1>3, <1>4, <1>5 DEF DeviceGone

(* Whatever fails and whenever root unbinds the device, beside insmod and  *)
(* rmmod too, an oops has one of the three causes: work queued behind      *)
(* cancel_work_sync, rmmod of a module that never was complete, and work   *)
(* or a read that finds the device gone (hw6.c:241, 382, 422, 532, 538 and *)
(* 571-584).                                                               *)
THEOREM OopsCauses == ModSpec => OopsHasCause
<1> DEFINE Cause == \/ unloading /\ (pending \/ workPc # "idle")
                    \/ unloading /\ ~({"work", "class"} \subseteq held)
                    \/ /\ ~unloading /\ DeviceGone
                       /\ \/ rxOn /\ (pending \/ workPc # "idle")
                          \/ pc = "in" /\ opens > 0
<1>1. ModInv /\ [ModNext]_allVars => [oops' /\ ~oops => Cause]_allVars
  <2> SUFFICES ASSUME ModInv, [ModNext]_allVars, oops', ~oops PROVE Cause
    OBVIOUS
  <2> StageInv /\ HeldInv
    BY DEF ModInv
  <2>1. CASE InitStep \/ ProbeStep \/ DmaStep \/ RemoveStep \/ RingStep
             \/ UNCHANGED allVars
    BY <2>1, RingStepFacts
    DEF InitStep, Insmod, InitChrdev, InitCdev, InitDriver, InitClass, InitNode,
        ProbeStep, ProbeEnable, ProbeRegions, ProbeMap, ProbeWork, DmaStep,
        DmaReset, DmaRing, DmaBuffers, DmaReceiveOn, DmaRequestIrq,
        DmaEnableIrq, RemoveStep, StartRemove, Remove, RemoveFreeIrq, RemoveFreeIrqWait,
        RemoveDisable, RemoveFreeRing, RemoveUnmap, Quiet, moduleVars, allVars
  <2>2. CASE ExitStep
    BY <2>2 DEF ExitStep, Rmmod, ExitCancel, ExitCancelWait, ExitDrop,
                ExitDevices, At, Quiet, StageInv, Exiting
  <2>3. CASE UserStep
    <3>1. opens > 0 /\ "mapping" \notin held
      BY <2>3 DEF UserStep, UserOpen, UserClose, UserRead
    <3>2. ~unloading /\ pc = "in" /\ ~bound
      BY <3>1 DEF StageInv, HeldInv
    <3> QED BY <3>1, <3>2 DEF DeviceGone, AfterProbe
  <2>4. CASE Fault
    BY <2>4, FaultCause
  <2> QED BY <2>1, <2>2, <2>3, <2>4, StepKinds
<1> QED BY <1>1, ModInvariant, PTL DEF ModSpec, OopsHasCause

(* Without a failure that insmod passes over, and without unbinding, the   *)
(* module stays complete.                                                  *)
LEMMA WholeStep ==
  ASSUME ~MayUnbind,
         Failures \cap {"device", "regions", "mapping", "class"} = {}
  PROVE  ModInv /\ WholeInv /\ [ModNext]_allVars => WholeInv'
<1> SUFFICES ASSUME ModInv, WholeInv, [ModNext]_allVars PROVE WholeInv'
  OBVIOUS
<1> USE DEF WholeInv, OopsIsLateWork, Quiet, At, RemoveAt, Acquire, Release
<1> StageInv /\ HeldInv
  BY DEF ModInv
<1>1. CASE RingStep \/ UNCHANGED allVars
  BY <1>1, RingStepFacts
  DEF RingStep, DeviceStep, HandlerStep, WorkStep, moduleVars, allVars, vars,
      irqVars, workVars
<1>2. CASE Fault
  <2>1. (pending \/ workPc # "idle") /\ unloading
    BY <1>2, FaultCause
       DEF DeviceGone, AfterProbe, StageInv, Exiting, ModInv, DmaInv
  <2> QED BY <1>2, <2>1 DEF Fault, vars, workVars
<1>3. CASE UserStep
  <2>1. opens > 0 => "mapping" \in held
    BY DEF StageInv, HeldInv
  <2>2. ~oops'
    BY <1>3, <2>1 DEF UserStep, UserOpen, UserClose, UserRead
  <2>3. UNCHANGED <<pc, remPc, unloading, bound, held>>
    BY <1>3 DEF UserStep, UserOpen, UserClose, UserRead
  <2> QED BY <2>2, <2>3
<1>4. CASE InitStep
  BY <1>4
  DEF InitStep, Insmod, InitChrdev, InitCdev, InitDriver, InitClass, InitNode,
      Bindable, Exiting
<1>5. CASE ProbeStep
  BY <1>5 DEF ProbeStep, ProbeEnable, ProbeRegions, ProbeMap, ProbeWork,
              Bindable, Exiting
<1>6. CASE DmaStep
  BY <1>6 DEF DmaStep, DmaReset, DmaRing, DmaBuffers, DmaReceiveOn,
              DmaRequestIrq, DmaEnableIrq, Bindable, Exiting
<1>7. CASE RemoveStep
  BY <1>7 DEF RemoveStep, StartRemove, Remove, RemoveFreeIrq, RemoveFreeIrqWait,
              RemoveDisable, RemoveFreeRing, RemoveUnmap, Bindable, Exiting
<1>8. CASE ExitStep
  <2>1. CASE Rmmod
    BY <2>1 DEF Rmmod, Bindable, Exiting
  <2>2. CASE ExitCancel
    BY <2>2 DEF ExitCancel, HeldInv, Bindable, Exiting
  <2>3. CASE ExitCancelWait \/ ExitDrop
    BY <2>3 DEF ExitCancelWait, ExitDrop, StageInv, Bindable, Exiting
  <2>4. CASE ExitDevices
    BY <2>4 DEF ExitDevices, StageInv, Exiting, vars, workVars
  <2> QED BY <1>8, <2>1, <2>2, <2>3, <2>4 DEF ExitStep
<1> QED BY <1>1, <1>2, <1>3, <1>4, <1>5, <1>6, <1>7, <1>8, StepKinds

(* When the device is there, stays bound, and neither its probe nor        *)
(* class_create fails, the only oops is late work: what irq_handler queued *)
(* behind cancel_work_sync (hw6.c:571) outlives what it uses.              *)
THEOREM OopsLate ==
  ASSUME ~MayUnbind,
         Failures \cap {"device", "regions", "mapping", "class"} = {}
  PROVE  ModSpec => []OopsIsLateWork
<1>1. ModInit => WholeInv
  BY DEF ModInit, WholeInv, OopsIsLateWork, Bindable, Exiting
<1>2. WholeInv => OopsIsLateWork
  BY DEF WholeInv
<1> QED BY <1>1, <1>2, WholeStep, ModInvariant, PTL DEF ModSpec
=============================================================================
