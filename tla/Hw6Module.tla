----------------------------- MODULE Hw6Module -----------------------------
(***************************************************************************)
(* One life of the HW6 module, from insmod to the end of rmmod, around the *)
(* receive path of RxRing: blinkDriver_init, the PCI probe with make_DMA,  *)
(* open and read of /dev/ECE_LED, example5_exit, and the PCI remove, which *)
(* rmmod calls or root, by unbinding the device beside insmod and rmmod.   *)
(* irq_handler and thread_function keep running, wherever the life of the  *)
(* module stands, as soon and as long as they can be called.               *)
(*                                                                         *)
(* held is what the module has acquired and not given back.  Code that     *)
(* runs without something it uses is an oops, and no behaviour is          *)
(* described after one.  Memory is never short.                            *)
(***************************************************************************)
EXTENDS RxRing, FiniteSets

CONSTANTS
  Failures,       \* the calls that may fail, "device" for no device to probe
  MayUnbind,      \* whether root may unbind the device through sysfs
  Devices,        \* the devices that may be there: see dma
  MaxOpens        \* how many descriptors of /dev/ECE_LED may be open (bound)

Calls == {"chrdev", "cdev", "driver", "device", "enable", "regions",
          "mapping", "irq", "class", "node"}

DmaKinds == {"off", "on", "always"}

ASSUME ModuleAssumption ==
  /\ Failures \subseteq Calls
  /\ MayUnbind \in BOOLEAN
  /\ Devices \subseteq DmaKinds
  /\ MaxOpens \in Nat

VARIABLES
  pc,             \* next step of insmod or rmmod
  remPc,          \* next step of a PCI remove under way
  unloading,      \* example5_exit has been called
  bound,          \* the probe has accepted the device
  held,           \* what the module holds
  rxOn,           \* RCTL.EN
  dma,            \* can the device write memory: "off" not, "on" until
                  \* pci_disable_device, "always" whatever that call does
  opens,          \* open files: the use count of the module
  reading,        \* a read() of one of them is under way
  oops            \* the kernel has hit something that is not there

moduleVars == <<pc, remPc, unloading, bound, held, rxOn, dma, opens, reading,
                oops>>
allVars == <<vars, moduleVars>>

Resources == {"text", "chrdev", "cdev", "driver", "class", "node", "enabled",
              "regions", "mapping", "work", "ring", "bufinfo", "desc",
              "buffers", "irq"}

Pcs == {"out", "chrdev", "cdev", "driver", "enable", "regions", "ioremap",
        "work", "reset", "ring", "buffers", "rctl", "irq", "ims", "class",
        "node", "in", "cancel", "cancelWait", "unregister", "devices", "gone"}

RemPcs == {"none", "freeIrq", "freeIrqWait", "disable", "freeRing", "unmap"}

ModTypeOK ==
  /\ TypeOK
  /\ pc \in Pcs /\ remPc \in RemPcs /\ dma \in DmaKinds
  /\ held \subseteq Resources /\ opens \in 0 .. MaxOpens
  /\ {unloading, bound, rxOn, reading, oops} \subseteq BOOLEAN

(* The device as the reset leaves it, or nobody having used it.  Its bus   *)
(* mastering bit is as firmware or an earlier driver left it: hw6.c does   *)
(* not set it, pci_enable_device (hw6.c:231) neither.  The sessions of the *)
(* repository show it both ways (hw3Script:5 and 62) and the device of     *)
(* hw6Script receiving after its driver had cleared it: one that does not  *)
(* heed the bit, "always".                                                 *)
ModInit ==
  /\ RDH = 0 /\ RDT = 0 /\ rxDE = [i \in Slots |-> NoPacket]
  /\ ICR = FALSE /\ IMS = FALSE /\ intx = FALSE /\ LEDCTL = {1}
  /\ irqPc = "idle" /\ irqMask = FALSE /\ irqLed = {}
  /\ pending = FALSE /\ overlap = FALSE
  /\ workPc = "idle" /\ workTail = 0 /\ workDesc = NoPacket /\ workLed = {}
  /\ pc = "out" /\ remPc = "none" /\ unloading = FALSE /\ bound = FALSE
  /\ held = {} /\ rxOn = FALSE /\ dma \in Devices
  /\ opens = 0 /\ reading = FALSE /\ oops = FALSE

-----------------------------------------------------------------------------
(* Steps of the thread that runs insmod or rmmod.                          *)

At(from, to) == ~oops /\ pc = from /\ pc' = to /\ UNCHANGED remPc
Acquire(what) == held' = held \cup what
Release(what) == held' = held \ what

(* A step which touches no register. *)
Quiet == UNCHANGED <<vars, unloading, bound, rxOn, dma, opens, reading, oops>>

Insmod == At("out", "chrdev") /\ Acquire({"text"}) /\ Quiet

InitChrdev ==
  /\ \/ At("chrdev", "cdev") /\ Acquire({"chrdev"})
     \/ "chrdev" \in Failures /\ At("chrdev", "gone") /\ Release({"text"})
  /\ Quiet

(* Slip: the device numbers are kept. *)
InitCdev_KeepsNumbers ==
  /\ \/ At("cdev", "driver") /\ Acquire({"cdev"})
     \/ "cdev" \in Failures /\ At("cdev", "gone") /\ Release({"text"})
  /\ Quiet

InitCdev ==
  /\ \/ At("cdev", "driver") /\ Acquire({"cdev"})
     \/ "cdev" \in Failures /\ At("cdev", "gone") /\ Release({"text", "chrdev"})
  /\ Quiet

(* The probe runs inside pci_register_driver.  When that fails, unwinding  *)
(* unregisters the driver that is not registered and the class that is not *)
(* there, all of it without effect, and the module is dropped.             *)
InitDriver ==
  /\ \/ At("driver", "enable") /\ Acquire({"driver"})
     \/ "device" \in Failures /\ At("driver", "class") /\ Acquire({"driver"})
     \/ "driver" \in Failures /\ At("driver", "gone") /\ Release({"text"})
  /\ Quiet

(* class_create and device_create report failure with an error pointer,    *)
(* which is not NULL: the module goes on without class or node.            *)
InitClass ==
  /\ At("class", "node")
  /\ \/ Acquire({"class"})
     \/ "class" \in Failures /\ UNCHANGED held
  /\ Quiet

InitNode ==
  /\ At("node", "in")
  /\ \/ "class" \in held /\ Acquire({"node"})
     \/ ("node" \in Failures \/ "class" \notin held) /\ UNCHANGED held
  /\ Quiet

-----------------------------------------------------------------------------
(* pci_blinkDriver_probe and make_DMA.  A probe that fails leaves the      *)
(* driver registered, without a device, and the device enabled.            *)

(* Enabling sets power state and memory decoding, not bus mastering.  Its  *)
(* result is not looked at.  A device that could not be enabled may answer *)
(* no access, and receive nothing; or it works, and then the later         *)
(* pci_disable_device finds its count wrong and returns without effect.    *)
ProbeEnable ==
  /\ At("enable", "regions")
  /\ \/ Acquire({"enabled"}) /\ UNCHANGED dma
     \/ /\ "enable" \in Failures /\ UNCHANGED held
        /\ dma' \in {"off", IF dma = "off" THEN "off" ELSE "always"}
  /\ UNCHANGED <<vars, unloading, bound, rxOn, opens, reading, oops>>

ProbeRegions ==
  /\ \/ At("regions", "ioremap") /\ Acquire({"regions"})
     \/ "regions" \in Failures /\ At("regions", "class") /\ UNCHANGED held
  /\ Quiet

ProbeMap ==
  /\ \/ At("ioremap", "work") /\ Acquire({"mapping"})
     \/ "mapping" \in Failures /\ At("ioremap", "class") /\ Release({"regions"})
  /\ Quiet

ProbeWork ==
  /\ At("work", "reset")
  /\ Acquire({"work"})
  /\ LEDCTL' = {2}
  /\ UNCHANGED <<deviceVars, RDT, ICR, IMS, intx, irqVars, pending, workVars,
                 overlap, unloading, bound, rxOn, dma, opens, reading, oops>>

DmaReset ==
  /\ At("reset", "ring")
  /\ Acquire({"ring"})
  /\ RDH' = 0 /\ RDT' = 0 /\ ICR' = FALSE /\ IMS' = FALSE /\ rxOn' = FALSE
  /\ LEDCTL' \in {LEDCTL, {1}}
  /\ UNCHANGED <<rxDE, intx, irqVars, pending, workVars, overlap, unloading,
                 bound, dma, opens, reading, oops>>

(* Slip: the tail starts at the head, and the ring is full from the start. *)
DmaRing_TailAtHead ==
  /\ At("ring", "buffers")
  /\ Acquire({"bufinfo", "desc"})
  /\ rxDE' = [i \in Slots |-> NoPacket]
  /\ RDH' = 0 /\ RDT' = 0
  /\ UNCHANGED <<ICR, IMS, intx, LEDCTL, irqVars, pending, workVars, overlap,
                 unloading, bound, rxOn, dma, opens, reading, oops>>

DmaRing ==
  /\ At("ring", "buffers")
  /\ Acquire({"bufinfo", "desc"})
  /\ rxDE' = [i \in Slots |-> NoPacket]
  /\ RDH' = 0 /\ RDT' = N - 1
  /\ UNCHANGED <<ICR, IMS, intx, LEDCTL, irqVars, pending, workVars, overlap,
                 unloading, bound, rxOn, dma, opens, reading, oops>>

DmaBuffers == At("buffers", "rctl") /\ Acquire({"buffers"}) /\ Quiet

DmaReceiveOn ==
  /\ At("rctl", "irq")
  /\ rxOn' = TRUE
  /\ UNCHANGED <<vars, held, unloading, bound, dma, opens, reading, oops>>

(* The result of request_irq is stored and not looked at. *)
DmaRequestIrq ==
  /\ At("irq", "ims")
  /\ \/ Acquire({"irq"})
     \/ "irq" \in Failures /\ UNCHANGED held
  /\ Quiet

(* Slip: the interrupt is never enabled. *)
DmaEnableIrq_Forgotten ==
  /\ At("ims", "class")
  /\ bound' = TRUE
  /\ UNCHANGED <<vars, held, unloading, rxOn, dma, opens, reading, oops>>

(* Packets have been coming in since RCTL: the cause may be up already. *)
DmaEnableIrq ==
  /\ At("ims", "class")
  /\ IMS' = TRUE
  /\ Latch(ICR, IMS')
  /\ bound' = TRUE
  /\ UNCHANGED <<deviceVars, RDT, ICR, LEDCTL, irqVars, pending, workVars,
                 overlap, held, unloading, rxOn, dma, opens, reading, oops>>

-----------------------------------------------------------------------------
(* pci_blinkDriver_remove, in the thread of whoever asks first: the driver *)
(* core calls it once for a bound device, under the lock the probe holds.  *)

RemoveAt(from, to) == ~oops /\ remPc = from /\ remPc' = to /\ UNCHANGED pc

StartRemove ==
  bound /\ RemoveAt("none", "freeIrq") /\ UNCHANGED held /\ Quiet

(* Root writes the address of the device to the driver's unbind file.  It  *)
(* is there from the end of the probe in pci_register_driver (hw6.c:532)   *)
(* until pci_unregister_driver (hw6.c:573) has removed it, waiting for who *)
(* writes to it: beside the rest of insmod, while the module is loaded and *)
(* beside rmmod.  A device is bound in that time and in no other.          *)
Unbind == MayUnbind /\ StartRemove

(* free_irq first stops new calls of the handler, then waits for the end   *)
(* of the one that runs.                                                   *)
RemoveFreeIrq ==
  RemoveAt("freeIrq", "freeIrqWait") /\ Release({"irq"}) /\ Quiet

(* Slip: the running handler is not waited for. *)
RemoveFreeIrqWait_Not ==
  RemoveAt("freeIrqWait", "disable") /\ UNCHANGED held /\ Quiet

RemoveFreeIrqWait ==
  /\ irqPc = "idle"
  /\ RemoveAt("freeIrqWait", "disable")
  /\ UNCHANGED held /\ Quiet

(* Slip: the device is left enabled. *)
RemoveDisable_Not ==
  RemoveAt("disable", "freeRing") /\ UNCHANGED held /\ Quiet

(* pci_disable_device clears the bus mastering bit and nothing else: with  *)
(* RCTL.EN left set, that ends the reception of a device which heeds it.   *)
RemoveDisable ==
  /\ RemoveAt("disable", "freeRing")
  /\ Release({"enabled"})
  /\ dma' = IF dma = "on" THEN "off" ELSE dma
  /\ UNCHANGED <<vars, unloading, bound, rxOn, opens, reading, oops>>

(* Slip: the buffers the descriptors point to are kept. *)
RemoveFreeRing_NoBuffers ==
  RemoveAt("freeRing", "unmap") /\ Release({"desc", "bufinfo"}) /\ Quiet

(* dma_freeUp. *)
RemoveFreeRing ==
  /\ RemoveAt("freeRing", "unmap")
  /\ Release({"buffers", "desc", "bufinfo"})
  /\ Quiet

RemoveUnmap ==
  /\ RemoveAt("unmap", "none")
  /\ Release({"mapping", "regions"})
  /\ bound' = FALSE
  /\ UNCHANGED <<vars, unloading, rxOn, dma, opens, reading, oops>>

-----------------------------------------------------------------------------
(* example5_exit.                                                          *)

(* Slip: .owner is not set and an open file does not count as a use. *)
Rmmod_NoOwner ==
  /\ At("in", "cancel")
  /\ unloading' = TRUE
  /\ UNCHANGED <<vars, bound, held, rxOn, dma, opens, reading, oops>>

(* rmmod is refused while the module is in use. *)
Rmmod ==
  /\ At("in", "cancel")
  /\ opens = 0
  /\ unloading' = TRUE
  /\ UNCHANGED <<vars, bound, held, rxOn, dma, opens, reading, oops>>

(* cancel_work_sync takes the work off the queue and keeps it pending, so  *)
(* that schedule_work cannot queue it, until a running call has ended.     *)
(* test_wq is NULL when no probe came as far as allocating it.             *)
ExitCancel ==
  /\ At("cancel", "cancelWait")
  /\ pending' = TRUE
  /\ oops' = ("work" \notin held)
  /\ UNCHANGED <<deviceVars, RDT, ICR, IMS, intx, LEDCTL, irqVars, workVars,
                 overlap, unloading, bound, held, rxOn, dma, opens, reading>>

ExitCancelWait ==
  /\ At("cancelWait", "unregister")
  /\ workPc = "idle"
  /\ pending' = FALSE
  /\ UNCHANGED <<deviceVars, RDT, ICR, IMS, intx, LEDCTL, irqVars, workVars,
                 overlap, unloading, bound, held, rxOn, dma, opens, reading,
                 oops>>

(* pci_unregister_driver removes the device, or waits for the remove that  *)
(* root has started, and ends when no device is bound.                     *)
ExitUnregister ==
  \/ pc = "unregister" /\ StartRemove
  \/ ~bound /\ At("unregister", "devices") /\ Release({"driver"}) /\ Quiet

(* Node, class, cdev and numbers go and the module is freed.  Destroying   *)
(* the device of a class that is an error pointer, and work that is queued *)
(* or running when its code is freed, hit what is not there.               *)
ExitDevices ==
  /\ At("devices", "gone")
  /\ Release({"cdev", "chrdev", "node", "class", "text"})
  /\ oops' = ("class" \notin held \/ pending \/ workPc # "idle")
  /\ UNCHANGED <<vars, unloading, bound, rxOn, dma, opens, reading>>

-----------------------------------------------------------------------------
(* User programs: open, read and close /dev/ECE_LED.                       *)

UserOpen ==
  /\ ~oops /\ "node" \in held /\ ~unloading
  /\ opens < MaxOpens
  /\ opens' = opens + 1
  /\ UNCHANGED <<vars, pc, remPc, unloading, bound, held, rxOn, dma, reading,
                 oops>>

UserClose ==
  /\ ~oops /\ opens > (IF reading THEN 1 ELSE 0)
  /\ opens' = opens - 1
  /\ UNCHANGED <<vars, pc, remPc, unloading, bound, held, rxOn, dma, reading,
                 oops>>

(* example5_read, from its first register read to its second. *)
UserRead ==
  /\ ~oops /\ opens > 0
  /\ reading' = ~reading
  /\ oops' = ("mapping" \notin held)
  /\ UNCHANGED <<vars, pc, remPc, unloading, bound, held, rxOn, dma, opens>>

-----------------------------------------------------------------------------
(* The receive path, as far as the module lets it run.                     *)

DeviceStep ==
  /\ ~oops /\ rxOn /\ dma # "off"
  /\ \E p \in Packet : Receive(p)
  /\ UNCHANGED moduleVars

HandlerUses == {"text", "mapping", "work"}

HandlerStep ==
  /\ ~oops
  /\ irqPc = "idle" => "irq" \in held
  /\ HandlerUses \subseteq held
  /\ Irq
  /\ UNCHANGED moduleVars

(* What the next step of thread_function needs to be there. *)
WorkUses ==
  IF workPc = "idle" THEN {"text", "work"}
  ELSE {"text", "mapping"} \cup (IF workPc = "inspect"
                                 THEN {"ring", "bufinfo", "desc"} ELSE {})

(* Slip: flush_work instead of cancel_work_sync: work may start meanwhile. *)
WorkRuns_Flush == workPc # "idle" \/ pending

(* cancel_work_sync holds the pending bit: nothing is queued that can run. *)
WorkRuns == workPc # "idle" \/ (pending /\ pc # "cancelWait")

WorkStep ==
  /\ ~oops
  /\ WorkRuns /\ WorkUses \subseteq held
  /\ Work
  /\ UNCHANGED moduleVars

(* Whatever runs without what it needs. *)
Fault ==
  /\ ~oops
  /\ \/ irqPc # "idle" /\ ~(HandlerUses \subseteq held)
     \/ WorkRuns /\ ~(WorkUses \subseteq held)
  /\ oops' = TRUE
  /\ UNCHANGED <<vars, pc, remPc, unloading, bound, held, rxOn, dma, opens,
                 reading>>

-----------------------------------------------------------------------------
(* The steps of insmod and rmmod, and those of a remove, once asked for.   *)
Thread ==
  \/ InitChrdev \/ InitCdev \/ InitDriver \/ InitClass \/ InitNode
  \/ ProbeEnable \/ ProbeRegions \/ ProbeMap \/ ProbeWork
  \/ DmaReset \/ DmaRing \/ DmaBuffers \/ DmaReceiveOn \/ DmaRequestIrq
  \/ DmaEnableIrq
  \/ ExitCancel \/ ExitCancelWait \/ ExitUnregister \/ ExitDevices

Remove ==
  \/ RemoveFreeIrq \/ RemoveFreeIrqWait \/ RemoveDisable \/ RemoveFreeRing
  \/ RemoveUnmap

ModNext ==
  \/ Insmod \/ Unbind \/ Rmmod \/ Thread \/ Remove
  \/ UserOpen \/ UserClose \/ UserRead
  \/ DeviceStep \/ HandlerStep \/ WorkStep \/ Fault

ModSpec == ModInit /\ [][ModNext]_allVars

(* The kernel runs the threads that called insmod or rmmod and the remove, *)
(* the handler and the work queue; nothing is assumed of the network, the  *)
(* users and root.                                                         *)
ModFairness ==
  /\ WF_allVars(Thread)
  /\ WF_allVars(Remove)
  /\ WF_allVars(HandlerStep)
  /\ WF_allVars(WorkStep \/ Fault)

ModFairSpec == ModSpec /\ ModFairness

-----------------------------------------------------------------------------
(* irq_handler never runs without the mapping it reads the registers       *)
(* through and the work it schedules: request_irq (hw6.c:353) comes after  *)
(* both, free_irq (hw6.c:386) waits for a running call before they go.     *)
HandlerSafe == irqPc # "idle" => HandlerUses \subseteq held

(* A remove has freed the ring, or the probe accepted no device: no ring   *)
(* is there any more, or none has ever been filled.                        *)
AfterProbe == {"class", "node", "in", "cancel", "cancelWait", "unregister",
               "devices", "gone"}
DeviceGone == remPc = "unmap" \/ (~bound /\ pc \in AfterProbe)

(* The device writes packets only into a ring that is allocated and mapped,*)
(* while it is set up (hw6.c:299-350), as long as it is bound and while it *)
(* is removed, up to dma_freeUp (hw6.c:390).  From then on the bus         *)
(* mastering bit that pci_disable_device clears (hw6.c:387) is all that    *)
(* keeps it from the freed ring, RCTL.EN staying set: a device that does   *)
(* not heed the bit, and no other, goes on writing there.                  *)
DmaIntoRing ==
  rxOn /\ dma # "off" =>
    \/ {"ring", "desc", "buffers"} \subseteq held
    \/ dma = "always" /\ DeviceGone

(* From the end of the probe on no wake-up is lost, although the device    *)
(* receives packets between RCTL (hw6.c:350) and IMS (hw6.c:359), when no  *)
(* interrupt can be delivered.                                             *)
BoundRingNoticed ==
  bound /\ pc \in {"class", "node", "in"} => LowRingNoticed

(* The packets that wait: none until RCTL.EN lets the device fill the ring.*)
Waiting == IF rxOn THEN Unseen ELSE <<>>

ModQueue == INSTANCE RxQueue WITH Capacity <- N - 1, queue <- Waiting,
                                  last <- workDesc

(* From insmod to the end of rmmod the receive path is one first-in        *)
(* first-out queue: make_DMA hands over an empty ring (hw6.c:299-350), and *)
(* no packet is lost, repeated or made up by unbinding the device or by    *)
(* the teardown (hw6.c:382-394 and 571-584), whatever fails.               *)
ModuleIsQueue == ModQueue!Spec

(* When no call fails and the device is not unbound, one thing can go      *)
(* wrong in the life of the module: work that irq_handler queued after     *)
(* cancel_work_sync (hw6.c:571) is still there when what it uses goes.  No *)
(* read of /dev/ECE_LED and no call of irq_handler meets a module that is  *)
(* being set up or torn down.                                              *)
OopsIsLateWork == oops => unloading /\ (pending \/ workPc # "idle")

(* Whatever call fails and whenever root unbinds the device, beside insmod *)
(* and rmmod too, the kernel oopses in three situations only: late work as *)
(* above; rmmod of a module whose insmod went on without a device or a     *)
(* class (hw6.c:241, 538 and 571-584); and in a module that is not being   *)
(* unloaded, work that has outlived the ring of an unbound device, which   *)
(* may be before insmod has returned, or a read of a node whose device is  *)
(* gone or never was (hw6.c:382 and 422).  Before the probe has ended, and *)
(* then while the ring of the bound device is there, nothing goes wrong.   *)
OopsHasCause ==
  [][oops' /\ ~oops =>
       \/ unloading /\ (pending \/ workPc # "idle")
       \/ unloading /\ ~({"work", "class"} \subseteq held)
       \/ /\ ~unloading /\ DeviceGone
          /\ \/ rxOn /\ (pending \/ workPc # "idle")
             \/ pc = "in" /\ opens > 0]_allVars

(* What rmmod leaves behind is at most test_wq and the rx_ring structure   *)
(* (hw6.c:362-394 and 566-584).                                            *)
UnloadReleases == pc = "gone" /\ unloading => held \subseteq {"work", "ring"}

(* rmmod ends, although cancel_work_sync waits for thread_function, which  *)
(* irq_handler keeps being able to queue, and free_irq for irq_handler     *)
(* (hw6.c:571 and 386).  It is for traffic that lets the loop of           *)
(* thread_function end: see Led0GoesOff.                                   *)
UnloadEnds == []<>(workPc = "idle") => (unloading ~> pc = "gone" \/ oops)

(* "Just a standard module cleanup function" (hw6.c:565): after rmmod of a *)
(* module that loaded, nothing of it runs into what is no longer there.    *)
UnloadIsClean == unloading => ~oops

(* An insmod that fails leaves nothing registered (hw6.c:526-527), except  *)
(* after pci_register_driver, where it leaves the cdev and its numbers     *)
(* (hw6.c:534 and 551-562).                                                *)
FailedLoadLeaves ==
  pc = "gone" /\ ~unloading => held \in {{}, {"chrdev", "cdev"}}
=============================================================================
