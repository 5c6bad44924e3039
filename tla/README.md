# Specifications of the ECE 373 drivers

TLA+ specifications, TLC configurations and TLAPS proofs for the Linux drivers of this repository. The programs are small; what is
hard about them is that interrupt handlers, work functions, timer callbacks, system calls, insmod and rmmod run at the same time on
shared registers and variables without a lock. File and line references are to `src/HW6/hw6.c` where no file is named.

## Inventory

| Component | State | Operations | Interacts with | Hard behaviour | What makes it correct |
|---|---|---|---|---|---|
| HW6 receive path | descriptor ring, RDH, RDT, ICR, IMS, LEDCTL, the work item's pending bit | device receives; `irq_handler`; `thread_function` | the three share the ring and the registers; handler queues the work | every interleaving of register accesses; the interrupt cause is cleared after the work is queued | the ring is a FIFO, the work touches only its own descriptors, no wake-up is lost, LED 0 goes off |
| HW6 life cycle | what the module holds: numbers, cdev, driver, class, node, regions, mapping, work, ring memory, irq | `blinkDriver_init`, probe, `make_DMA`, unbind, remove, `example5_exit` | starts and stops the receive path while it runs | order of set-up and teardown against interrupts and work; each call may fail | nothing runs without what it uses, nothing is left, rmmod ends |
| HW6 character device | use count, registers read | open, read, write, close | keeps rmmod out; reads through the mapping | two register reads for one value | reads see a mapping; the pair read never promises more packets than there are |
| HW5 blink timer (`HW5/hw5.c`) | timer, `blink_rate`, `LED`, `openTracker`; mapping, class, node | insmod and probe; first open starts the timer, the callback sets it again; write and parameter change the rate; unbind; exit | users, root, timer softirq | racing first opens; `del_timer` against the callback; a module without a device or a class; int overflow | one timer, never lost, right period, even blinking, nothing used that is not there |
| HW3 LED driver (`HW3/hw3.c`) and its user program (`userSpace.c`) | `led_current_val`, `syscall_val`, LEDCTL; mapping, cdev; an offset per file | insmod, probe, remove, rmmod; open, read, write; the program's seven calls | the calls of all programs share the variable and the register | reads and writes on several CPUs; a node that works before, after and without the device | a program reads back what it wrote, the LED is off in the end, no call outlives the module |
| HW3 `ledmon.c` | none; decodes LEDCTL and the link speed in sysfs | `get_led_state`, `print_leds` | reads the register other programs write | one LEDCTL but four reads of the speed; a speed that cannot be read | the picture shows what the LED does |
| HW2 character device (`hw2.c`, `part3.c`) | `syscall_val`, a file offset per open | open, read, write | processes share `syscall_val` | another open resets the value | each program finds 40, and reads back its 17 |
| HW4 (`hw4.c`) | LEDCTL, RCTL through /dev/mem | save, walk over the LEDs, restore | other copies, `ledmon`, any driver of the device | the registers are shared; a copy may be killed | the value found is restored, one LED blinks at a time |
| `src/hw6.c` | as HW6 | as HW6 | | | an older copy, different only in the descriptor's layout |
| HW1, HW7, build products, logs | none | printing; kernel build files | | | nothing to specify |

Memory is shared as follows: in HW6, handler and work share LEDCTL, ICR/IMS (handler only after the probe), the pending bit and the
ring; the device shares the ring. In HW5, opens, writes, the parameter and the callback share `blink_rate`, `LED`, `openTracker` and
the timer. HW4 and `ledmon` map the device themselves, beside whatever driver it has. `PROJECT.json` lists every hazard at its line.

## Plan

1. `RxQueue`, `RxRing`, `RxRingProofs`: the receive path. *Done.*
2. `Hw6Module`: its life cycle, around it. *Done.*
3. `BlinkTimer`: HW5. `LedFile`, `LedFileProofs`: HW3 with copies of its user program. `CharDev`: HW2 with copies of its own. *Done.*
4. `RxStatus`: `example5_read` and `user.c` on top of `RxRing`. *Done.*
5. `LedModule`, `LedModuleProofs`: the life of HW3's module around `LedFile`. *Done.*
6. `LedWalk`: HW4, several copies, with `LedMon` watching the register. *Done.*
7. Proofs: every invariant and every action property of the runs that pass, and the refinement of `RxQueue` by `RxRing` and by the whole
   life of the module: `Hw6ModuleProofs`, `RxStatusProofs`, `BlinkTimerProofs`, `CharDevProofs`, `LedMonProofs` and more in the others. *Done.*

The abstract specification worth stating is `RxQueue`; two modules are shown to implement it. Bounds: rings of
2, 3 and 4, one or two packets, two users; see below. No module with theorems uses a RECURSIVE operator.

## Modules

**`RxQueue`** is what the receive path promises: an atomic bounded FIFO. `Arrive` is the device taking a packet, `Handle` the work
looking at it.

**`RxRing`** is the receive path while the driver is bound. The device may fill the descriptors from RDH up to, not including, RDT;
`thread_function` processes the one after RDT until that would be RDH, and hands each back by writing RDT.
* One action is one register access, as other actors can step in between. `IrqNone` to `IrqUnmask` are `irq_handler` (199-221),
  `WorkStart` to `WorkShowTail` are `thread_function` (156-196). A read of RDT followed by one of RDH (`WorkTest`) is one action:
  only the work writes RDT. Likewise IMS is read and cleared in one action (`IrqMaskAll`): only the handler writes it.
* LEDCTL is the set of LEDs that are on; `WorkShowTail` clears LED 3 with LED 1 because the mask in line 189, `0xFFF7FFF`, is one digit short.
* ICR and IMS are their RXDMT0 bit. Whether reading ICR clears it is left open (`IrqEnter`): it depends on the interrupt mode, and the
  handler clears it again itself.
* External: the device (`Receive`, with the interrupt when `MinThreshold` descriptors are left), interrupt delivery (`Latch`: a request
  stays until the handler is called), the work queue (a work item runs once at a time; it may be queued again while it runs).
* `overlap` serves `IrqMayStall`: with `IrqMayStall = FALSE`, a handler call that runs when `msleep(500)` begins has ended when it returns.
* `Unseen` is the refinement mapping: the descriptors between RDT and RDH, without the one the work has just looked at.
* `irq_handler` and `thread_function` both read, change and write LEDCTL without a lock. Turning on LED 0 may so put back an old LED 1;
  LED 0 itself always goes off again (`Led0GoesOff`).

**`RxStatus`** extends `RxRing` with a program that reads the ring's state: `ReadHead` and `ReadTail` are the two register reads of
`example5_read` (422, 423), `Pack`, `ShownHead` and `ShownTail` what it and `HW6/user.c` do with them. `overtaken` is a history variable:
`thread_function` has moved RDT on to the head that was read. Then the pair looks like a nearly full ring; otherwise it is a lower
bound of what waits (`StatusIsLowerBound`).

**`Hw6Module`** extends `RxRing`. `pc` is the next step of the thread in insmod or rmmod, `remPc` that of a PCI remove, `held` is what the
module holds. All steps of `RxRing` stay possible at any `pc`, as far as they can be called: the device receives while RCTL.EN is set and
it can write memory (`dma`), the handler is called while the irq is requested, the work runs while it is pending. `DmaReset` to
`DmaEnableIrq` are `make_DMA` (290-360), `RemoveFreeIrq` to `RemoveUnmap` are remove (382-394), `ExitCancel` to `ExitDevices` are
`example5_exit`.
* Remove is called once for a bound device, by rmmod in `pci_unregister_driver` (`ExitUnregister`) or by root, who unbinds the device through
  sysfs (`Unbind`). The driver's unbind file is there as soon as the probe has ended inside `pci_register_driver` (532) and until rmmod
  unregisters the driver (573): root's remove runs beside `class_create` and `device_create` (537-549), beside the loaded module and beside
  `cancel_work_sync`; `pci_unregister_driver` waits for it. So late work can oops before insmod has returned.
* `dma` is whether the device can write memory. `hw6.c` never calls `pci_set_master`, and `pci_enable_device` (231) does not set the bus
  mastering bit, so the bit is as firmware or another driver left it ("on" or "off": `HW3/hw3Script:5` and `:62` show both, the second after
  e1000 has been unbound). `pci_disable_device` (387) clears the bit and nothing else; RCTL.EN stays set. In the session of `HW6/hw6Script`
  e1000 is unbound too (line 34), and the device then receives for hw6: one that does not heed the bit is "always". `Devices` is the set of
  kinds a run has.
  After `dma_freeUp` (390) such a device goes on writing into freed memory. `DmaIntoRing` states that as its one exception: it is a
  defect the code has on such a device, and not excluded by the model.
* The result of `pci_enable_device` is not looked at ("enable" in `Failures`): then the device may be out of reach of DMA, or work, and the later
  `pci_disable_device` has no effect on it, as its enable count is wrong.

`cancel_work_sync` and `free_irq` are two actions each, since they block new calls first and then wait for the running one. Code that
needs something not in `held` sets `oops`, after which nothing is described. The model covers one life of the module and no lack of
memory (the code does not check for it). `ModuleIsQueue` is `RxQueue` again, under the refinement mapping `Waiting`: nothing waits until
RCTL lets the device receive (350), from then on it is `Unseen`, also while remove and `example5_exit` go on.

**`BlinkTimer`** is `HW5/hw5.c`. `InitChrdev` to `InitNode` are `blinkDriver_init` with the probe; after a failed `pci_register_driver` the
cdev and its numbers stay registered, without a node (277-280, 296-299). `Rebind` is unbinding and binding through sysfs, from the return
of `pci_register_driver` until rmmod unregisters the driver. The parameter may be set to a negative rate, which nothing checks. A probe that fails does not make insmod fail, nor does `class_create` or `device_create`, whose error pointers are not
NULL; `made` and `mapped` are what there is in the end. `OpenEnter` to `OpenMark` are the steps of `example5_open` other CPUs can come
between; `Fire` to `CbRearm` are the timer and `my_callback`; `Rmmod` to `ExitFree` are `example5_exit` with remove. `opened` is a
history variable: an open has reset `LED` since a callback last wrote it. `OopsHasCause` names the situations in which the kernel meets
something that is not there; one is `del_timer` returning while `my_callback` runs, which sets the timer again (79) in a module that
goes. `Write` is one step:
`HW5/hw5.o` shows that the compiler checks and stores a value it keeps in a register. The product `blink_rate * 1000` wraps around as
the kernel is built (`-fno-strict-overflow`; `imul` and `sar` in `hw5.o`). `msecs_to_jiffies` takes a negative number for the longest
delay there is; such a timer does not expire (`Expires`). `timer_setup` on a queued timer corrupts the timer wheel and is an oops.

**`LedFile`** is the calls of `HW3/hw3.c` and any number of copies of `HW3/userSpace.c`. `pc` is the program's next call,
named for the variable of `main` it sets (`rz`, `wz`, `rz2`, `wz2`), `at` the place inside the driver. `ReadBegin`, `ReadStore` and
`ReadCopy` are the instructions of `example5_read` other CPUs can come between, `WriteStore` and `WriteCtl` those of `example5_write`,
in the order of `HW3/hw3.o`. An open may fail, as it does in `hw3Script` before the `chmod`; the calls on that file then return -1
(`NoFile`). LEDCTL reads as what was last written to it (external; `hw3Script` shows it). `others` is a history variable: what the
driver has done for other programs between a program's first write and the end of its second read. Lack of memory, faults in the copies
to and from the user (the program's buffers are valid) and killed programs are left out. `led_current_val` is shared by all calls
without a lock: a read that stores what it loaded before another program's write can give that program the old value back, so
`ReadsBack` is for a program no other call comes between.

**`LedModule`** puts these calls into the life of the module. `Insmod` goes up to `cdev_add` (241), from where the node works; `Probe`,
`NoDevice` and `RegisterFails` are the outcomes of `pci_register_driver`, `Rebind` is sysfs, `Rmmod` is refused while a file is open.
`Calling` is a step of `LedFile` that finds its registers and its module, `Fault` one that does not. `RegisterFails` is what happens
when HW3 is loaded while HW5 is, as both have the driver name "Blink Driver": the module goes and the kernel keeps its cdev (`dangling`)
and the files opened meanwhile (`lost`). A file is closed as soon as its program has made its last call on it.

**`LedWalk`** is any number of copies of `HW4/hw4.c`; each goes back to "idle" when it has ended or is killed and may be run again. LEDCTL
is the byte of each LED. An access to LEDCTL is one action (`Pair`, `Dark`, `Top`, `Load` and `Store`, `Restore`). History variables:
`running` are the copies between save and restore in the order they saved, `tangled` that one of them was killed or ended before a later
one, `disturbed` that another has written LEDCTL since a copy's own last write. A killed copy leaves LEDCTL in the middle of the walk, and
the next takes that for the starting value, as in `HW4/LEDscript` (0x800080); nested runs restore it (`StartingValueRestored`).

**`LedMon`** extends `LedWalk` with `HW3/ledmon.c`: `Look` reads LEDCTL, `LookAtLed` decodes a LED with `get_led_state`, which reads the
speed of the link each time, `Show` prints. `LinkChanges` is external: the speed file is absent (`NoFile`), holds a speed or -1, or cannot
be read; then the code uses an uninitialized buffer, and `SpeedRead` is any speed. `during` and `stale` are history variables: what the
file held during this picture, and whether LEDCTL has changed since it was read.

**`CharDev`** is `HW2/hw2.c`, any number of copies of `HW2/part3.c` and root with insmod and rmmod. Each call touches `syscall_val`
once, so a call is one action. `pc` is the program's next call. `offset` is moved by `example5_read` by the length asked for, 10, and
not by `example5_write`; the open file keeps the module loaded (`.owner`). The programs open the node by its name, so they may find no
module behind it (`OpenFails`). `others` is a history variable: which calls of other programs have changed `syscall_val` since the
program itself did last.

The modules whose name begins with `MC` instantiate these for TLC. A definition whose name ends in `_Something` and whose comment
begins with "Slip" is a plausible mistake in the definition that follows it: with the slip in its place the property it is listed with in
`PROJECT.json` is violated. It is no part of the specification.

## Runs

| Run | Configuration | Bounds | Shows |
|---|---|---|---|
| `ring_safety` | `RxStatus_safety.cfg` | ring of 3, threshold 1, 2 packets (symmetric), a reader, handler may stall | types; `WorkerOwnsDescriptor`; `StatusIsLowerBound`; `RingIsQueue` |
| `ring_wakeup` | `RxRing_wakeup.cfg` | ring of 4, 1 packet, fair | `LowRingNoticed`; `FullRingGetsRoom`; `Led0GoesOff`; no deadlock |
| `module_life` | `Hw6Module_life.cfg` | ring of 2, threshold 0, one packet, one open file, no failure, a device bus mastering does not stop, fair | `OopsIsLateWork`; `UnloadReleases`; `UnloadEnds` |
| `module_failures` | `Hw6Module_failures.cfg` | ring of 3, threshold 1, 2 packets, one open file, every call may fail, unbind, all kinds of device; view `SafetyView` | types; `HandlerSafe`; `DmaIntoRing`; `FailedLoadLeaves`; `BoundRingNoticed`; `OopsHasCause`; `ModuleIsQueue` |
| `module_late_work` | `Hw6Module_late_work.cfg` | no failure | violation of `UnloadIsClean`: work queued after `cancel_work_sync` |
| `led_copies` | `LedModule_copies.cfg` | 2 copies of `userSpace.c` (symmetric), 2 loads, no device or driver name taken, LEDCTL as in `hw3Script` | types; `ReadsBack`; `LedsOff`; `CallsTransfer`; `OopsHasCause` |
| `blink` | `BlinkTimer_blink.cfg` | 2 users, written rates -1 (refused), 0, 2, 5, 13 (overflows), parameter -2, 0, 2, 5, every call of insmod may fail, unbind, fair | types with no negative rate through write; `TimerKept`; `BlinksOn`; `RateTakesEffect`; `BlinkIsEven`; `OopsHasCause` |
| `blink_opens` | `BlinkTimer_opens.cfg` | 2 users | violation of `OneCreation` |
| `char_copies` | `CharDev_copies.cfg` | 3 copies of `part3.c` (symmetric), any number of loads and unloads | types; `StartsAt40`; `UpdatedIs17`; no deadlock |
| `led_walk` | `LedWalk_copies.cfg` | 2 copies of `hw4.c` (symmetric), 2 rounds, any number of runs and kills | types; `StartingValueRestored`; `OneLedAtATime`; no deadlock |
| `led_watch` | `LedMon_watch.cfg` | 1 copy of `hw4.c`, 1 round, 5 contents of the speed file | types; `EachLedOfSomeMoment`; `WalkIsSeen`; no deadlock |
| `mon_default` | `LedMon_default.cfg` | no speed file | violation of `DefaultShownOff`: LED 1 of the default configuration is shown as lit |

Each violation is a finding in `PROJECT.json` with the words of the source it contradicts.

*Why the bounds are enough.* A ring of 4 has head and tail wrap at different moments, is full, empty and at its threshold, and has even and
odd slots; two packet values tell a lost, repeated or swapped one apart. With a second packet value and a reader 3 descriptors are used,
enough to wrap, fill and be passed by the tail; the theorems below cover every other size. Where every call of
the life cycle may fail and root unbinds, 3 is used with two packet values, so that order, repetition and invention of packets can show in
`ModuleIsQueue`. Its `SafetyView` leaves out the LEDs, which decide no step, descriptors that do not wait to be looked at, what was seen in
the last one and local variables outside the steps that use them: no later step and no property of that run depends on their value
(`ModuleIsQueue` looks at the last packet only in the step that sets it). Liveness (`module_life`) needs the whole state, so no view, and is about threads that wait for
each other: a ring of 2, empty or full, is enough. No counter is bounded otherwise; `MaxOpens` limits the open files, of which one is
enough to refuse rmmod. Three copies in `CharDev` let a third program come between two that already interfere; each makes a fixed number of calls. In
`LedModule` two loads let a program meet a module that was loaded again; `LedModuleProofs` is for every number of copies and loads.
Two rounds of `LedWalk` go through the turn from one to the next; a picture of `LedMon` sees one round at most.
In `BlinkTimer` the int and the second are scaled down together: 13 is to them what 2147484 is to the code: its
product wraps around to a negative delay. `BlinksOn` and `RateTakesEffect` except that case by name, so a run with 13 shows that it is the
only rate write accepts that stops the LED; a negative parameter does, too.

*Deadlock* is checked in `ring_wakeup`, `char_copies`, `led_walk` and `led_watch`, and in `ring_safety`, where it says nothing, as the
reader can always go on: a stalled handler may lose the last wake-up of a full ring there. The
modules of `Hw6Module` and `BlinkTimer` are gone after rmmod, the programs of `LedFile` end, and an oops ends everything, so there it is off.

*Fairness.* `RxRing`: an interrupt that is requested is delivered, the handler runs on, the work queue runs queued work: the kernel
guarantees each. Nothing is assumed of packets arriving. `Led0GoesOff` and `UnloadEnds` are for traffic that lets the loop of
`thread_function` end again and again (`[]<>(workPc = "idle")`), since the loop has no budget and a device that refills the ring as
fast as it is emptied holds it for ever. `Hw6Module` adds the thread that called insmod or rmmod and, by itself, the remove. `BlinkTimer`: a timer that expires
fires and softirqs run; nothing is assumed of users or root.

*`IrqMayStall`.* `LowRingNoticed` rests on the handler ending before `msleep(500)` returns. Otherwise the order work looks at ring,
device reaches threshold, handler clears ICR is possible and the wake-up is lost. Safety (`ring_safety`) does not depend on it.

## Proofs

Every invariant and every safety property over steps (`RingIsQueue`, `ModuleIsQueue`, `OopsHasCause`, `BlinkIsEven`) of the runs that pass
is proved for every value of the constants that the module's named assumption allows. Each proof has the same shape: an invariant that
is inductive, a lemma that each action keeps it, with a step per action or kind of action, and the theorem from it by PTL. The invariants were
checked by TLC on the runs' configurations before they were proved. What follows says what each adds to the property, as that is the reason why the
property holds.

`RxRingProofs`: every ring size N >= 2, every threshold from 0 to N - 2, every set of packets (`RingAssumption`).
* `TypeCorrect`: `Spec => []TypeOK`.
* `WorkerOwns`: `WorkerOwnsDescriptor`. It is not inductive: nothing in it keeps the head from moving onto the descriptor. The
  strengthening is `TailAhead`: the descriptor is the one after RDT and is not RDH. The device cannot break it, as reaching that
  descriptor would take it past RDT, where it stops (`SuccFacts`: distinct slots have distinct successors).
* `LowRing`: `~IrqMayStall` implies `LowRingNoticed`. It needs to know that RXDMT0 is masked only between the handler's two
  writes, with the mask saved (`MaskSaved`), and that when the handler clears ICR the work it asked for has not begun to look
  (`ClearedBeforeLook`: pending, or asleep with the handler still running). Then a packet that reaches the threshold either raises a
  request or finds one of these; and the work stops only when the device has N - 1 descriptors, more than any threshold (`FreeFacts`).
* `Refinement`: `Spec => RingIsQueue`. `Unseen` is a `Slice` of the ring; a packet put into the slot at RDH appends to it (or is dropped,
  when there is no room), `WorkInspect` takes its head, `WorkAdvance` and everything else leave it alone. `TailAhead` is needed for the
  third: the descriptor handed back is the one looked at.

`RxStatusProofs`: the steps of a reader are none of the ring's, so `RingBesideReader` has types, `WorkerOwnsDescriptor` and `RingIsQueue` from
`RxRingProofs`. `StatusLowerBound` proves `StatusIsLowerBound` with `ReaderInv`: unless overtaken, the head that was read is no further ahead of
the tail than the head is now. Its hypothesis `N <= 256` is what `Pack` needs, 8 bits for each of head and tail; the code has 16 descriptors.

`Hw6ModuleProofs`: in addition every number of open files, every subset of the calls failing, unbinding at any time.
* `ModInv` ties the places of the two threads to the flags (`StageInv`, with `Bindable`: when a device can be bound), to what is held
  (`HeldInv`), to when the handler may run (`HandlerInv`), to when the device may write (`DmaInv`) and says that nothing runs before RCTL.EN is
  set (`QuietInv`). From it `ModTypeCorrect`,
  `HandlerAlwaysSafe` and `DmaAlwaysIntoRing`. `free_irq` waiting for the handler, and `pci_disable_device` coming before the ring is freed for a
  device that heeds it, are where the order of remove is used. `DmaAlwaysIntoRing` says of any other device that it writes outside the ring
  after `dma_freeUp` only.
* `OopsCauses`: `ModSpec => OopsHasCause`, from `ModInv`: where something that is used is missing in `held`, the device is gone, or rmmod
  is under way, which are the named places. `OopsLate`: `OopsIsLateWork`, when none of "device", "regions", "mapping" and "class" fails and the device stays bound
  (`WholeInv`). These hypotheses are those of the property: in the other cases `OopsHasCause` names further causes.
* `FailedLoad`: `FailedLoadLeaves`, with `LoadInv`, exactly what each step of insmod has registered. `Unload`: `UnloadReleases` with
  `ReleaseInv`, if "regions" and "mapping" do not fail: otherwise the device stays enabled after rmmod, as the probe's error paths (280-286)
  do not disable it and remove is not called.
* `BoundRing`: `~IrqMayStall` implies `BoundRingNoticed`, with `PathInv`: the probe hands over an empty ring, and packets received before IMS
  is written leave ICR set. Afterwards the argument is that of `LowRing`.
* `WorkerAlwaysOwns` and `ModuleRefinement`: `WorkerOwnsDescriptor` and `ModuleIsQueue` for the whole life, with `HandoverInv`: nothing of the
  receive path runs while the ring is set up. The steps of the ring are those of `RxRingProofs`, whose step lemmas are cited.

`BlinkTimerProofs`: any set of users, any set of rates. `BlinkInv` has that only an open starts the timer (`StartInv`), that a started timer is
armed or its callback is on the way to setting it (`KeptInv`), and that `LED` runs ahead of the register only between toggle and write
(`AheadInv`). From it `BlinkTypeCorrect`, `TimerAlwaysKept`, `BlinkAlwaysEven` (`BlinkIsEven`) and `BlinkOops` (`OopsHasCause`).

`CharDevProofs`: any number of copies of `part3.c`, any number of loads. `CharInv` follows the value of `syscall_val` into each program's
`v` (`Half`) and has that an open file keeps the module (`LoadedInv`), or insmod could clear it. From it `CharTypeCorrect`, `AlwaysStartsAt40`
and `AlwaysUpdatedTo17`.

`LedFileProofs`: any number of copies and any first value of LEDCTL.
* `FileTypeCorrect`: `TypeOK`, with `AtCall`: a call inside the driver is on an open file, at offset 0 if it is a read.
* `LedsOffInTheEnd`: `LedsOff`. The invariant is `LastWriteOff`: once a program has written, the LED is off or a program that
  turned it on has its last write to come. It rests on each write putting its own program's value into the register.
* `CallsAlwaysTransfer`: `CallsTransfer`, with `TransferInv`: every read finds its file at offset 0, also after a write.
* `AlwaysReadsBack`: `ReadsBack`, with `ReadingBack`, which says where the value is between the write and `v`: in the register, in what
  the read has loaded, in `led_current_val`. A step of another program either notes itself in `others` or leaves that place alone.

`LedModuleProofs` carries all of these to `LedModule`, for every number of copies and loads (`LifeTypeCorrect`, `LedsOffThroughLife`,
`CallsTransferThroughLife`, `ReadsBackThroughLife`): root's steps only set the driver's variables, to 0 or to what LEDCTL holds, and
`led_current_val` is cleared by insmod only under files of a module that is gone, whose programs never end their read (`LifeBack`). It
proves `OopsCause` (`OopsHasCause`) and `LifeStateCorrect` (`LifeTypeOK`), with `LifeInv`: a file of a module that is gone is there only after
a failed `pci_register_driver`, and any other open file keeps the module.

`LedMonProofs`: any number of copies of `hw4.c`, rounds, runs and kills, and any speeds.
* `RunningInv`: `running` holds each copy between save and restore, once. `SavedInv`: while no two have got tangled, the oldest has saved
  the first value, and the register has it when none runs. `LoopInv`: LED and counter stay in bounds; an undisturbed copy finds the
  register showing its one LED. From them `WalkTypeCorrect`, `ValueAlwaysRestored` (`StartingValueRestored`) and `OneLedAlways`.
* `WatchedWalk`: `MonSpec => WalkSpec`, as the watcher writes nothing of the walk.
* `PictureInv`: the LEDs looked at so far are right for the LEDCTL read and a speed the link has had. From it `MonTypeCorrect`,
  `PictureOfSomeMoment` (`EachLedOfSomeMoment`) and, with `LoopInv`, `WalkAlwaysSeen` (`WalkIsSeen`).

*Model-checked only*: liveness (`FullRingGetsRoom`, `Led0GoesOff`, `UnloadEnds`, `BlinksOn`, `RateTakesEffect`) and freedom from deadlock:
the prover handles neither fairness nor ENABLED here. The findings are counterexamples, which TLC gives. `RxStatus`, `LedModule` and
`Hw6Module` prove what they need of the module they extend again under their own specification, as a theorem about `Spec` says nothing of that one. What is
proved is proved of the models: the external parts and history variables described above are in them.

## Bad cases that happen

Some hazards are real defects or races of the code and no property calls them impossible. The model has each of them, and the property beside it
names it as an exception or premise, so that what is checked is that nothing else goes wrong:
* a device that does not heed bus mastering writes into the ring freed at 390 (`DmaIntoRing`); late work, unbinding and incomplete modules
  oops (`OopsHasCause`), in HW5 also the timer without its device;
* other programs' calls spoil what a program reads back (`ReadsBack`, `HW3/hw3.c:143`; `StartsAt40` and `UpdatedIs17`, `HW2/hw2.c:39`);
* copies of `hw4.c` that overlap without being nested, or are killed, lose the starting value (`StartingValueRestored`), and writes of
  others between its load and store (`HW4/hw4.c:77`) spoil the walk (`OneLedAtATime`);
* `ledmon` shows LEDs for different speeds in one picture, which `EachLedOfSomeMoment` bounds, and for a speed it could not read, which that property
  excludes (`HW3/ledmon.c:117`, `:125`).

The `note` of each such hazard in `PROJECT.json` says which it is.

## Not modelled

Contents of packets and descriptors beyond a packet's identity; formatting, `printk`; lack of memory; a second load of the HW6 module (the
device is reset at 310 and all variables are fresh, but `pci_disable_device` has taken bus mastering, which no probe gives back: a life that
begins without it is in the model, as `dma = "off"`) and binding its device again after unbinding; write of HW6, which sets a rate nothing uses; read and `user.c` of HW5, which are those of HW2
on another variable; the arguments and the search for the device of `ledmon`; the older copy `src/hw6.c`, the same code but for the layout of a
descriptor; HW1, HW7, generated files and logs.
