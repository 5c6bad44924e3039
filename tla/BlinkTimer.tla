---------------------------- MODULE BlinkTimer -----------------------------
(***************************************************************************)
(* HW5/hw5.c: the timer that blinks LED 0, the open calls that start it,   *)
(* the writes of the blink rate through /dev/ECE_LED and through the       *)
(* module parameter, from insmod with the PCI probe to rmmod.  Users call  *)
(* the driver on several CPUs, the timer's callback runs on another.       *)
(*                                                                         *)
(* The compiler keeps the value example5_write checks in a register, so a  *)
(* write of the rate is one step (HW5/hw5.o, example5_write).  After an    *)
(* oops no behaviour is described.                                         *)
(***************************************************************************)
EXTENDS Integers

CONSTANTS
  Users,          \* the processes that open /dev/ECE_LED
  Written,        \* the rates they write
  Params,         \* the rates root writes to the module parameter
  FirstRate,      \* blink_rate at insmod
  MsPerSec,       \* 1000
  Failures,       \* the calls that may fail, "device" for the probe
  MayUnbind,      \* whether root may unbind the device and bind it again
  IntRange        \* how many values an int has, 2^32: msecs wrap around

Calls == {"chrdev", "cdev", "driver", "device", "class", "node"}

ASSUME BlinkAssumption ==
  /\ Written \subseteq Int /\ Params \subseteq Int /\ FirstRate \in Int
  /\ MsPerSec \in Nat /\ MsPerSec % 2 = 0
  /\ Failures \subseteq Calls
  /\ MayUnbind \in BOOLEAN
  /\ IntRange \in Nat /\ IntRange > 0 /\ IntRange % 2 = 0

VARIABLES
  blink_rate,     \* the rate, in seconds
  openTracker,    \* whether an open has started the timer
  openPc,         \* next step of the open of each user
  LED,            \* bit 7 of mydev.LED
  LEDCTL,         \* bit 7 of the register
  armed, delay,   \* the timer is pending, and was set this many msecs ahead
  cbPc,           \* next step of my_callback
  opened,         \* history: an open has reset LED since the last callback
                  \* wrote it
  pc,             \* next step of insmod or rmmod
  mapped,         \* the device is bound and its registers are mapped
  made,           \* what insmod has registered
  oops            \* the kernel has hit something that is not there

timerVars == <<armed, delay>>
userVars  == <<openTracker, openPc>>
ledVars   == <<LED, LEDCTL, opened>>
lifeVars  == <<pc, mapped, made>>
vars == <<blink_rate, userVars, ledVars, timerVars, cbPc, lifeVars, oops>>

OpenPcs == {"closed", "check", "setup", "arm", "mark", "open"}
CbPcs   == {"idle", "toggle", "write", "rearm"}
Pcs     == {"chrdev", "cdev", "register", "node", "in", "del", "unmap", "free",
            "gone"}
Things  == {"chrdev", "cdev", "class", "node"}

(* What an int holds of x, and half of the rate in msecs as the code       *)
(* computes it.                                                            *)
Int32(x) == ((x + IntRange \div 2) % IntRange) - IntRange \div 2
HalfPeriod(rate) == Int32(rate * MsPerSec) \div 2

(* msecs_to_jiffies takes a negative number for the longest delay there    *)
(* is, more than a life of the machine.                                    *)
Expires == armed /\ delay >= 0

TypeOK ==
  /\ blink_rate \in (Written \cap Nat) \cup Params \cup {FirstRate}
  /\ openPc \in [Users -> OpenPcs] /\ openTracker \in BOOLEAN
  /\ LED \in BOOLEAN /\ LEDCTL \in BOOLEAN /\ opened \in BOOLEAN
  /\ armed \in BOOLEAN /\ delay \in Int /\ cbPc \in CbPcs /\ pc \in Pcs
  /\ mapped \in BOOLEAN /\ made \subseteq Things /\ oops \in BOOLEAN

Init ==
  /\ blink_rate = FirstRate
  /\ openTracker = FALSE /\ openPc = [u \in Users |-> "closed"]
  /\ LED = FALSE /\ LEDCTL \in BOOLEAN /\ opened = FALSE
  /\ armed = FALSE /\ delay = 0
  /\ cbPc = "idle" /\ pc = "chrdev" /\ mapped = FALSE /\ made = {}
  /\ oops = FALSE

-----------------------------------------------------------------------------
(* blinkDriver_init and the probe.                                         *)

LifeStep(from, to) ==
  /\ ~oops /\ pc = from /\ pc' = to
  /\ UNCHANGED <<blink_rate, userVars, ledVars, cbPc>>

InitChrdev ==
  /\ \/ LifeStep("chrdev", "cdev") /\ made' = {"chrdev"}
     \/ "chrdev" \in Failures /\ LifeStep("chrdev", "gone") /\ UNCHANGED made
  /\ UNCHANGED <<timerVars, mapped, oops>>

InitCdev ==
  /\ \/ LifeStep("cdev", "register") /\ made' = {"chrdev", "cdev"}
     \/ "cdev" \in Failures /\ LifeStep("cdev", "gone") /\ made' = {}
  /\ UNCHANGED <<timerVars, mapped, oops>>

(* pci_register_driver with the probe in it.  A probe that fails, or finds *)
(* no device, does not make it fail; when it does, the module is dropped,  *)
(* and its numbers and cdev stay, without a node that leads to them.       *)
InitRegister ==
  /\ \/ LifeStep("register", "node") /\ mapped' = TRUE
     \/ "device" \in Failures /\ LifeStep("register", "node") /\ UNCHANGED mapped
     \/ "driver" \in Failures /\ LifeStep("register", "gone") /\ UNCHANGED mapped
  /\ UNCHANGED <<timerVars, made, oops>>

(* class_create and device_create report failure with an error pointer,    *)
(* which is not NULL: the module goes on without class or node.            *)
InitNode ==
  /\ LifeStep("node", "in")
  /\ \/ made' = made \cup {"class", "node"}
     \/ "node" \in Failures /\ made' = made \cup {"class"}
     \/ "class" \in Failures /\ UNCHANGED made
  /\ UNCHANGED <<timerVars, mapped, oops>>

(* Through the bind and unbind files of the driver, which are there from   *)
(* pci_register_driver to pci_unregister_driver: remove and probe.         *)
Rebind ==
  /\ MayUnbind
  /\ \E at \in {"node", "in", "del", "unmap"} : LifeStep(at, at)
  /\ mapped' = ~mapped
  /\ UNCHANGED <<timerVars, made, oops>>

-----------------------------------------------------------------------------
(* example5_open.  An open in progress keeps the module from being         *)
(* unloaded.                                                               *)

OpenStep(u, from, to) ==
  ~oops /\ openPc[u] = from /\ openPc' = [openPc EXCEPT ![u] = to]

OpenEnter(u) ==
  /\ pc = "in" /\ "node" \in made
  /\ OpenStep(u, "closed", "check")
  /\ LED' = FALSE /\ opened' = TRUE
  /\ UNCHANGED <<blink_rate, openTracker, LEDCTL, timerVars, cbPc, lifeVars,
                 oops>>

OpenCheck(u) ==
  /\ OpenStep(u, "check", IF openTracker THEN "open" ELSE "setup")
  /\ UNCHANGED <<blink_rate, openTracker, ledVars, timerVars, cbPc, lifeVars,
                 oops>>

(* timer_setup forgets that the timer is queued: the queue is corrupt. *)
OpenSetup(u) ==
  /\ OpenStep(u, "setup", "arm")
  /\ oops' = armed
  /\ armed' = FALSE
  /\ UNCHANGED <<blink_rate, openTracker, ledVars, delay, cbPc, lifeVars>>

OpenArm(u) ==
  /\ OpenStep(u, "arm", "mark")
  /\ armed' = TRUE /\ delay' = HalfPeriod(blink_rate)
  /\ UNCHANGED <<blink_rate, openTracker, ledVars, cbPc, lifeVars, oops>>

(* Slip: openTracker is not set. *)
OpenMark_Not(u) ==
  /\ OpenStep(u, "mark", "open")
  /\ UNCHANGED <<blink_rate, openTracker, ledVars, timerVars, cbPc, lifeVars,
                 oops>>

OpenMark(u) ==
  /\ OpenStep(u, "mark", "open")
  /\ openTracker' = TRUE
  /\ UNCHANGED <<blink_rate, ledVars, timerVars, cbPc, lifeVars, oops>>

Close(u) ==
  /\ OpenStep(u, "open", "closed")
  /\ UNCHANGED <<blink_rate, openTracker, ledVars, timerVars, cbPc, lifeVars,
                 oops>>

(* Slip: only the test that no int can fail is made. *)
Write_Any(u, rate) ==
  /\ ~oops /\ openPc[u] = "open"
  /\ blink_rate' = rate
  /\ UNCHANGED <<userVars, ledVars, timerVars, cbPc, lifeVars, oops>>

(* A negative rate is refused.  The other test, for a value beyond 2^32,   *)
(* no int can fail.                                                        *)
Write(u, rate) ==
  /\ ~oops /\ openPc[u] = "open"
  /\ rate >= 0
  /\ blink_rate' = rate
  /\ UNCHANGED <<userVars, ledVars, timerVars, cbPc, lifeVars, oops>>

(* The parameter is an int that root may write as it likes. *)
SetParam(rate) ==
  /\ ~oops /\ pc \in {"chrdev", "cdev", "register", "node", "in"}
  /\ blink_rate' = rate
  /\ UNCHANGED <<userVars, ledVars, timerVars, cbPc, lifeVars, oops>>

-----------------------------------------------------------------------------
(* The timer and my_callback.                                              *)

CbStep(from, to) == ~oops /\ cbPc = from /\ cbPc' = to

Fire ==
  /\ Expires /\ pc # "gone"
  /\ CbStep("idle", "toggle")
  /\ armed' = FALSE
  /\ UNCHANGED <<blink_rate, userVars, ledVars, delay, lifeVars, oops>>

(* Slip: |= instead of ^=. *)
CbToggle_Set ==
  /\ pc # "gone"
  /\ CbStep("toggle", "write")
  /\ LED' = TRUE
  /\ UNCHANGED <<blink_rate, userVars, LEDCTL, opened, timerVars, lifeVars, oops>>

(* One step: an open that resets LED between a load and a store of it does *)
(* what one right before or right after does.                              *)
CbToggle ==
  /\ pc # "gone"
  /\ CbStep("toggle", "write")
  /\ LED' = ~LED
  /\ UNCHANGED <<blink_rate, userVars, LEDCTL, opened, timerVars, lifeVars, oops>>

CbWrite ==
  /\ mapped /\ pc # "gone"
  /\ CbStep("write", "rearm")
  /\ LEDCTL' = LED /\ opened' = FALSE
  /\ UNCHANGED <<blink_rate, userVars, LED, timerVars, lifeVars, oops>>

(* Slip: the timer is set again only when the rate is not zero. *)
CbRearm_NotZero ==
  /\ pc # "gone"
  /\ CbStep("rearm", "idle")
  /\ armed' = (blink_rate > 0 \/ armed) /\ delay' = HalfPeriod(blink_rate)
  /\ UNCHANGED <<blink_rate, userVars, ledVars, lifeVars, oops>>

(* Slip: the timer is set again for as long as before. *)
CbRearm_SameDelay ==
  /\ pc # "gone"
  /\ CbStep("rearm", "idle")
  /\ armed' = TRUE
  /\ UNCHANGED <<blink_rate, userVars, ledVars, delay, lifeVars, oops>>

CbRearm ==
  /\ pc # "gone"
  /\ CbStep("rearm", "idle")
  /\ armed' = TRUE /\ delay' = HalfPeriod(blink_rate)
  /\ UNCHANGED <<blink_rate, userVars, ledVars, lifeVars, oops>>

Callback == CbToggle \/ CbWrite \/ CbRearm

(* The timer or its callback meets registers or code that are gone. *)
Fault ==
  /\ ~oops
  /\ \/ cbPc = "write" /\ ~mapped
     \/ pc = "gone" /\ (Expires \/ cbPc # "idle")
  /\ oops' = TRUE
  /\ UNCHANGED <<blink_rate, userVars, ledVars, timerVars, cbPc, lifeVars>>

-----------------------------------------------------------------------------
(* example5_exit.                                                          *)

Rmmod ==
  /\ \A u \in Users : openPc[u] = "closed"
  /\ LifeStep("in", "del")
  /\ UNCHANGED <<timerVars, mapped, made, oops>>

(* del_timer takes the timer off the queue; it does not wait for a running *)
(* callback, which may set it again.                                       *)
ExitDelTimer ==
  /\ LifeStep("del", "unmap")
  /\ armed' = FALSE
  /\ UNCHANGED <<delay, mapped, made, oops>>

(* pci_unregister_driver, with remove when the device is bound. *)
ExitUnmap ==
  /\ LifeStep("unmap", "free")
  /\ mapped' = FALSE
  /\ UNCHANGED <<timerVars, made, oops>>

(* Destroying the device of a class that is an error pointer is an oops. *)
ExitFree ==
  /\ LifeStep("free", "gone")
  /\ made' = {}
  /\ oops' = ("class" \notin made)
  /\ UNCHANGED <<timerVars, mapped>>

-----------------------------------------------------------------------------
Open(u) == \/ OpenEnter(u) \/ OpenCheck(u) \/ OpenSetup(u) \/ OpenArm(u)
           \/ OpenMark(u)

Next ==
  \/ \E u \in Users : Open(u) \/ Close(u) \/ \E rate \in Written : Write(u, rate)
  \/ \E rate \in Params : SetParam(rate)
  \/ Fire \/ Callback \/ Fault
  \/ InitChrdev \/ InitCdev \/ InitRegister \/ InitNode \/ Rebind
  \/ Rmmod \/ ExitDelTimer \/ ExitUnmap \/ ExitFree

Spec == Init /\ [][Next]_vars

(* A timer that expires fires, and its callback runs to its end. *)
Fairness == WF_vars(Fire \/ Callback \/ Fault)

FairSpec == Spec /\ Fairness
-----------------------------------------------------------------------------
(* Once an open has started the timer it is never lost: it is pending or   *)
(* its callback is on the way to setting it again (hw5.c:79), whatever     *)
(* opens race with it, as long as none hits the queued timer.              *)
TimerKept ==
  openTracker /\ pc = "in" /\ ~oops => armed \/ cbPc # "idle"

(* The LED keeps being written until the module is unloaded (hw5.c:67-80), *)
(* but for a negative parameter (hw5.c:64), or a rate whose msecs an int   *)
(* cannot hold: 1000 times the rate wraps around to a negative delay.  At  *)
(* such a delay the timer never expires.                                   *)
BlinksOn == openTracker ~> (cbPc = "write" \/ pc # "in" \/ oops \/ delay < 0)

(* A rate that is not changed any more governs the blinking from some      *)
(* moment on, however it was set (hw5.c:79, 231 and 64), unless a rate     *)
(* before it has stopped the timer for good.                               *)
RateTakesEffect ==
  \A rate \in Written \cup Params :
    <>[](blink_rate = rate /\ openTracker /\ pc = "in" /\ ~oops)
      => <>[](delay = HalfPeriod(rate)) \/ <>[](delay < 0)

(* Each callback turns the LED from on to off or back (hw5.c:68-74), for a *)
(* 50% rate, unless an open has reset mydev.LED since the callback before  *)
(* (hw5.c:144).                                                            *)
BlinkIsEven ==
  [][cbPc = "write" /\ cbPc' = "rearm" /\ ~opened => LEDCTL' # LEDCTL]_vars

(* The kernel oopses in four situations only: an open sets up the timer    *)
(* after another has started it (hw5.c:151-156); the timer goes on in a    *)
(* module without the device, which was not there at insmod or has been    *)
(* unbound (hw5.c:74); a callback that ran beside del_timer, and the timer *)
(* it set again, meet the end of rmmod (hw5.c:313); the class was not made *)
(* (hw5.c:283 and 321).                                                    *)
OopsHasCause ==
  [][oops' /\ ~oops =>
       \/ \E u \in Users : /\ openPc[u] = "setup" /\ armed
                           /\ openTracker \/ \E w \in Users : openPc[w] = "mark"
       \/ pc \in {"in", "del", "unmap"} /\ ~mapped /\ cbPc = "write"
       \/ pc \in {"free", "gone"} /\ (cbPc # "idle" \/ armed)
       \/ pc = "free" /\ "class" \notin made]_vars

(* "Prohibiting multiple creations from multiple open calls" (hw5.c:150):  *)
(* one open at most sets up the timer.                                     *)
OneCreation ==
  \A u, v \in Users :
    u # v => ~(openPc[u] \in {"setup", "arm", "mark"} /\
               openPc[v] \in {"setup", "arm", "mark"})

=============================================================================
