----------------------------- MODULE LedModule -----------------------------
(***************************************************************************)
(* HW3/hw3.c from insmod to rmmod and insmod again, around the calls of    *)
(* LedFile: the device may be missing, bound and unbound, and programs may *)
(* call at any time.  After an oops no behaviour is described.             *)
(*                                                                         *)
(* alloc_chrdev_region and cdev_add, when they fail, leave nothing, and    *)
(* are as if root had not tried.  rmmod is one step: once it has begun no  *)
(* file is open, and open fails.                                           *)
(***************************************************************************)
EXTENDS LedFile

CONSTANTS
  Loads,          \* how often root loads the module
  Failures        \* what may fail: "driver", "device" (the probe)

ASSUME LifeAssumption ==
  Loads \in Nat \ {0} /\ Failures \subseteq {"driver", "device"}

VARIABLES
  module,         \* "out", "coming" (in blinkDriver_init) or "live"
  loads,          \* insmods so far
  mapped,         \* the device is bound and its registers are mapped
  dangling,       \* the kernel has a cdev of a module that is gone
  lost,           \* programs with a file of a module that is gone
  oops            \* the kernel has hit something that is not there

lifeVars == <<module, loads, mapped, dangling, lost, oops>>
moduleVars == <<vars, lifeVars>>

(* The state of LedFile that insmod and the probe leave alone. *)
callVars == <<pc, at, fileVars, reg, userVars, others>>

(* With the types, that a bound device has its driver. *)
LifeTypeOK ==
  /\ module \in {"out", "coming", "live"} /\ loads \in 0 .. Loads
  /\ mapped \in BOOLEAN /\ (mapped => module = "live") /\ dangling \in BOOLEAN
  /\ lost \subseteq Program /\ oops \in BOOLEAN

LifeInit ==
  /\ Init
  /\ module = "out" /\ loads = 0 /\ mapped = FALSE
  /\ dangling = FALSE /\ lost = {} /\ oops = FALSE

(* A program closes its file right after its first read, and when it ends. *)
Opened(p) == fd[p] /\ pc[p] \in Calls

-----------------------------------------------------------------------------
(* Root.                                                                   *)

(* Up to cdev_add: from here on the node of these numbers works. *)
Insmod ==
  /\ module = "out" /\ loads < Loads
  /\ module' = "coming" /\ loads' = loads + 1
  /\ led_initial_val' = 0 /\ led_current_val' = 0 /\ syscall_val' = 0
  /\ UNCHANGED <<LEDCTL, callVars, mapped, dangling, lost, oops>>

(* The probe. *)
Bind ==
  /\ mapped' = TRUE /\ led_initial_val' = LEDCTL
  /\ UNCHANGED <<LEDCTL, led_current_val, syscall_val, callVars, loads,
                 dangling, lost, oops>>

(* pci_register_driver, with the probe in it when there is a device. *)
Probe == module = "coming" /\ module' = "live" /\ Bind

(* No device, or one whose registers cannot be had. *)
NoDevice ==
  /\ module = "coming" /\ module' = "live"
  /\ "device" \in Failures
  /\ UNCHANGED <<vars, loads, mapped, dangling, lost, oops>>

(* The module goes, whoever has a file of it open. *)
Gone == module' = "out" /\ lost' = lost \cup {p \in Program : Opened(p)}

(* The driver cannot be registered, as when hw5 is loaded: it has the same *)
(* driver name.  The module is dropped, the cdev stays.                    *)
RegisterFails ==
  /\ "driver" \in Failures
  /\ module = "coming" /\ Gone
  /\ dangling' = TRUE
  /\ UNCHANGED <<vars, loads, mapped, oops>>

(* Through the bind and unbind files of the driver. *)
Rebind ==
  /\ module = "live" /\ UNCHANGED module
  /\ \/ ~mapped /\ Bind
     \/ /\ mapped /\ mapped' = FALSE
        /\ UNCHANGED <<vars, loads, dangling, lost, oops>>

(* Slip: the file operations name no owner, and rmmod waits for nobody. *)
Rmmod_NoOwner ==
  /\ module = "live" /\ Gone
  /\ mapped' = FALSE
  /\ UNCHANGED <<vars, loads, dangling, oops>>

(* Slip: pci_unregister_driver is forgotten. *)
Rmmod_KeepsDriver ==
  /\ module = "live" /\ Gone
  /\ \A p \in Program : ~Opened(p)
  /\ UNCHANGED <<vars, loads, mapped, dangling, oops>>

(* An open file, or a call, keeps the module. *)
Rmmod ==
  /\ module = "live" /\ Gone
  /\ \A p \in Program : ~Opened(p)
  /\ mapped' = FALSE
  /\ UNCHANGED <<vars, loads, dangling, oops>>

Root == Insmod \/ Probe \/ NoDevice \/ RegisterFails \/ Rebind \/ Rmmod

-----------------------------------------------------------------------------
(* Programs.                                                               *)

(* The next step of p reads or writes LEDCTL. *)
AtRegister(p) ==
  \/ pc[p] \in Reads /\ at[p] = "user" /\ fd[p] /\ offset[p] < SizeofInt
  \/ at[p] = "writel"

CanStep(p) == p \notin lost /\ (AtRegister(p) => mapped)

Calling(p) ==
  /\ CanStep(p)
  /\ \/ Open(p) /\ (fd'[p] => module # "out")
     \/ NoFile(p)
     \/ ReadBegin(p) \/ ReadStore(p) \/ ReadCopy(p)
     \/ WriteStore(p) \/ WriteCtl(p)
  /\ UNCHANGED lifeVars

(* A call meets code or registers that are gone, or an open the cdev of a  *)
(* module that is.                                                         *)
Fault(p) ==
  /\ ~CanStep(p) \/ (dangling /\ pc[p] \in {"open", "reopen"})
  /\ oops' = TRUE
  /\ UNCHANGED <<vars, module, loads, mapped, dangling, lost>>

LifeNext == ~oops /\ (Root \/ \E p \in Program : Calling(p) \/ Fault(p))

LifeSpec == LifeInit /\ [][LifeNext]_moduleVars

-----------------------------------------------------------------------------
(* A call oopses in two situations only: no device is bound, be it that    *)
(* the node works from cdev_add on and the probe comes after it, that      *)
(* there is no device, or that it has been unbound (hw3.c:241, 143, 203);  *)
(* or a pci_register_driver that failed has left its cdev behind           *)
(* (hw3.c:249-261).  No rmmod pulls the module from under a call.          *)
OopsHasCause == oops => (module # "out" /\ ~mapped) \/ dangling
=============================================================================
