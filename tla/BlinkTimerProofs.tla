-------------------------- MODULE BlinkTimerProofs --------------------------
(***************************************************************************)
(* Proofs about BlinkTimer, for any number of users, any rates they write, *)
(* any width of int, whatever fails and whether or not root rebinds.       *)
(***************************************************************************)
EXTENDS BlinkTimer, TLAPS

(* An open has started the timer, or is just about to say so. *)
Started == openTracker \/ \E u \in Users : openPc[u] = "mark"

(* The timer is pending or its callback is on the way to setting it again. *)
Running == armed \/ cbPc # "idle"

(* Some open has come beyond its first statement. *)
Begun == Started \/ Running \/ \E u \in Users : openPc[u] # "closed"

(* insmod before the node is there. *)
Loading == {"chrdev", "cdev", "register", "node"}

(* Only an open starts the timer, and none comes before the node is there. *)
StartInv ==
  /\ Running => Started
  /\ pc \in Loading =>
       ~openTracker /\ \A u \in Users : openPc[u] = "closed"

(* A timer that was started is there for its next round. *)
KeptInv == Started /\ pc = "in" /\ ~oops => Running

(* mydev.LED runs ahead of the register between the toggle and the write,  *)
(* and agrees with it otherwise, unless an open has reset it.              *)
AheadInv ==
  Begun /\ ~opened => (cbPc = "write" <=> (LED # LEDCTL))

BlinkInv == TypeOK /\ StartInv /\ KeptInv /\ AheadInv

-----------------------------------------------------------------------------
(* Also a period whose product overflows is some int. *)
LEMMA HalfPeriodInt ==
  ASSUME NEW rate \in Int
  PROVE  HalfPeriod(rate) \in Int
<1>1. rate * MsPerSec \in Int
  BY BlinkAssumption
<1>2. Int32(rate * MsPerSec) \in Int
  BY <1>1, BlinkAssumption DEF Int32
<1> QED BY <1>2 DEF HalfPeriod

(* Half of the rate, exactly and never negative, for every rate whose      *)
(* msecs an int can hold: the timer expires (hw5.c:79 and 156).            *)
LEMMA HalfPeriodExact ==
  ASSUME NEW rate \in Nat, rate * MsPerSec < IntRange \div 2
  PROVE  HalfPeriod(rate) = (rate * MsPerSec) \div 2 /\ HalfPeriod(rate) >= 0
<1> DEFINE x == rate * MsPerSec
<1>1. x \in Nat
  BY BlinkAssumption
<1> HIDE DEF x
<1>2. x < IntRange \div 2
  BY DEF x
<1>3. Int32(x) = x
  <2>1. x + IntRange \div 2 \in 0 .. IntRange - 1
    BY <1>1, <1>2, BlinkAssumption
  <2>2. (x + IntRange \div 2) % IntRange = x + IntRange \div 2
    BY <2>1, BlinkAssumption
  <2> QED BY <1>1, <2>2, BlinkAssumption DEF Int32
<1>4. HalfPeriod(rate) = x \div 2
  BY <1>3 DEF HalfPeriod, x
<1> QED BY <1>1, <1>4 DEF x

(* The invariant holds when insmod begins. *)
LEMMA BlinkInit == Init => BlinkInv
<1> SUFFICES ASSUME Init PROVE BlinkInv
  OBVIOUS
<1> USE DEF Init
<1>1. TypeOK
  <2>1. openPc \in [Users -> OpenPcs]
    BY DEF OpenPcs
  <2>2. delay \in Int /\ cbPc \in CbPcs /\ pc \in Pcs /\ made \subseteq Things
    BY DEF CbPcs, Pcs
  <2> QED BY <2>1, <2>2 DEF TypeOK
<1>2. ~Started /\ ~Running /\ ~Begun
  BY DEF Started, Running, Begun
<1> QED BY <1>1, <1>2 DEF BlinkInv, StartInv, KeptInv, AheadInv

(* No step takes a variable out of its type. *)
LEMMA BlinkTypeStep == TypeOK /\ [Next]_vars => TypeOK'
<1> SUFFICES ASSUME TypeOK, [Next]_vars PROVE TypeOK'
  OBVIOUS
<1> USE DEF TypeOK, userVars, ledVars, timerVars, lifeVars
<1>1. HalfPeriod(blink_rate) \in Int
  BY HalfPeriodInt, BlinkAssumption
<1>2. ASSUME NEW u \in Users, Open(u) PROVE TypeOK'
  <2>1. openPc' \in [Users -> OpenPcs]
    BY <1>2 DEF Open, OpenEnter, OpenCheck, OpenSetup, OpenArm, OpenMark,
                OpenStep, OpenPcs
  <2>2. LED' \in BOOLEAN /\ opened' \in BOOLEAN /\ armed' \in BOOLEAN
        /\ openTracker' \in BOOLEAN /\ oops' \in BOOLEAN
    BY <1>2 DEF Open, OpenEnter, OpenCheck, OpenSetup, OpenArm, OpenMark
  <2>3. delay' \in Int
    BY <1>1, <1>2 DEF Open, OpenEnter, OpenCheck, OpenSetup, OpenArm, OpenMark
  <2>4. UNCHANGED <<blink_rate, LEDCTL, cbPc, pc, mapped, made>>
    BY <1>2 DEF Open, OpenEnter, OpenCheck, OpenSetup, OpenArm, OpenMark
  <2> QED BY <2>1, <2>2, <2>3, <2>4
<1>3. ASSUME NEW u \in Users, Close(u) PROVE TypeOK'
  BY <1>3 DEF Close, OpenStep, OpenPcs
<1>4. ASSUME NEW u \in Users, NEW rate \in Written, Write(u, rate) PROVE TypeOK'
  <2>1. blink_rate' \in Written \cap Nat
    BY <1>4, BlinkAssumption DEF Write
  <2> QED BY <1>4, <2>1 DEF Write
<1>5. ASSUME NEW rate \in Params, SetParam(rate) PROVE TypeOK'
  BY <1>5 DEF SetParam
<1>6. CASE Fire \/ Fault
  BY <1>6 DEF Fire, Fault, CbStep, CbPcs
<1>7. CASE Callback
  BY <1>1, <1>7 DEF Callback, CbToggle, CbWrite, CbRearm, CbStep, CbPcs
<1>8. CASE InitChrdev \/ InitCdev \/ InitRegister \/ InitNode \/ Rebind
  BY <1>8 DEF InitChrdev, InitCdev, InitRegister, InitNode, Rebind, LifeStep,
              Pcs, Things
<1>9. CASE Rmmod \/ ExitDelTimer \/ ExitUnmap \/ ExitFree
  BY <1>9 DEF Rmmod, ExitDelTimer, ExitUnmap, ExitFree, LifeStep, Pcs
<1>10. CASE UNCHANGED vars
  BY <1>10 DEF vars
<1> QED BY <1>2, <1>3, <1>4, <1>5, <1>6, <1>7, <1>8, <1>9, <1>10 DEF Next

-----------------------------------------------------------------------------
(* An open: only OpenArm makes the timer run, and only OpenEnter begins.   *)
LEMMA OpenKeeps ==
  ASSUME BlinkInv, NEW u \in Users, Open(u)
  PROVE  StartInv' /\ KeptInv' /\ AheadInv'
<1> USE DEF userVars, ledVars, timerVars, lifeVars
<1>1. TypeOK /\ StartInv /\ KeptInv /\ AheadInv
  BY DEF BlinkInv
<1>2. \A w \in Users : w # u => openPc'[w] = openPc[w]
  BY <1>1 DEF Open, OpenEnter, OpenCheck, OpenSetup, OpenArm, OpenMark,
              OpenStep, TypeOK
<1>3. CASE OpenEnter(u)
  <2>1. openPc[u] = "closed" /\ openPc'[u] = "check" /\ opened' /\ pc = "in"
        /\ UNCHANGED <<openTracker, armed, cbPc, pc, oops>>
    BY <1>1, <1>3 DEF OpenEnter, OpenStep, TypeOK
  <2>2. Started' = Started /\ Running' = Running
    BY <1>2, <2>1 DEF Started, Running
  <2> QED BY <1>1, <2>1, <2>2 DEF StartInv, KeptInv, AheadInv, Loading
<1>4. CASE OpenCheck(u) \/ OpenSetup(u) \/ OpenArm(u) \/ OpenMark(u)
  <2>1. openPc[u] # "closed" /\ pc \notin Loading
        /\ UNCHANGED <<LED, LEDCTL, opened, cbPc, pc>>
    BY <1>1, <1>4 DEF OpenCheck, OpenSetup, OpenArm, OpenMark, OpenStep,
                      StartInv
  <2>2. Started => Started'
    BY <1>1, <1>2, <1>4 DEF OpenCheck, OpenSetup, OpenArm, OpenMark, OpenStep,
                            Started, TypeOK
  <2>3. Started' => Started \/ OpenArm(u)
    BY <1>1, <1>2, <1>4 DEF OpenCheck, OpenSetup, OpenMark, OpenStep, Started,
                            TypeOK
  <2>4. OpenArm(u) => Started' /\ Running'
    BY <1>1 DEF OpenArm, OpenStep, Started, Running, TypeOK
  <2>5. Running' => Running \/ OpenArm(u)
    BY <1>4 DEF OpenCheck, OpenSetup, OpenMark, Running
  <2>6. Running /\ ~oops' => Running'
    BY <1>4 DEF OpenCheck, OpenSetup, OpenArm, OpenMark, Running
  <2>7. ~oops
    BY <1>4 DEF OpenCheck, OpenSetup, OpenArm, OpenMark, OpenStep
  <2>8. Begun
    BY <2>1 DEF Begun
  <2> QED BY <1>1, <2>1, <2>2, <2>3, <2>4, <2>5, <2>6, <2>7, <2>8
          DEF StartInv, KeptInv, AheadInv
<1> QED BY <1>3, <1>4 DEF Open

(* Steps of everybody else keep who has opened, or let one close. *)
LEMMA OthersKeep ==
  ASSUME BlinkInv, openTracker' = openTracker,
         \A u \in Users : openPc'[u] = openPc[u]
                          \/ (openPc[u] = "open" /\ openPc'[u] = "closed"),
         pc' \in Loading => pc \in Loading,
         pc' = "in" => pc \in {"node", "in"},
         oops => oops',
         Running' => Running,
         Running /\ pc' = "in" /\ ~oops' => Running',
         Running /\ ~opened' => (cbPc' = "write" <=> (LED' # LEDCTL')),
         ~Running => UNCHANGED <<LED, LEDCTL, opened, cbPc>>
  PROVE  StartInv' /\ KeptInv' /\ AheadInv'
<1>1. TypeOK /\ StartInv /\ KeptInv /\ AheadInv
  BY DEF BlinkInv
<1>2. Started' = Started
  BY DEF Started
<1>3. Begun' => Begun
  BY <1>2 DEF Begun
<1>4. StartInv'
  BY <1>1, <1>2 DEF StartInv
<1>5. KeptInv'
  <2>1. Started => pc # "node"
    BY <1>1 DEF StartInv, Loading, Started
  <2> QED BY <1>1, <1>2, <2>1 DEF KeptInv
<1>6. AheadInv'
  BY <1>1, <1>3 DEF AheadInv, Begun, Running
<1> QED BY <1>4, <1>5, <1>6

(* Every step keeps the invariant. *)
LEMMA BlinkStep == BlinkInv /\ [Next]_vars => BlinkInv'
<1> SUFFICES ASSUME BlinkInv, [Next]_vars PROVE BlinkInv'
  OBVIOUS
<1> SUFFICES StartInv' /\ KeptInv' /\ AheadInv'
  BY BlinkTypeStep DEF BlinkInv
<1> USE DEF userVars, ledVars, timerVars, lifeVars
<1>1. TypeOK /\ StartInv /\ KeptInv /\ AheadInv
  BY DEF BlinkInv
<1>2. Running /\ ~opened => (cbPc = "write" <=> (LED # LEDCTL))
  BY <1>1 DEF AheadInv, Begun
<1>3. ASSUME NEW u \in Users, Open(u) PROVE StartInv' /\ KeptInv' /\ AheadInv'
  BY <1>3, OpenKeeps
<1>4. ASSUME NEW u \in Users, Close(u) PROVE StartInv' /\ KeptInv' /\ AheadInv'
  BY <1>1, <1>2, <1>4, OthersKeep DEF Close, OpenStep, Running, TypeOK
<1>5. ASSUME NEW u \in Users, NEW rate \in Written, Write(u, rate)
      PROVE  StartInv' /\ KeptInv' /\ AheadInv'
  BY <1>2, <1>5, OthersKeep DEF Write, Running
<1>6. ASSUME NEW rate \in Params, SetParam(rate)
      PROVE  StartInv' /\ KeptInv' /\ AheadInv'
  BY <1>2, <1>6, OthersKeep DEF SetParam, Running
<1>7. CASE Fire
  BY <1>2, <1>7, OthersKeep DEF Fire, Expires, CbStep, Running
<1>8. CASE Callback
  BY <1>1, <1>2, <1>8, OthersKeep
  DEF Callback, CbToggle, CbWrite, CbRearm, CbStep, Running, TypeOK
<1>9. CASE Fault
  BY <1>2, <1>9, OthersKeep DEF Fault, Running
<1>10. CASE InitChrdev \/ InitCdev \/ InitRegister \/ InitNode \/ Rebind
  BY <1>2, <1>10, OthersKeep
  DEF InitChrdev, InitCdev, InitRegister, InitNode, Rebind, LifeStep, Running,
      Loading
<1>11. CASE Rmmod \/ ExitDelTimer \/ ExitUnmap \/ ExitFree
  BY <1>2, <1>11, OthersKeep
  DEF Rmmod, ExitDelTimer, ExitUnmap, ExitFree, LifeStep, Running, Loading
<1>12. CASE UNCHANGED vars
  BY <1>2, <1>12, OthersKeep DEF vars, Running
<1> QED BY <1>3, <1>4, <1>5, <1>6, <1>7, <1>8, <1>9, <1>10, <1>11, <1>12
        DEF Next

(* It holds at any time. *)
LEMMA BlinkInvariant == Spec => []BlinkInv
BY BlinkInit, BlinkStep, PTL DEF Spec

-----------------------------------------------------------------------------
(* The driver's variables keep their types: a negative rate gets in only   *)
(* as a module parameter (hw5.c:225-231).                                  *)
THEOREM BlinkTypeCorrect == Spec => []TypeOK
BY BlinkInvariant, PTL DEF BlinkInv

(* Whatever opens race (hw5.c:141-160), a timer that one of them started   *)
(* is pending or its callback is about to set it again (hw5.c:79), until   *)
(* one hits the queued timer or the module is unloaded.                    *)
THEOREM TimerAlwaysKept == Spec => []TimerKept
<1>1. BlinkInv => TimerKept
  BY DEF BlinkInv, KeptInv, Started, Running, TimerKept
<1> QED BY <1>1, BlinkInvariant, PTL

(* Each callback writes the opposite of what LED 0 shows (hw5.c:68-74),    *)
(* whatever opens and closes, rebinds and rates come between two of them,  *)
(* unless an open has reset mydev.LED (hw5.c:144).                         *)
THEOREM BlinkAlwaysEven == Spec => BlinkIsEven
<1>1. BlinkInv /\ [Next]_vars =>
        [cbPc = "write" /\ cbPc' = "rearm" /\ ~opened => LEDCTL' # LEDCTL]_vars
  <2> SUFFICES ASSUME BlinkInv, [Next]_vars, cbPc = "write", cbPc' = "rearm",
                      ~opened
               PROVE  LEDCTL' # LEDCTL
    OBVIOUS
  <2>1. LED # LEDCTL
    BY DEF BlinkInv, AheadInv, Begun, Running
  <2>2. CbWrite
    BY DEF Next, Open, OpenEnter, OpenCheck, OpenSetup, OpenArm, OpenMark,
           Close, Write, SetParam, Fire, Callback, CbToggle, CbRearm, CbStep,
           Fault, InitChrdev, InitCdev, InitRegister, InitNode, Rebind, Rmmod,
           ExitDelTimer, ExitUnmap, ExitFree, LifeStep, vars
  <2> QED BY <2>1, <2>2 DEF CbWrite
<1> QED BY <1>1, BlinkInvariant, PTL DEF Spec, BlinkIsEven

(* For any number of users and whatever fails, the kernel oopses for one   *)
(* of the four reasons only (hw5.c:74, 151-156, 283 and 313-321).          *)
THEOREM BlinkOops == Spec => OopsHasCause
<1> DEFINE Cause ==
       \/ \E u \in Users : /\ openPc[u] = "setup" /\ armed
                           /\ openTracker \/ \E w \in Users : openPc[w] = "mark"
       \/ pc \in {"in", "del", "unmap"} /\ ~mapped /\ cbPc = "write"
       \/ pc \in {"free", "gone"} /\ (cbPc # "idle" \/ armed)
       \/ pc = "free" /\ "class" \notin made
<1>1. BlinkInv /\ [Next]_vars => [oops' /\ ~oops => Cause]_vars
  <2> SUFFICES ASSUME BlinkInv, [Next]_vars, oops', ~oops PROVE Cause
    OBVIOUS
  <2>1. TypeOK /\ StartInv
    BY DEF BlinkInv
  <2>2. \/ \E u \in Users : OpenSetup(u)
        \/ Fault
        \/ ExitFree
    BY DEF Next, Open, OpenEnter, OpenCheck, OpenArm, OpenMark, Close, Write,
           SetParam, Fire, Callback, CbToggle, CbWrite, CbRearm, InitChrdev,
           InitCdev, InitRegister, InitNode, Rebind, Rmmod, ExitDelTimer,
           ExitUnmap, vars
  <2>3. ASSUME NEW u \in Users, OpenSetup(u) PROVE Cause
    <3>1. openPc[u] = "setup" /\ armed
      BY <2>3 DEF OpenSetup, OpenStep
    <3>2. Started
      BY <2>1, <3>1 DEF StartInv, Running
    <3> QED BY <3>1, <3>2 DEF Started
  <2>4. CASE Fault
    <3>1. Running
      BY <2>4 DEF Fault, Expires, Running
    <3>2. pc \notin Loading
      BY <2>1, <3>1 DEF StartInv, Loading, Started
    <3> QED BY <2>1, <2>4, <3>2 DEF Fault, Expires, TypeOK, Pcs, Loading
  <2>5. CASE ExitFree
    BY <2>5 DEF ExitFree, LifeStep
  <2> QED BY <2>2, <2>3, <2>4, <2>5
<1> QED BY <1>1, BlinkInvariant, PTL DEF Spec, OopsHasCause
=============================================================================
