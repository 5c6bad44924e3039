------------------------------ MODULE LedWalk ------------------------------
(***************************************************************************)
(* HW4/hw4.c: programs that map the device through /dev/mem and walk over  *)
(* its LEDs, each saving LEDCTL first and restoring it in the end.  Copies *)
(* of it may run at the same time, and may be killed at any step.          *)
(*                                                                         *)
(* LEDCTL is the byte of each LED; bit 7 of it makes the LED blink.  sleep *)
(* orders nothing between programs and is left out, as are printing and    *)
(* GPRC, which is only printed.                                            *)
(***************************************************************************)
EXTENDS Integers, SequencesExt

CONSTANTS
  Program,        \* the running copies of hw4.c
  Rounds,         \* how often a program walks over the LEDs: 5
  Default         \* what LEDCTL holds at first

ASSUME WalkAssumption == Rounds \in Nat \ {0} /\ Default \in [0 .. 3 -> 0 .. 255]

VARIABLES
  LEDCTL,
  RCTL,           \* RCTL is 0x2: the device receives
  pc,             \* the next step of each program
  saved,          \* its LED_default
  reg,            \* what it has loaded from LEDCTL to shift
  i, j,           \* its loop counters
  running,        \* history: who is between save and restore, oldest first
  tangled,        \* history: one was killed there, or ended before a later one
  disturbed       \* history: another wrote LEDCTL after its own last write

locals  == <<saved, reg, i, j>>
history == <<running, tangled, disturbed>>
walkVars == <<LEDCTL, RCTL, pc, locals, history>>

Leds == 0 .. 3
Blink == 128

(* LEDCTL with the given LEDs blinking and the others off. *)
Only(leds) == [k \in Leds |-> IF k \in leds THEN Blink ELSE 0]

(* Slip: the register is shifted as a signed int. *)
Shift_Signed(r) ==
  [k \in Leds |-> IF k < 3 THEN r[k + 1] ELSE IF r[3] >= Blink THEN 255 ELSE 0]

(* *LED_addr >> 8 of a uint32_t. *)
Shift(r) == [k \in Leds |-> IF k < 3 THEN r[k + 1] ELSE 0]

WalkTypeOK ==
  /\ LEDCTL \in [Leds -> 0 .. 255] /\ RCTL \in BOOLEAN
  /\ pc \in [Program -> {"idle", "save", "pair", "dark", "top", "load", "store",
                         "restore"}]
  /\ saved \in [Program -> [Leds -> 0 .. 255]]
  /\ reg \in [Program -> [Leds -> 0 .. 255]]
  /\ i \in [Program -> 0 .. 4] /\ j \in [Program -> 0 .. Rounds]
  /\ running \in Seq(Program) /\ tangled \in BOOLEAN
  /\ disturbed \in [Program -> BOOLEAN]

WalkInit ==
  /\ LEDCTL = Default /\ RCTL = FALSE
  /\ pc = [p \in Program |-> "idle"]
  /\ saved = [p \in Program |-> Only({})] /\ reg = [p \in Program |-> Only({})]
  /\ i = [p \in Program |-> 0] /\ j = [p \in Program |-> 0]
  /\ running = <<>> /\ tangled = FALSE /\ disturbed = [p \in Program |-> FALSE]

-----------------------------------------------------------------------------
Goto(p, from, to) == pc[p] = from /\ pc' = [pc EXCEPT ![p] = to]

(* Program p writes LEDCTL; disturbed says what is known of the register   *)
(* from then on.                                                           *)
WriteLed(p, value, mine) ==
  /\ LEDCTL' = value
  /\ disturbed' = [q \in Program |-> IF q = p THEN mine ELSE TRUE]

(* Started, with /dev/mem opened and mapped.  Without permission a program *)
(* ends here, which changes nothing.                                       *)
Map(p) ==
  /\ Goto(p, "idle", "save")
  /\ UNCHANGED <<LEDCTL, RCTL, locals, history>>

(* Slip: LEDCTL is saved after the first write to it. *)
Save_Late(p) ==
  /\ Goto(p, "save", "pair")
  /\ saved' = [saved EXCEPT ![p] = Only({0, 2})]
  /\ RCTL' = TRUE
  /\ running' = Append(running, p)
  /\ UNCHANGED <<LEDCTL, reg, i, j, tangled, disturbed>>

(* LEDCTL is saved and the receiver turned on, for good. *)
Save(p) ==
  /\ Goto(p, "save", "pair")
  /\ saved' = [saved EXCEPT ![p] = LEDCTL]
  /\ RCTL' = TRUE
  /\ running' = Append(running, p)
  /\ UNCHANGED <<LEDCTL, reg, i, j, tangled, disturbed>>

Pair(p) ==
  /\ Goto(p, "pair", "dark")
  /\ WriteLed(p, Only({0, 2}), FALSE)
  /\ UNCHANGED <<RCTL, locals, running, tangled>>

Dark(p) ==
  /\ Goto(p, "dark", "top")
  /\ WriteLed(p, Only({}), FALSE)
  /\ j' = [j EXCEPT ![p] = Rounds]
  /\ UNCHANGED <<RCTL, saved, reg, i, running, tangled>>

(* A round begins on LED 3. *)
Top(p) ==
  /\ Goto(p, "top", "load")
  /\ WriteLed(p, Only({3}), FALSE)
  /\ i' = [i EXCEPT ![p] = 4]
  /\ UNCHANGED <<RCTL, saved, reg, j, running, tangled>>

(* The shift: a load and a store of the register. *)
Load(p) ==
  /\ Goto(p, "load", "store")
  /\ reg' = [reg EXCEPT ![p] = LEDCTL]
  /\ UNCHANGED <<LEDCTL, RCTL, saved, i, j, history>>

(* Slip: the inner loop runs once more. *)
Store_Once_More(p) ==
  /\ Goto(p, "store", IF i[p] > 0 THEN "load" ELSE IF j[p] > 1 THEN "top" ELSE "restore")
  /\ WriteLed(p, Shift(reg[p]), disturbed[p])
  /\ reg' = [reg EXCEPT ![p] = Only({})]
  /\ i' = [i EXCEPT ![p] = @ - 1]
  /\ j' = [j EXCEPT ![p] = IF i[p] > 0 THEN @ ELSE @ - 1]
  /\ UNCHANGED <<RCTL, saved, running, tangled>>

(* After the last shift of the last round the walk is over. *)
Store(p) ==
  /\ Goto(p, "store", IF i[p] > 1 THEN "load" ELSE IF j[p] > 1 THEN "top" ELSE "restore")
  /\ WriteLed(p, Shift(reg[p]), disturbed[p])
  /\ reg' = [reg EXCEPT ![p] = Only({})]
  /\ i' = [i EXCEPT ![p] = @ - 1]
  /\ j' = [j EXCEPT ![p] = IF i[p] > 1 THEN @ ELSE @ - 1]
  /\ UNCHANGED <<RCTL, saved, running, tangled>>

(* Program p is gone and its variables with it. *)
Gone(p) ==
  /\ pc' = [pc EXCEPT ![p] = "idle"]
  /\ saved' = [saved EXCEPT ![p] = Only({})] /\ reg' = [reg EXCEPT ![p] = Only({})]
  /\ i' = [i EXCEPT ![p] = 0] /\ j' = [j EXCEPT ![p] = 0]
  /\ running' = RemoveFirst(running, p)

Restore(p) ==
  /\ pc[p] = "restore"
  /\ WriteLed(p, saved[p], FALSE)
  /\ Gone(p)
  /\ tangled' = (tangled \/ Last(running) # p)
  /\ UNCHANGED RCTL

(* Killed, as with Ctrl-C while it sleeps. *)
Kill(p) ==
  /\ pc[p] # "idle"
  /\ Gone(p)
  /\ tangled' = (tangled \/ pc[p] # "save")
  /\ UNCHANGED <<LEDCTL, RCTL, disturbed>>

Walk(p) == \/ Map(p) \/ Save(p) \/ Pair(p) \/ Dark(p) \/ Top(p) \/ Load(p)
           \/ Store(p) \/ Restore(p)

WalkNext == \E p \in Program : Walk(p) \/ Kill(p)

WalkSpec == WalkInit /\ [][WalkNext]_walkVars

-----------------------------------------------------------------------------
(* "Restoring starting value" (hw4.c:81): when no copy runs LEDCTL is what *)
(* it was at first, after any number of runs, also of several at a time,   *)
(* if each that began during another ended before it and none was killed.  *)
StartingValueRestored == running = <<>> /\ ~tangled => LEDCTL = Default

(* While no other copy writes LEDCTL, a round blinks one LED at a time     *)
(* from LED 3 down (hw4.c:73-79): shifting 0x80000000 as a uint32_t drags  *)
(* no sign bits along.                                                     *)
OneLedAtATime ==
  \A p \in Program : pc[p] \in {"load", "store"} /\ ~disturbed[p] =>
    LEDCTL = Only({i[p] - 1})
=============================================================================
