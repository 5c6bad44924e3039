------------------------------- MODULE LedMon ------------------------------
(***************************************************************************)
(* HW3/ledmon.c watching the LEDs while programs of LedWalk change them.   *)
(* It reads LEDCTL once and the speed of the link once per LED, from       *)
(* /sys/class/net/<port>/speed, and prints which LEDs it takes to be lit.  *)
(* The link changes when it likes.                                         *)
(*                                                                         *)
(* The checks of the arguments and the printing are left out, and opening  *)
(* the speed file fails in no other way than that it is not there.         *)
(***************************************************************************)
EXTENDS LedWalk

CONSTANTS
  Links,          \* what the speed file may hold
  Unreadable      \* of it: there, but reading it fails

(* No such file, when no port is named or its driver is not loaded. *)
NoFile == 0

ASSUME MonAssumption ==
  NoFile \in Links \ {Unreadable} /\ Links \ {Unreadable} \subseteq Int

VARIABLES
  link,           \* what the speed file holds now
  monPc, led,     \* next step of print_leds, and the LED it is at
  ledctl,         \* its ledctl
  picture,        \* led0 to led3
  during,         \* history: what the speed file held during this picture
  stale           \* history: LEDCTL has changed since ledctl was read

monVars == <<link, monPc, led, ledctl, picture, during, stale>>
watchVars == <<walkVars, monVars>>

LINK_10K  == 0
LINK_100K == 1
LINK_UP   == 2
ACTIVITY  == 3
LINK_ACT  == 4
LINK_10   == 5
LINK_100  == 6
LINK_1000 == 7
LED_ON    == 14
IVRT      == 64

INITIAL_VALUE == [k \in Leds |->
  <<LINK_UP, Blink + ACTIVITY, LINK_100, LINK_1000>>[k + 1]]

(* The modes that light the LED; of the others the program knows nothing   *)
(* and takes it to be off.                                                 *)
ModeLit(mode, speed) ==
  \/ mode = LINK_10K /\ speed \in {10, 1000}
  \/ mode = LINK_100K /\ speed \in {100, 1000}
  \/ mode \in {LINK_UP, LINK_ACT} /\ speed # 0
  \/ mode = LINK_10 /\ speed = 10
  \/ mode = LINK_100 /\ speed = 100
  \/ mode = LINK_1000 /\ speed = 1000
  \/ mode = LED_ON

(* Slip: the bits are tested with && instead of &. *)
get_led_state_Logical(bits, speed) == ModeLit(bits % 16, speed)

get_led_state(bits, speed) ==
  (ModeLit(bits % 16, speed) # (bits % 128 >= IVRT)) # (bits >= Blink)

(* The speed get_led_state comes to.  When fgets fails speed_buf is not    *)
(* initialized, and may hold what an earlier call left there.              *)
Speeds == Links \ {Unreadable}
SpeedRead == IF link = Unreadable THEN Speeds ELSE {link}

MonTypeOK ==
  /\ WalkTypeOK
  /\ link \in Links /\ monPc \in {"look", "led", "show"} /\ led \in Leds
  /\ ledctl \in [Leds -> 0 .. 255] /\ picture \in [Leds -> BOOLEAN]
  /\ during \subseteq Links /\ stale \in BOOLEAN

MonInit ==
  /\ WalkInit
  /\ link \in Links /\ monPc = "look" /\ led = 0
  /\ ledctl = Only({}) /\ picture = [k \in Leds |-> FALSE]
  /\ during = {} /\ stale = FALSE

-----------------------------------------------------------------------------
(* print_leds. *)

Look ==
  /\ monPc = "look" /\ monPc' = "led"
  /\ ledctl' = LEDCTL
  /\ during' = {link} /\ stale' = FALSE
  /\ UNCHANGED <<walkVars, link, led, picture>>

(* Slip: the register is read again for each LED. *)
LookAtLed_Again ==
  /\ monPc = "led"
  /\ \E speed \in SpeedRead :
       picture' = [picture EXCEPT ![led] = get_led_state(LEDCTL[led], speed)]
  /\ IF led = 3 THEN monPc' = "show" /\ UNCHANGED led
                ELSE led' = led + 1 /\ UNCHANGED monPc
  /\ UNCHANGED <<walkVars, link, ledctl, during, stale>>

LookAtLed ==
  /\ monPc = "led"
  /\ \E speed \in SpeedRead :
       picture' = [picture EXCEPT ![led] = get_led_state(ledctl[led], speed)]
  /\ IF led = 3 THEN monPc' = "show" /\ UNCHANGED led
                ELSE led' = led + 1 /\ UNCHANGED monPc
  /\ UNCHANGED <<walkVars, link, ledctl, during, stale>>

(* The picture is printed.  With -L another follows. *)
Show ==
  /\ monPc = "show" /\ monPc' = "look"
  /\ led' = 0 /\ ledctl' = Only({}) /\ picture' = [k \in Leds |-> FALSE]
  /\ during' = {} /\ stale' = FALSE
  /\ UNCHANGED <<walkVars, link>>

(* The cable, the other end, or the driver of the port. *)
LinkChanges ==
  /\ \E l \in Links :
       /\ link' = l
       /\ during' = IF monPc = "look" THEN {} ELSE during \cup {l}
  /\ UNCHANGED <<walkVars, monPc, led, ledctl, picture, stale>>

Walks ==
  /\ WalkNext
  /\ stale' = (monPc # "look" /\ (stale \/ LEDCTL' # LEDCTL))
  /\ UNCHANGED <<link, monPc, led, ledctl, picture, during>>

MonNext == Look \/ LookAtLed \/ Show \/ LinkChanges \/ Walks

MonSpec == MonInit /\ [][MonNext]_watchVars

-----------------------------------------------------------------------------
(* A picture shows each LED of the one register value read at its          *)
(* beginning (ledmon.c:203-222), whatever programs write meanwhile, at a   *)
(* speed the link had while the picture was taken (ledmon.c:117-128); at   *)
(* the same speed all four, if the link does not change.  It is for        *)
(* pictures during which the speed could be read.                          *)
EachLedOfSomeMoment ==
  monPc = "show" /\ Unreadable \notin during =>
    \A k \in Leds : \E s \in during : picture[k] = get_led_state(ledctl[k], s)

(* What hw4.c does is what ledmon.c shows: with no speed to be read        *)
(* (ledmon.txt:55-58), a picture taken while a single copy sleeps between  *)
(* two shifts shows the LED it is at (hw4.c:73-79) and no other.           *)
WalkIsSeen ==
  \A p \in Program :
    /\ monPc = "show" /\ during = {NoFile} /\ ~stale
    /\ pc[p] = "load" /\ ~disturbed[p]
    => picture = [k \in Leds |-> k = i[p] - 1]

(* "Either one of these cases", no port named or its driver not loaded,    *)
(* "will result in this program showing LEDs as off when LEDCTL is in a    *)
(* default configuration" (ledmon.txt:59-61).                              *)
DefaultShownOff ==
  monPc = "show" /\ during = {NoFile} /\ ledctl = INITIAL_VALUE =>
    \A k \in Leds : ~picture[k]
=============================================================================
