---------------------------- MODULE LedMonProofs ---------------------------
(***************************************************************************)
(* Proofs about the walk of hw4.c, for any number of copies and of rounds, *)
(* and about ledmon.c watching it, for any speeds of the link.             *)
(***************************************************************************)
EXTENDS LedMon, SequenceTheorems, TLAPS

-----------------------------------------------------------------------------
(* The walk.                                                               *)

(* Whoever is between save and restore is in running, once.                *)
RunningInv ==
  /\ \A p \in Program : (\E k \in 1 .. Len(running) : running[k] = p)
                          <=> pc[p] \notin {"idle", "save"}
  /\ \A k, m \in 1 .. Len(running) : running[k] = running[m] => k = m

(* While no two copies have got in each other's way, the oldest of those   *)
(* that run holds what LEDCTL was at first, and LEDCTL does when none runs.*)
SavedInv ==
  ~tangled => IF running = <<>> THEN LEDCTL = Default
                                ELSE saved[running[1]] = Default

(* The loops, and the LED they are at.                                     *)
LoopInv ==
  \A p \in Program :
    /\ pc[p] \in {"top", "load", "store"} => j[p] > 0
    /\ pc[p] \in {"load", "store"} => i[p] > 0
    /\ pc[p] \in {"load", "store"} /\ ~disturbed[p] => LEDCTL = Only({i[p] - 1})
    /\ pc[p] = "store" /\ ~disturbed[p] => reg[p] = LEDCTL

WalkInv == WalkTypeOK /\ RunningInv /\ SavedInv /\ LoopInv

-----------------------------------------------------------------------------
(* LEDCTL with some LEDs blinking is a value of the register, and shifting *)
(* it by a byte moves the one that blinks down (hw4.c:77).                 *)
LEMMA OnlyFacts ==
  ASSUME NEW S
  PROVE  Only(S) \in [Leds -> 0 .. 255]
BY DEF Only, Leds, Blink

(* A shifted register is a register. *)
LEMMA ShiftFacts ==
  ASSUME NEW r \in [Leds -> 0 .. 255]
  PROVE  Shift(r) \in [Leds -> 0 .. 255]
<1>1. \A k \in Leds : k < 3 => k + 1 \in Leds
  BY DEF Leds
<1> QED BY <1>1 DEF Shift

(* Shifting the one LED that blinks gives the one below it. *)
LEMMA ShiftOnly ==
  ASSUME NEW n \in 1 .. 3
  PROVE  Shift(Only({n})) = Only({n - 1})
<1>1. \A k \in Leds : k < 3 => Only({n})[k + 1] = IF k + 1 = n THEN Blink ELSE 0
  BY DEF Only, Leds
<1>2. \A k \in Leds : Shift(Only({n}))[k] = IF k = n - 1 THEN Blink ELSE 0
  BY <1>1 DEF Shift, Leds
<1>3. Shift(Only({n})) = [k \in Leds |-> IF k = n - 1 THEN Blink ELSE 0]
  BY <1>2 DEF Shift
<1> QED BY <1>3 DEF Only

(* Taking a program out of a sequence that has it once: the rest keeps its *)
(* order, and taking the last one out leaves the beginning as it is.       *)
LEMMA RemoveOnce ==
  ASSUME NEW S, NEW s \in Seq(S), NEW m \in 1 .. Len(s),
         \A k \in 1 .. Len(s) : s[k] = s[m] => k = m
  PROVE  /\ RemoveFirst(s, s[m]) \in Seq(S)
         /\ Len(RemoveFirst(s, s[m])) = Len(s) - 1
         /\ \A k \in 1 .. Len(s) - 1 :
              RemoveFirst(s, s[m])[k] = IF k < m THEN s[k] ELSE s[k + 1]
<1> DEFINE a == SubSeq(s, 1, m - 1)
           b == SubSeq(s, m + 1, Len(s))
<1>0. Len(s) \in Nat
  BY LenProperties
<1>1. {k \in 1 .. Len(s) : s[k] = s[m]} = {m}
  OBVIOUS
<1>2. Min({m}) = m
  BY DEF Min
<1>3. RemoveFirst(s, s[m]) = a \o b
  BY <1>1, <1>2 DEF RemoveFirst, RemoveAt, SelectInSeq
<1>4. /\ a \in Seq(S) /\ Len(a) = m - 1
      /\ \A k \in 1 .. m - 1 : a[k] = s[k]
  BY SubSeqProperties, ElementOfSeq
<1>5. /\ b \in Seq(S) /\ Len(b) = Len(s) - m
      /\ \A k \in 1 .. Len(s) - m : b[k] = s[k + m]
  BY SubSeqProperties, ElementOfSeq
<1> HIDE DEF a, b
<1>6. /\ a \o b \in Seq(S) /\ Len(a \o b) = Len(s) - 1
      /\ \A k \in 1 .. Len(s) - 1 :
           (a \o b)[k] = IF k <= m - 1 THEN a[k] ELSE b[k - (m - 1)]
  <2>1. /\ a \o b \in Seq(S) /\ Len(a \o b) = Len(a) + Len(b)
        /\ \A k \in 1 .. Len(a) + Len(b) :
             (a \o b)[k] = IF k <= Len(a) THEN a[k] ELSE b[k - Len(a)]
    BY <1>4, <1>5, ConcatProperties
  <2>2. Len(a) + Len(b) = Len(s) - 1
    BY <1>4, <1>5, LenProperties
  <2> QED BY <2>1, <2>2, <1>4
<1>7. ASSUME NEW k \in 1 .. Len(s) - 1
      PROVE  (a \o b)[k] = IF k < m THEN s[k] ELSE s[k + 1]
  <2>1. CASE k < m
    BY <2>1, <1>4, <1>6
  <2>2. CASE k >= m
    <3>1. /\ k - (m - 1) \in 1 .. Len(s) - m /\ (k - (m - 1)) + m = k + 1
          /\ ~(k <= m - 1) /\ ~(k < m)
      BY <2>2
    <3> QED BY <3>1, <1>5, <1>6
  <2>3. k < m \/ k >= m
    BY <1>0
  <2> QED BY <2>1, <2>2, <2>3
<1> QED BY <1>3, <1>6, <1>7

(* Taking the last out of a sequence without repetitions leaves its first  *)
(* in place, or nothing.                                                   *)
LEMMA RemoveLast ==
  ASSUME NEW S, NEW s \in Seq(S), s # <<>>,
         \A k, m \in 1 .. Len(s) : s[k] = s[m] => k = m
  PROVE  IF Len(s) = 1
           THEN RemoveFirst(s, Last(s)) = <<>> /\ s[1] = Last(s)
           ELSE /\ RemoveFirst(s, Last(s)) # <<>>
                /\ RemoveFirst(s, Last(s))[1] = s[1] /\ s[1] # Last(s)
<1> DEFINE n == Len(s)
           t == RemoveFirst(s, Last(s))
<1>1. n \in Nat /\ n # 0
  BY LenProperties, EmptySeq
<1>2. n \in 1 .. n
  BY <1>1
<1>3. /\ t \in Seq(S) /\ Len(t) = n - 1
      /\ \A k \in 1 .. n - 1 : t[k] = IF k < n THEN s[k] ELSE s[k + 1]
  BY <1>2, RemoveOnce DEF Last
<1>4. \A k \in 1 .. n : s[k] = Last(s) => k = n
  BY <1>2 DEF Last
<1> HIDE DEF n, t
<1>5. CASE n = 1
  <2>1. t = <<>>
    BY <1>3, <1>5, EmptySeq
  <2> QED BY <2>1, <1>5 DEF n, t, Last
<1>6. CASE n # 1
  <2>1. 1 \in 1 .. n - 1 /\ 1 \in 1 .. n /\ 1 < n
    BY <1>1, <1>6
  <2>2. t # <<>>
    BY <1>1, <1>3, <1>6, EmptySeq
  <2>3. t[1] = s[1] /\ s[1] # Last(s)
    BY <2>1, <1>3, <1>4, <1>6
  <2> QED BY <2>2, <2>3, <1>6 DEF n, t
<1> QED BY <1>5, <1>6

(* Taking out what is not there changes nothing. *)
LEMMA RemoveAbsent ==
  ASSUME NEW s, NEW e, \A k \in 1 .. Len(s) : s[k] # e
  PROVE  RemoveFirst(s, e) = s
BY DEF RemoveFirst

(* A program that goes is taken out of running, and nobody else is.        *)
LEMMA GoneRunning ==
  ASSUME running \in Seq(Program), NEW p \in Program,
         \A k, m \in 1 .. Len(running) : running[k] = running[m] => k = m,
         running' = RemoveFirst(running, p)
  PROVE  /\ running' \in Seq(Program)
         /\ \A q \in Program :
              (\E k \in 1 .. Len(running') : running'[k] = q)
                <=> q # p /\ (\E k \in 1 .. Len(running) : running[k] = q)
         /\ \A k, m \in 1 .. Len(running') : running'[k] = running'[m] => k = m
<1>1. CASE \A k \in 1 .. Len(running) : running[k] # p
  BY <1>1, RemoveAbsent
<1>2. ASSUME NEW m \in 1 .. Len(running), running[m] = p
      PROVE  /\ running' \in Seq(Program)
             /\ \A q \in Program :
                  (\E k \in 1 .. Len(running') : running'[k] = q)
                    <=> q # p /\ (\E k \in 1 .. Len(running) : running[k] = q)
             /\ \A k, n \in 1 .. Len(running') :
                  running'[k] = running'[n] => k = n
  <2>1. /\ running' \in Seq(Program) /\ Len(running') = Len(running) - 1
        /\ \A k \in 1 .. Len(running) - 1 :
             running'[k] = IF k < m THEN running[k] ELSE running[k + 1]
    BY <1>2, RemoveOnce
  <2>2. Len(running) \in Nat
    BY LenProperties
  <2>3. ASSUME NEW q \in Program, NEW k \in 1 .. Len(running'), running'[k] = q
        PROVE  q # p /\ \E n \in 1 .. Len(running) : running[n] = q
    <3>1. k \in 1 .. Len(running) /\ k + 1 \in 1 .. Len(running)
      BY <2>1, <2>2
    <3> QED BY <3>1, <2>1, <2>2, <2>3, <1>2
  <2>4. ASSUME NEW q \in Program, q # p,
               NEW k \in 1 .. Len(running), running[k] = q
        PROVE  \E n \in 1 .. Len(running') : running'[n] = q
    <3>1. CASE k < m
      <4>1. k \in 1 .. Len(running) - 1
        BY <3>1, <2>2
      <4> QED BY <4>1, <3>1, <2>1, <2>4
    <3>2. CASE k > m
      <4>1. k - 1 \in 1 .. Len(running) - 1 /\ ~(k - 1 < m) /\ (k - 1) + 1 = k
        BY <3>2, <2>2
      <4> QED BY <4>1, <2>1, <2>4
    <3> QED BY <3>1, <3>2, <2>4, <1>2, <2>2
  <2>5. ASSUME NEW k \in 1 .. Len(running'), NEW n \in 1 .. Len(running'),
               running'[k] = running'[n]
        PROVE  k = n
    <3>1. /\ k \in 1 .. Len(running) /\ k + 1 \in 1 .. Len(running)
          /\ n \in 1 .. Len(running) /\ n + 1 \in 1 .. Len(running)
      BY <2>1, <2>2
    <3>2. /\ running'[k] = IF k < m THEN running[k] ELSE running[k + 1]
          /\ running'[n] = IF n < m THEN running[n] ELSE running[n + 1]
      BY <2>1, <2>2
    <3> QED BY <3>1, <3>2, <2>5, <2>2
  <2> QED BY <2>1, <2>3, <2>4, <2>5
<1> QED BY <1>1, <1>2

(* A copy that saves joins the end of those that run. *)
LEMMA SaveRunning ==
  ASSUME running \in Seq(Program), NEW p \in Program,
         running' = Append(running, p)
  PROVE  /\ running' \in Seq(Program)
         /\ Len(running') = Len(running) + 1
         /\ \A k \in 1 .. Len(running) : running'[k] = running[k]
         /\ running'[Len(running')] = p
BY AppendProperties, LenProperties

-----------------------------------------------------------------------------
(* The invariant holds before the first copy is run. *)
LEMMA WalkInitInv == WalkInit => WalkInv
<1> SUFFICES ASSUME WalkInit PROVE WalkInv
  OBVIOUS
<1>1. WalkTypeOK
  <2>1. Only({}) \in [Leds -> 0 .. 255] /\ Default \in [Leds -> 0 .. 255]
    BY OnlyFacts, WalkAssumption DEF Leds
  <2>2. 0 \in 0 .. Rounds
    BY WalkAssumption
  <2>3. running \in Seq(Program)
    BY EmptySeq DEF WalkInit
  <2>4. /\ saved \in [Program -> [Leds -> 0 .. 255]]
        /\ reg \in [Program -> [Leds -> 0 .. 255]]
    BY <2>1 DEF WalkInit
  <2>5. i \in [Program -> 0 .. 4] /\ j \in [Program -> 0 .. Rounds]
    BY <2>2 DEF WalkInit
  <2> QED BY <2>1, <2>3, <2>4, <2>5 DEF WalkInit, WalkTypeOK
<1>2. RunningInv
  BY DEF WalkInit, RunningInv
<1>3. SavedInv /\ LoopInv
  BY DEF WalkInit, SavedInv, LoopInv
<1> QED BY <1>1, <1>2, <1>3 DEF WalkInv

(* No step takes a variable out of its type. *)
LEMMA WalkTypeStep ==
  ASSUME WalkInv, NEW p \in Program, Walk(p) \/ Kill(p)
  PROVE  WalkTypeOK'
<1> USE DEF WalkInv, locals, history
<1>1. CASE Map(p)
  BY <1>1 DEF Map, Goto, WalkTypeOK
<1>2. CASE Save(p)
  BY <1>2, SaveRunning DEF Save, Goto, WalkTypeOK
<1>3. CASE Pair(p)
  BY <1>3, OnlyFacts DEF Pair, Goto, WriteLed, WalkTypeOK
<1>4. CASE Dark(p)
  <2>1. Rounds \in 0 .. Rounds
    BY WalkAssumption
  <2> QED BY <1>4, <2>1, OnlyFacts DEF Dark, Goto, WriteLed, WalkTypeOK
<1>5. CASE Top(p)
  <2>1. LEDCTL' \in [Leds -> 0 .. 255]
    BY <1>5, OnlyFacts DEF Top, WriteLed
  <2>2. i' \in [Program -> 0 .. 4]
    BY <1>5 DEF Top, WalkTypeOK
  <2> QED BY <1>5, <2>1, <2>2 DEF Top, Goto, WriteLed, WalkTypeOK
<1>6. CASE Load(p)
  BY <1>6 DEF Load, Goto, WalkTypeOK
<1>7. CASE Store(p)
  <2>1. Shift(reg[p]) \in [Leds -> 0 .. 255] /\ Only({}) \in [Leds -> 0 .. 255]
    BY OnlyFacts, ShiftFacts DEF WalkTypeOK
  <2>2. i[p] > 0 /\ j[p] > 0
    BY <1>7 DEF Store, Goto, LoopInv
  <2>3. i[p] - 1 \in 0 .. 4 /\ j[p] - 1 \in 0 .. Rounds
    BY <2>2, WalkAssumption DEF WalkTypeOK
  <2> QED BY <1>7, <2>1, <2>3 DEF Store, Goto, WriteLed, WalkTypeOK
<1>8. ASSUME Gone(p), LEDCTL' \in [Leds -> 0 .. 255], UNCHANGED RCTL,
             tangled' \in BOOLEAN, disturbed' \in [Program -> BOOLEAN]
      PROVE  WalkTypeOK'
  <2>1. running' \in Seq(Program)
    BY <1>8, GoneRunning DEF Gone, WalkTypeOK, RunningInv
  <2>2. 0 \in 0 .. Rounds
    BY WalkAssumption
  <2>3. Only({}) \in [Leds -> 0 .. 255]
    BY OnlyFacts
  <2>4. /\ saved' \in [Program -> [Leds -> 0 .. 255]]
        /\ reg' \in [Program -> [Leds -> 0 .. 255]]
    BY <1>8, <2>3 DEF Gone, WalkTypeOK
  <2>5. i' \in [Program -> 0 .. 4] /\ j' \in [Program -> 0 .. Rounds]
    BY <1>8, <2>2 DEF Gone, WalkTypeOK
  <2> QED BY <1>8, <2>1, <2>4, <2>5 DEF Gone, WalkTypeOK
<1>9. CASE Restore(p)
  BY <1>8, <1>9 DEF Restore, WriteLed, WalkTypeOK
<1>10. CASE Kill(p)
  BY <1>8, <1>10 DEF Kill, WalkTypeOK
<1> QED BY <1>1, <1>2, <1>3, <1>4, <1>5, <1>6, <1>7, <1>9, <1>10 DEF Walk

(* Exactly the copies between save and restore stay in running. *)
LEMMA RunningStep ==
  ASSUME WalkInv, NEW p \in Program, Walk(p) \/ Kill(p)
  PROVE  RunningInv'
<1> USE DEF WalkInv, WalkTypeOK
<1>1. CASE Save(p)
  <2>1. Len(running) \in Nat
    BY LenProperties
  <2>2. /\ running' \in Seq(Program) /\ Len(running') = Len(running) + 1
        /\ \A k \in 1 .. Len(running) : running'[k] = running[k]
        /\ running'[Len(running')] = p
    BY <1>1, SaveRunning DEF Save
  <2>3. \A k \in 1 .. Len(running) : running[k] # p
    BY <1>1 DEF Save, Goto, RunningInv
  <2>4. \A k \in 1 .. Len(running') : k \in 1 .. Len(running) \/ k = Len(running')
    BY <2>1, <2>2
  <2>5. Len(running') \in 1 .. Len(running') /\ 1 .. Len(running) \subseteq 1 .. Len(running')
    BY <2>1, <2>2
  <2>6. \A q \in Program : (\E k \in 1 .. Len(running') : running'[k] = q)
           <=> q = p \/ (\E k \in 1 .. Len(running) : running[k] = q)
    BY <2>2, <2>4, <2>5
  <2>7. \A q \in Program : pc'[q] = IF q = p THEN "pair" ELSE pc[q]
    BY <1>1 DEF Save, Goto
  <2>8. ASSUME NEW k \in 1 .. Len(running'), NEW m \in 1 .. Len(running'),
               running'[k] = running'[m]
        PROVE  k = m
    <3>1. CASE k \in 1 .. Len(running) /\ m \in 1 .. Len(running)
      BY <3>1, <2>2, <2>8 DEF RunningInv
    <3>2. CASE k = Len(running') \/ m = Len(running')
      BY <3>2, <2>2, <2>3, <2>4, <2>8
    <3> QED BY <3>1, <3>2, <2>4
  <2>9. \A q \in Program : (\E k \in 1 .. Len(running') : running'[k] = q)
           <=> pc'[q] \notin {"idle", "save"}
    BY <2>6, <2>7 DEF RunningInv
  <2>10. \A k, m \in 1 .. Len(running') : running'[k] = running'[m] => k = m
    BY <2>8
  <2> QED BY <2>9, <2>10 DEF RunningInv
<1>2. ASSUME Gone(p) PROVE RunningInv'
  <2>1. /\ \A q \in Program :
             (\E k \in 1 .. Len(running') : running'[k] = q)
               <=> q # p /\ (\E k \in 1 .. Len(running) : running[k] = q)
        /\ \A k, m \in 1 .. Len(running') : running'[k] = running'[m] => k = m
    BY <1>2, GoneRunning DEF Gone, RunningInv
  <2>2. \A q \in Program : pc'[q] = IF q = p THEN "idle" ELSE pc[q]
    BY <1>2 DEF Gone
  <2>3. \A q \in Program : (\E k \in 1 .. Len(running') : running'[k] = q)
           <=> pc'[q] \notin {"idle", "save"}
    BY <2>1, <2>2 DEF RunningInv
  <2> QED BY <2>1, <2>3 DEF RunningInv
<1>3. CASE Restore(p) \/ Kill(p)
  BY <1>2, <1>3 DEF Restore, Kill
<1>4. CASE Map(p)
  BY <1>4 DEF Map, Goto, RunningInv, history
<1>5. CASE Pair(p) \/ Dark(p) \/ Top(p) \/ Load(p) \/ Store(p)
  <2>1. UNCHANGED running /\ pc[p] \notin {"idle", "save"}
    BY <1>5 DEF Pair, Dark, Top, Load, Store, Goto, history
  <2>2. \E s \in {"dark", "top", "load", "store", "restore"} :
          pc' = [pc EXCEPT ![p] = s]
    BY <1>5 DEF Pair, Dark, Top, Load, Store, Goto
  <2> QED BY <2>1, <2>2 DEF RunningInv
<1> QED BY <1>1, <1>3, <1>4, <1>5 DEF Walk

(* While runs are nested, the oldest keeps the starting value. *)
LEMMA SavedStep ==
  ASSUME WalkInv, NEW p \in Program, Walk(p) \/ Kill(p)
  PROVE  SavedInv'
<1> USE DEF WalkInv, WalkTypeOK
<1>1. Len(running) \in Nat /\ (running # <<>> => Len(running) > 0)
  BY LenProperties, EmptySeq
<1>2. running # <<>> => /\ running[1] \in Program
                        /\ pc[running[1]] \notin {"idle", "save"}
  BY <1>1 DEF RunningInv
<1>3. CASE Map(p)
  BY <1>3 DEF Map, SavedInv, locals, history
<1>4. CASE Save(p)
  <2>1. /\ running' # <<>> /\ Len(running') = Len(running) + 1
        /\ \A k \in 1 .. Len(running) : running'[k] = running[k]
        /\ running'[Len(running')] = p
    BY <1>4, SaveRunning, AppendProperties DEF Save
  <2>2. CASE running = <<>>
    <3>1. running'[1] = p
      BY <2>1, <2>2, EmptySeq
    <3> QED BY <1>4, <2>1, <2>2, <3>1 DEF Save, SavedInv
  <2>3. CASE running # <<>>
    <3>1. running'[1] = running[1] /\ running[1] # p
      BY <1>1, <1>2, <1>4, <2>1, <2>3 DEF Save, Goto
    <3> QED BY <1>2, <1>4, <2>1, <2>3, <3>1 DEF Save, SavedInv
  <2> QED BY <2>2, <2>3
<1>5. CASE Pair(p) \/ Dark(p) \/ Top(p) \/ Load(p) \/ Store(p)
  <2>1. UNCHANGED <<running, saved, tangled>> /\ pc[p] \notin {"idle", "save"}
    BY <1>5 DEF Pair, Dark, Top, Load, Store, Goto, locals, history
  <2>2. running # <<>>
    BY <2>1, EmptySeq DEF RunningInv
  <2> QED BY <2>1, <2>2 DEF SavedInv
<1>6. CASE Restore(p)
  <2>1. CASE ~tangled'
    <3>1. running # <<>>
      <4>1. \E k \in 1 .. Len(running) : running[k] = p
        BY <1>6 DEF Restore, RunningInv
      <4> QED BY <4>1, EmptySeq
    <3>2. Last(running) = p /\ ~tangled
      BY <1>6, <2>1 DEF Restore
    <3>3. IF Len(running) = 1 THEN running' = <<>> /\ running[1] = p
          ELSE running' # <<>> /\ running'[1] = running[1] /\ running[1] # p
      BY <1>6, <3>1, <3>2, RemoveLast DEF Restore, Gone, RunningInv
    <3>4. CASE Len(running) = 1
      BY <1>6, <2>1, <3>1, <3>2, <3>3, <3>4 DEF Restore, WriteLed, SavedInv
    <3>5. CASE Len(running) # 1
      BY <1>2, <1>6, <3>1, <3>2, <3>3, <3>5 DEF Restore, Gone, SavedInv
    <3> QED BY <3>4, <3>5
  <2> QED BY <2>1 DEF SavedInv
<1>7. CASE Kill(p)
  <2>1. CASE pc[p] = "save"
    <3>1. \A k \in 1 .. Len(running) : running[k] # p
      BY <2>1 DEF RunningInv
    <3>2. UNCHANGED <<running, LEDCTL, tangled>>
      BY <1>7, <2>1, <3>1, RemoveAbsent DEF Kill, Gone
    <3> QED BY <1>1, <1>2, <1>7, <3>1, <3>2 DEF Kill, Gone, SavedInv
  <2>2. CASE pc[p] # "save"
    BY <1>7, <2>2 DEF Kill, SavedInv
  <2> QED BY <2>1, <2>2
<1> QED BY <1>3, <1>4, <1>5, <1>6, <1>7 DEF Walk

(* What a copy knows of the register is lost as soon as another writes it. *)
LEMMA LoopStep ==
  ASSUME WalkInv, NEW p \in Program, Walk(p) \/ Kill(p)
  PROVE  LoopInv'
<1> USE DEF WalkInv, WalkTypeOK
<1> DEFINE Loop(q) ==
      /\ pc[q] \in {"top", "load", "store"} => j[q] > 0
      /\ pc[q] \in {"load", "store"} => i[q] > 0
      /\ pc[q] \in {"load", "store"} /\ ~disturbed[q] =>
           LEDCTL = Only({i[q] - 1})
      /\ pc[q] = "store" /\ ~disturbed[q] => reg[q] = LEDCTL
<1>1. ASSUME NEW q \in Program, q # p PROVE Loop(q)'
  <2>1. UNCHANGED <<pc[q], i[q], j[q], reg[q]>>
    <3>1. CASE Map(p) \/ Save(p) \/ Pair(p) \/ Dark(p) \/ Top(p) \/ Load(p)
      BY <1>1, <3>1 DEF Map, Save, Pair, Dark, Top, Load, Goto, locals
    <3>2. CASE Store(p)
      BY <1>1, <3>2 DEF Store, Goto
    <3>3. CASE Restore(p) \/ Kill(p)
      BY <1>1, <3>3 DEF Restore, Kill, Gone
    <3> QED BY <3>1, <3>2, <3>3 DEF Walk
  <2>2. disturbed'[q] \/ UNCHANGED <<LEDCTL, disturbed[q]>>
    BY <1>1 DEF Walk, Map, Save, Pair, Dark, Top, Load, Store, Restore, Kill,
                WriteLed, history
  <2> QED BY <2>1, <2>2 DEF LoopInv
<1>2. Loop(p)'
  <2>1. CASE Map(p) \/ Save(p) \/ Pair(p) \/ Restore(p) \/ Kill(p)
    BY <2>1 DEF Map, Save, Pair, Restore, Kill, Gone, Goto
  <2>2. CASE Dark(p)
    BY <2>2, WalkAssumption DEF Dark, Goto
  <2>3. CASE Top(p)
    <3>1. /\ pc'[p] = "load" /\ i'[p] = 4 /\ j'[p] = j[p] /\ j[p] > 0
          /\ LEDCTL' = Only({3})
      BY <2>3 DEF Top, Goto, WriteLed, LoopInv
    <3> QED BY <3>1
  <2>4. CASE Load(p)
    BY <2>4 DEF Load, Goto, LoopInv, history
  <2>5. CASE Store(p)
    <3>1. /\ pc[p] = "store" /\ i[p] > 0 /\ j[p] > 0
          /\ ~disturbed[p] => reg[p] = Only({i[p] - 1})
      BY <2>5 DEF Store, Goto, LoopInv
    <3>5. i[p] \in 0 .. 4 /\ j[p] \in 0 .. Rounds
      OBVIOUS
    <3>2. /\ i'[p] = i[p] - 1
          /\ j'[p] = IF i[p] > 1 THEN j[p] ELSE j[p] - 1
          /\ pc'[p] = IF i[p] > 1 THEN "load"
                      ELSE IF j[p] > 1 THEN "top" ELSE "restore"
          /\ disturbed'[p] = disturbed[p] /\ LEDCTL' = Shift(reg[p])
      BY <2>5 DEF Store, Goto, WriteLed
    <3>3. i[p] > 1 /\ ~disturbed[p] => LEDCTL' = Only({i'[p] - 1})
      <4>1. i[p] > 1 => i[p] - 1 \in 1 .. 3
        BY <3>5
      <4> QED BY <4>1, <3>1, <3>2, ShiftOnly
    <3>4. Rounds \in Nat
      BY WalkAssumption
    <3> QED BY <3>1, <3>2, <3>3, <3>4, <3>5
  <2> QED BY <2>1, <2>2, <2>3, <2>4, <2>5 DEF Walk
<1> QED BY <1>1, <1>2 DEF LoopInv

(* Every step of a copy keeps the invariant. *)
LEMMA WalkStep == WalkInv /\ [WalkNext]_walkVars => WalkInv'
<1> SUFFICES ASSUME WalkInv, [WalkNext]_walkVars PROVE WalkInv'
  OBVIOUS
<1>1. ASSUME NEW p \in Program, Walk(p) \/ Kill(p) PROVE WalkInv'
  BY <1>1, WalkTypeStep, RunningStep, SavedStep, LoopStep DEF WalkInv
<1>2. CASE UNCHANGED walkVars
  BY <1>2 DEF walkVars, locals, history, WalkInv, WalkTypeOK, RunningInv,
              SavedInv, LoopInv
<1> QED BY <1>1, <1>2 DEF WalkNext

(* The registers and the loops keep their bounds for every number of       *)
(* copies and of rounds: no loop counter runs below 0 (hw4.c:73-79).       *)
THEOREM WalkTypeCorrect == WalkSpec => []WalkTypeOK
<1>1. WalkInv => WalkTypeOK
  BY DEF WalkInv
<1> QED BY <1>1, WalkInitInv, WalkStep, PTL DEF WalkSpec

(* When no copy runs LEDCTL is what it was at first, however many copies   *)
(* have run and however often, if they were nested in each other and none  *)
(* was killed (hw4.c:59 and 82): all but the oldest may save and restore   *)
(* whatever the others have made of the register.                          *)
THEOREM ValueAlwaysRestored == WalkSpec => []StartingValueRestored
<1>1. WalkInv => StartingValueRestored
  BY DEF WalkInv, SavedInv, StartingValueRestored
<1> QED BY <1>1, WalkInitInv, WalkStep, PTL DEF WalkSpec

(* A copy that no other disturbs blinks one LED at a time in every round   *)
(* (hw4.c:73-79).                                                          *)
THEOREM OneLedAlways == WalkSpec => []OneLedAtATime
<1>1. WalkInv => OneLedAtATime
  BY DEF WalkInv, LoopInv, OneLedAtATime
<1> QED BY <1>1, WalkInitInv, WalkStep, PTL DEF WalkSpec

-----------------------------------------------------------------------------
(* ledmon.c.                                                               *)

(* A picture begins at LED 0.  While it is taken the link's speed is one   *)
(* it has had during it, ledctl is the register unless that has changed,   *)
(* and each LED that has been looked at shows ledctl at a speed the link   *)
(* has had.                                                                *)
PictureInv ==
  IF monPc = "look" THEN led = 0 ELSE
    /\ link \in during
    /\ ~stale => ledctl = LEDCTL
    /\ Unreadable \notin during =>
         \A k \in Leds : monPc = "show" \/ k < led =>
           \E s \in during : picture[k] = get_led_state(ledctl[k], s)

MonInv == MonTypeOK /\ WalkInv /\ PictureInv

(* To the programs the watcher does not exist: what they do beside it they *)
(* may do alone (ledmon.c only reads the register, ledmon.c:203).          *)
THEOREM WatchedWalk == MonSpec => WalkSpec
<1>1. MonInit => WalkInit
  BY DEF MonInit
<1>2. [MonNext]_watchVars => [WalkNext]_walkVars
  BY DEF MonNext, Look, LookAtLed, Show, LinkChanges, Walks, watchVars
<1> QED BY <1>1, <1>2, PTL DEF MonSpec, WalkSpec

(* A LED is shown as lit or as off. *)
LEMMA LitFacts ==
  ASSUME NEW bits, NEW speed
  PROVE  get_led_state(bits, speed) \in BOOLEAN
BY Zenon DEF get_led_state

(* The invariant holds before the first picture. *)
LEMMA MonInitInv == MonInit => MonInv
<1> SUFFICES ASSUME MonInit PROVE MonInv
  OBVIOUS
<1>1. WalkInv
  BY WalkInitInv DEF MonInit
<1>2. MonTypeOK
  <2>1. Only({}) \in [Leds -> 0 .. 255] /\ 0 \in Leds
    BY OnlyFacts DEF Leds
  <2> QED BY <1>1, <2>1 DEF MonInit, MonTypeOK, WalkInv
<1>3. PictureInv
  BY DEF MonInit, PictureInv
<1> QED BY <1>1, <1>2, <1>3 DEF MonInv

(* Every step of a copy, of the link and of the watcher keeps it. *)
LEMMA MonStep == MonInv /\ [MonNext]_watchVars => MonInv'
<1> SUFFICES ASSUME MonInv, [MonNext]_watchVars PROVE MonInv'
  OBVIOUS
<1> USE DEF MonInv, monVars
<1>0. WalkInv'
  <2>1. [WalkNext]_walkVars
    BY DEF MonNext, Look, LookAtLed, Show, LinkChanges, Walks, watchVars
  <2> QED BY <2>1, WalkStep
<1>1. WalkTypeOK'
  BY <1>0 DEF WalkInv
<1>2. ASSUME Look PROVE MonInv'
  <2>1. MonTypeOK'
    BY <1>1, <1>2 DEF Look, MonTypeOK, WalkTypeOK
  <2>2. PictureInv'
    BY <1>2 DEF Look, PictureInv, walkVars, Leds
  <2> QED BY <1>0, <2>1, <2>2
<1>3. ASSUME LookAtLed PROVE MonInv'
  <2>1. PICK s \in SpeedRead :
          picture' = [picture EXCEPT ![led] = get_led_state(ledctl[led], s)]
    BY <1>3 DEF LookAtLed
  <2>2. get_led_state(ledctl[led], s) \in BOOLEAN
    BY LitFacts
  <2>3. picture' \in [Leds -> BOOLEAN]
    BY <2>1, <2>2 DEF MonTypeOK
  <2>4. led' \in Leds /\ monPc' \in {"led", "show"}
    BY <1>3 DEF LookAtLed, MonTypeOK, Leds
  <2>5. MonTypeOK'
    BY <1>1, <1>3, <2>3, <2>4 DEF LookAtLed, MonTypeOK
  <2>6. link' \in during' /\ (~stale' => ledctl' = LEDCTL')
    BY <1>3 DEF LookAtLed, PictureInv, walkVars
  <2>7. ASSUME Unreadable \notin during',
               NEW k \in Leds, monPc' = "show" \/ k < led'
        PROVE  \E t \in during' : picture'[k] = get_led_state(ledctl'[k], t)
    <3>1. s = link /\ link \in during
      BY <1>3, <2>7 DEF LookAtLed, PictureInv, SpeedRead
    <3>2. k < led \/ k = led
      BY <1>3, <2>7 DEF LookAtLed, MonTypeOK, Leds
    <3>3. CASE k = led
      BY <1>3, <2>1, <3>1, <3>3 DEF LookAtLed, MonTypeOK
    <3>4. CASE k < led
      <4>1. picture'[k] = picture[k]
        BY <2>1, <3>4 DEF MonTypeOK, Leds
      <4> QED BY <1>3, <2>7, <3>4, <4>1 DEF LookAtLed, PictureInv
    <3> QED BY <3>2, <3>3, <3>4
  <2>8. PictureInv'
    BY <2>4, <2>6, <2>7 DEF PictureInv
  <2> QED BY <1>0, <2>5, <2>8
<1>4. ASSUME Show PROVE MonInv'
  <2>1. Only({}) \in [Leds -> 0 .. 255] /\ 0 \in Leds
    BY OnlyFacts DEF Leds
  <2>2. MonTypeOK'
    BY <1>1, <1>4, <2>1 DEF Show, MonTypeOK
  <2>3. PictureInv'
    BY <1>4 DEF Show, PictureInv
  <2> QED BY <1>0, <2>2, <2>3
<1>5. ASSUME LinkChanges PROVE MonInv'
  <2>1. MonTypeOK'
    BY <1>1, <1>5 DEF LinkChanges, MonTypeOK
  <2>2. PictureInv'
    BY <1>5 DEF LinkChanges, PictureInv, walkVars
  <2> QED BY <1>0, <2>1, <2>2
<1>6. ASSUME Walks PROVE MonInv'
  <2>1. MonTypeOK'
    BY <1>1, <1>6 DEF Walks, MonTypeOK
  <2>2. PictureInv'
    BY <1>6 DEF Walks, PictureInv
  <2> QED BY <1>0, <2>1, <2>2
<1>7. CASE UNCHANGED watchVars
  <2>1. MonTypeOK' /\ PictureInv'
    BY <1>1, <1>7 DEF watchVars, walkVars, MonTypeOK, PictureInv
  <2> QED BY <1>0, <2>1
<1> QED BY <1>2, <1>3, <1>4, <1>5, <1>6, <1>7 DEF MonNext

(* It holds at any time. *)
LEMMA MonInvariant == MonSpec => []MonInv
BY MonInitInv, MonStep, PTL DEF MonSpec

(* The types hold also with a watcher, whatever speeds the link may have   *)
(* (ledmon.c:84-222).                                                      *)
THEOREM MonTypeCorrect == MonSpec => []MonTypeOK
<1>1. MonInv => MonTypeOK
  BY DEF MonInv
<1> QED BY <1>1, MonInvariant, PTL

(* A picture is of one value of the register, however many programs write  *)
(* it meanwhile, and each LED of it of a speed the link had while the      *)
(* picture was taken, however it changed (ledmon.c:117-128 and 203-222).   *)
THEOREM PictureOfSomeMoment == MonSpec => []EachLedOfSomeMoment
<1>1. MonInv => EachLedOfSomeMoment
  BY Zenon DEF MonInv, PictureInv, EachLedOfSomeMoment
<1> QED BY <1>1, MonInvariant, PTL

(* With no speed to be read a LED is lit exactly when it blinks, of those  *)
(* that hw4.c leaves.                                                      *)
LEMMA LitWhenBlinking ==
  /\ get_led_state(Blink, NoFile)
  /\ ~get_led_state(0, NoFile)
<1>1. /\ Blink % 16 = 0 /\ 0 % 16 = 0 /\ Blink % 128 = 0 /\ 0 % 128 = 0
  BY DEF Blink
<1>2. ~ModeLit(0, NoFile)
  BY DEF ModeLit, NoFile, LINK_10K, LINK_100K, LINK_UP, LINK_ACT, LINK_10,
         LINK_100, LINK_1000, LED_ON
<1>3. ~(0 >= IVRT) /\ (Blink >= Blink) /\ ~(0 >= Blink)
  BY DEF IVRT, Blink
<1>4. get_led_state(Blink, NoFile) <=>
        (ModeLit(0, NoFile) # (0 >= IVRT)) # (Blink >= Blink)
  BY <1>1, Zenon DEF get_led_state
<1>5. get_led_state(0, NoFile) <=>
        (ModeLit(0, NoFile) # (0 >= IVRT)) # (0 >= Blink)
  BY <1>1, Zenon DEF get_led_state
<1>6. ModeLit(0, NoFile) = FALSE
  BY <1>2, Zenon DEF ModeLit
<1>7. (0 >= IVRT) = FALSE /\ (Blink >= Blink) = TRUE /\ (0 >= Blink) = FALSE
  BY <1>3
<1> QED BY <1>4, <1>5, <1>6, <1>7

(* A picture taken while one copy sleeps between two shifts, and no other  *)
(* interferes, shows the LED it is at and no other (hw4.c:73-79), however  *)
(* many copies there are.                                                  *)
THEOREM WalkAlwaysSeen == MonSpec => []WalkIsSeen
<1>1. MonInv => WalkIsSeen
  <2> SUFFICES ASSUME MonInv, NEW p \in Program,
                      monPc = "show", during = {NoFile}, ~stale,
                      pc[p] = "load", ~disturbed[p]
               PROVE  picture = [k \in Leds |-> k = i[p] - 1]
    BY DEF WalkIsSeen
  <2>1. ledctl = Only({i[p] - 1})
    BY DEF MonInv, WalkInv, LoopInv, PictureInv
  <2>2. Unreadable \notin during
    BY MonAssumption
  <2>3. \A k \in Leds : picture[k] = get_led_state(ledctl[k], NoFile)
    BY <2>2 DEF MonInv, PictureInv
  <2>4. ASSUME NEW k \in Leds PROVE picture[k] = (k = i[p] - 1)
    <3>1. ledctl[k] = IF k = i[p] - 1 THEN Blink ELSE 0
      BY <2>1 DEF Only
    <3>2. get_led_state(ledctl[k], NoFile) = (k = i[p] - 1)
      BY <3>1, LitWhenBlinking, LitFacts
    <3> QED BY <3>2, <2>3
  <2>5. picture \in [Leds -> BOOLEAN]
    BY DEF MonInv, MonTypeOK
  <2> QED BY <2>4, <2>5
<1> QED BY <1>1, MonInvariant, PTL
=============================================================================
