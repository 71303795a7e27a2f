-------------------------- MODULE DmxTimingProofs --------------------------
(***************************************************************************)
(* Theorems about DmxTiming: for every period of dmx_loop and every frame  *)
(* length that is no multiple of it.                                       *)
(***************************************************************************)
EXTENDS DmxTiming, TLAPS

(* Arithmetic.                                                             *)
LEMMA NextMultiple ==
  ASSUME NEW n \in Int, NEW p \in Int
  PROVE  /\ n * p \in Int
         /\ (n + 1) * p = n * p + p
  OBVIOUS

LEMMA MultipleNotSmaller ==
  ASSUME NEW n \in Nat, NEW p \in Nat \ {0}
  PROVE  n <= n * p
<1>1. n * p - n = n * (p - 1)
  OBVIOUS
<1>2. n * (p - 1) >= 0
  OBVIOUS
<1>3. n * p \in Int /\ n * (p - 1) \in Int
  OBVIOUS
<1> QED  BY <1>1, <1>2, <1>3

LEMMA SmallerMultiple ==
  ASSUME NEW n \in Nat, NEW m \in Nat, NEW p \in Nat \ {0}
  PROVE  /\ (n - m) * p \in Int
         /\ (n - m) * p <= n * p
<1>1. (n - m) * p = n * p - m * p
  OBVIOUS
<1>2. m * p >= 0 /\ m * p \in Int /\ n * p \in Int
  OBVIOUS
<1> QED  BY <1>1, <1>2

-----------------------------------------------------------------------------
(* What is left of a transmission, and how long dmx_task has waited for it. *)
WaitInv ==
  /\ left > 0 => left + phase + rounds * Period = FrameTicks
  /\ task = "wait" => left > 0 /\ waited + left <= FrameTicks
  /\ waited <= FrameTicks

TimingInv == TypeOK /\ WaitInv /\ Refreshed

LEMMA TimingInit == Init => TimingInv
  BY TimingAssumption DEF Init, TimingInv, TypeOK, WaitInv, Refreshed

LEMMA BetweenTicks ==
  ASSUME TimingInv, Receive \/ Mark \/ Copied \/ UNCHANGED vars
  PROVE  TimingInv'
<1>1. CASE Receive
  BY <1>1, TimingAssumption
  DEF Receive, TimingInv, TypeOK, WaitInv, Refreshed
<1>2. CASE Mark \/ Copied \/ UNCHANGED vars
  BY <1>2 DEF Mark, Copied, vars, TimingInv, TypeOK, WaitInv, Refreshed
<1> QED  BY <1>1, <1>2

(* The last tick of a transmission is no wake-up of dmx_loop.              *)
LEMMA NotInStep ==
  ASSUME TimingInv, left = 1
  PROVE  phase # Period - 1
<1> SUFFICES ASSUME phase = Period - 1
             PROVE  FALSE
  OBVIOUS
<1>1. rounds \in Nat /\ Period \in Nat \ {0} /\ FrameTicks \in Nat
  BY TimingAssumption DEF TimingInv, TypeOK
<1>2. FrameTicks = rounds * Period + Period
  <2>1. 1 + (Period - 1) + rounds * Period = FrameTicks
    BY DEF TimingInv, WaitInv
  <2> QED  BY <2>1, <1>1, NextMultiple
<1>3. FrameTicks = (rounds + 1) * Period
  BY <1>1, <1>2, NextMultiple
<1>4. rounds + 1 \in 0 .. FrameTicks
  <2>1. rounds + 1 <= (rounds + 1) * Period
    BY <1>1, MultipleNotSmaller
  <2> QED  BY <1>1, <1>3, <2>1
<1> QED  BY <1>3, <1>4, TimingAssumption

LEMMA AtTick ==
  ASSUME TimingInv, Tick
  PROVE  TimingInv'
<1> DEFINE onLine == IF left > 0 THEN left - 1 ELSE 0
<1>1. /\ Period \in Nat \ {0} /\ FrameTicks \in Nat \ {0}
      /\ phase \in 0 .. Period - 1 /\ left \in 0 .. FrameTicks
      /\ rounds \in Nat /\ held \in Nat /\ waited \in Nat
      /\ span \in 0 .. CopyTicks /\ CopyTicks \in Nat
      /\ onLine \in 0 .. FrameTicks
  BY TimingAssumption DEF TimingInv, TypeOK
<1>2. /\ phase' = IF phase = Period - 1 THEN 0 ELSE phase + 1
      /\ waited' = IF task = "wait" /\ waited <= FrameTicks
                     THEN waited + 1 ELSE waited
      /\ task' = IF task = "wait" /\ left' = 0 THEN "gap" ELSE task
      /\ frames' = frames
      /\ span' \in 0 .. CopyTicks
  BY <1>1 DEF Tick, TaskPolls, NextPhase
<1>3. phase' \in 0 .. Period - 1
  BY <1>1, <1>2
<1>4. CASE phase' # 0
  <2>1. left' = onLine /\ rounds' = rounds /\ held' = held
    BY <1>4 DEF Tick
  <2>2. TypeOK'
    BY <1>1, <1>2, <1>3, <2>1 DEF TimingInv, TypeOK
  <2>3. phase' = phase + 1
    BY <1>2, <1>4
  <2>4. left' > 0 => left' + phase' + rounds' * Period = FrameTicks
    <3>1. rounds * Period \in Int
      BY <1>1, NextMultiple
    <3> QED  BY <1>1, <2>1, <2>3, <3>1 DEF TimingInv, WaitInv
  <2>5. task = "wait" => waited' + left' <= FrameTicks
    BY <1>1, <1>2, <2>1 DEF TimingInv, WaitInv
  <2>6. WaitInv'
    BY <1>1, <1>2, <2>1, <2>2, <2>4, <2>5 DEF TimingInv, WaitInv, TypeOK
  <2> QED  BY <2>1, <2>2, <2>6 DEF TimingInv, Refreshed
<1>5. CASE phase' = 0 /\ LoopSends(onLine)
  <2>1. left' = FrameTicks /\ rounds' = 0 /\ held' = 0
    BY <1>5 DEF Tick
  <2>2. TypeOK'
    BY <1>1, <1>2, <1>3, <2>1 DEF TimingInv, TypeOK
  <2>3. task # "wait"
    <3>1. phase = Period - 1 /\ onLine = 0
      BY <1>1, <1>2, <1>5 DEF LoopSends
    <3>2. task = "wait" => left = 1
      BY <1>1, <3>1 DEF TimingInv, WaitInv
    <3> QED  BY <3>1, <3>2, NotInStep
  <2>4. WaitInv'
    BY <1>1, <1>2, <1>5, <2>1, <2>3 DEF TimingInv, WaitInv
  <2>5. Refreshed'
    BY <1>1, <2>1 DEF Refreshed
  <2> QED  BY <2>2, <2>4, <2>5 DEF TimingInv
<1>6. CASE phase' = 0 /\ ~LoopSends(onLine)
  <2>1. /\ left' = onLine /\ rounds' = rounds + 1
        /\ held' = IF onLine = 0 /\ task = "copy" THEN held + 1 ELSE held
    BY <1>6 DEF Tick
  <2>2. TypeOK'
    BY <1>1, <1>2, <1>3, <2>1 DEF TimingInv, TypeOK
  <2>3. phase = Period - 1
    BY <1>1, <1>2, <1>6
  <2>4. rounds * Period \in Int /\ rounds' * Period = rounds * Period + Period
    BY <1>1, <2>1, NextMultiple
  <2>5. left' > 0 => left' + phase' + rounds' * Period = FrameTicks
    BY <1>1, <1>6, <2>1, <2>3, <2>4 DEF TimingInv, WaitInv
  <2>6. task = "wait" => waited' + left' <= FrameTicks
    BY <1>1, <1>2, <2>1 DEF TimingInv, WaitInv
  <2>7. WaitInv'
    BY <1>1, <1>2, <2>1, <2>2, <2>5, <2>6 DEF TimingInv, WaitInv, TypeOK
  <2>8. Refreshed'
    <3>1. CASE onLine = 0
      <4>1. held' = held + 1
        BY <1>6, <2>1, <3>1 DEF LoopSends
      <4>2. rounds' - held' = rounds - held
        BY <1>1, <2>1, <4>1
      <4> QED  BY <4>2 DEF TimingInv, Refreshed
    <3>2. CASE onLine # 0
      <4>1. rounds' * Period < FrameTicks
        BY <1>1, <1>6, <2>1, <2>4, <2>5, <3>2
      <4>2. rounds' \in Nat /\ held' \in Nat
        BY <1>1, <2>1
      <4>3. (rounds' - held') * Period <= rounds' * Period
            /\ (rounds' - held') * Period \in Int
        BY <1>1, <4>2, SmallerMultiple
      <4> QED  BY <1>1, <2>1, <2>4, <4>1, <4>3 DEF Refreshed
    <3> QED  BY <3>1, <3>2
  <2> QED  BY <2>2, <2>7, <2>8 DEF TimingInv
<1> QED  BY <1>4, <1>5, <1>6

LEMMA Timing == Spec => []TimingInv
<1>1. TimingInv /\ [Next]_vars => TimingInv'
  BY BetweenTicks, AtTick DEF Next
<1> QED  BY <1>1, TimingInit, PTL DEF Spec

(* The clock, the line and the tasks keep to their ranges.                 *)
THEOREM TimingTypeOK == Spec => []TypeOK
<1>1. TimingInv => TypeOK
  BY DEF TimingInv
<1> QED  BY <1>1, Timing, PTL

(* A frame waits for at most one transmission.                             *)
THEOREM WaitIsBounded == Spec => []BoundedWait
<1>1. TimingInv => BoundedWait
  BY DEF TimingInv, WaitInv, BoundedWait
<1> QED  BY <1>1, Timing, PTL

(* dmx_loop sends again at its first wake-up after a transmission, unless  *)
(* a copy holds it up.                                                     *)
THEOREM LineIsRefreshed == Spec => []Refreshed
<1>1. TimingInv => Refreshed
  BY DEF TimingInv
<1> QED  BY <1>1, Timing, PTL
=============================================================================
