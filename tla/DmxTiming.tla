----------------------------- MODULE DmxTiming -----------------------------
(***************************************************************************)
(* The DMX path in time, with dmx_loop on one core.  One step of the clock *)
(* is a FreeRTOS tick (1 ms).  dmx_loop wakes up every Period ticks (16),  *)
(* dmx_task polls every tick, and a transmission lasts FrameTicks (a break *)
(* of about 185 us and 513 slots of 52 us: 26.9 ms, so that it is over     *)
(* before tick 27).  Between two ticks the tasks of lower priority run.    *)
(***************************************************************************)
EXTENDS Integers

CONSTANTS
  Period,      (* Ticks between two wake-ups of dmx_loop.                  *)
  FrameTicks,  (* Ticks a transmission lasts.                              *)
  CopyTicks,   (* Ticks an update of the buffer may stretch over: it takes *)
               (* some 50 us, but shares the CPU with the web task.        *)
  MaxFrames    (* Bound: number of frames dmx_task receives.               *)

(* A transmission never ends on a wake-up of dmx_loop.                     *)
ASSUME TimingAssumption ==
  /\ Period \in Nat \ {0}
  /\ FrameTicks \in Nat \ {0}
  /\ CopyTicks \in Nat
  /\ \A k \in 0 .. FrameTicks : FrameTicks # k * Period
  /\ MaxFrames \in Nat

VARIABLES
  phase,    (* Ticks since dmx_loop last woke up.                          *)
  left,     (* The tick, counted from now, at which the line is idle.      *)
  task,     (* dmx_task: in xQueueReceive, in the busy() loop, between it  *)
            (* and forceBusy(true), or copying.                            *)
  waited,   (* Ticks dmx_task has spent in its busy() loop for this frame, *)
            (* counted up to FrameTicks + 1.                               *)
  span,     (* Ticks its update of the buffer has stretched over.          *)
  frames,   (* Frames received so far (bounds the model).                  *)
  rounds,   (* Wake-ups of dmx_loop since it last sent.                    *)
  held      (* Those of them that found the line idle but a copy going on. *)

vars == <<phase, left, task, waited, span, frames, rounds, held>>

TypeOK ==
  /\ phase \in 0 .. Period - 1
  /\ left \in 0 .. FrameTicks
  /\ task \in {"receive", "wait", "gap", "copy"}
  /\ waited \in Nat
  /\ span \in 0 .. CopyTicks
  /\ frames \in 0 .. MaxFrames
  /\ rounds \in Nat
  /\ held \in Nat

Init ==
  /\ phase = 0
  /\ left = 0
  /\ task = "receive"
  /\ waited = 0
  /\ span = 0
  /\ frames = 0
  /\ rounds = 0
  /\ held = 0

-----------------------------------------------------------------------------
(* dmx_task between two ticks.                                             *)

(* It receives a frame and asks busy() for the first time.  In the last    *)
(* tick of a transmission the answer can be either.                        *)
Receive ==
  /\ task = "receive"
  /\ frames < MaxFrames
  /\ frames' = frames + 1
  /\ waited' = 0
  /\ span' = 0
  /\ \/ left > 0  /\ task' = "wait"
     \/ left <= 1 /\ task' = "gap"
  /\ UNCHANGED <<phase, left, rounds, held>>

(* forceBusy(true).                                                        *)
Mark ==
  /\ task = "gap"
  /\ task' = "copy"
  /\ UNCHANGED <<phase, left, waited, span, frames, rounds, held>>

(* unsafeWriteBuffer is done; forceBusy(false).                            *)
Copied ==
  /\ task = "copy"
  /\ task' = "receive"
  /\ UNCHANGED <<phase, left, waited, span, frames, rounds, held>>

-----------------------------------------------------------------------------
(* A tick.                                                                 *)

(* Mutant of NextPhase: dmx_loop wakes up a tick late.                     *)
MutNextPhase == IF phase = Period THEN 0 ELSE phase + 1

(* vTaskDelayUntil(&last_wake, 16): the wake-ups are Period ticks apart.   *)
NextPhase == IF phase = Period - 1 THEN 0 ELSE phase + 1

(* Mutant of LoopSends: a frame about to be copied holds dmx_loop up, too. *)
MutLoopSends(onLine) == onLine = 0 /\ task \notin {"gap", "copy"}

(* dmx_loop wakes up: it sends unless DMX::busy().                         *)
LoopSends(onLine) == onLine = 0 /\ task # "copy"

(* Mutant of TaskPolls: dmx_task asks only when dmx_loop wakes up.         *)
MutTaskPolls == task = "wait" /\ phase' = 0

(* vTaskDelay(1) is over: dmx_task asks busy() again, after dmx_loop.      *)
TaskPolls == task = "wait"

Tick ==
  LET onLine == IF left > 0 THEN left - 1 ELSE 0
      updating == task \in {"gap", "copy"}
  IN
  /\ updating => span < CopyTicks
  /\ span' = IF updating THEN span + 1 ELSE span
  /\ phase' = NextPhase
  /\ IF phase' # 0
       THEN left' = onLine /\ UNCHANGED <<rounds, held>>
     ELSE IF LoopSends(onLine)
       THEN left' = FrameTicks /\ rounds' = 0 /\ held' = 0
     ELSE /\ left' = onLine
          /\ rounds' = rounds + 1
          /\ held' = IF onLine = 0 /\ task = "copy" THEN held + 1 ELSE held
  /\ waited' = IF task = "wait" /\ waited <= FrameTicks
                 THEN waited + 1 ELSE waited
  /\ task' = IF TaskPolls /\ left' = 0 THEN "gap" ELSE task
  /\ UNCHANGED frames

Next == Receive \/ Mark \/ Copied \/ Tick

Spec == Init /\ [][Next]_vars

(* Time passes, and dmx_task runs between ticks: dmx_loop sleeps until its *)
(* next period and the web task shares the CPU.                            *)
FairSpec == Spec /\ WF_vars(Tick) /\ WF_vars(Mark) /\ WF_vars(Copied)

-----------------------------------------------------------------------------
(* Properties.                                                             *)

(* A frame waits for at most one transmission, although dmx_loop has the   *)
(* higher priority and sends again and again: dmx_task always gets a poll  *)
(* into the time between two transmissions.                                *)
BoundedWait == waited <= FrameTicks

(* The line is refreshed: leaving out the wake-ups that a copy held up,    *)
(* dmx_loop never lets more wake-ups pass than one transmission covers.    *)
Refreshed == (rounds - held) * Period < FrameTicks

(* Every frame received is copied, however often dmx_loop sends.           *)
FrameApplied == task = "wait" ~> task = "receive"
=============================================================================
