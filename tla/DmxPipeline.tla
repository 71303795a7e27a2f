---------------------------- MODULE DmxPipeline ----------------------------
(***************************************************************************)
(* The firmware's DMX path: the web task turns a key command into a frame  *)
(* (processKeys), the frame goes through dmxQueue, dmx_task copies it into *)
(* the buffer dmxData of class DMX, and the transmitter sends the buffer:  *)
(* either dmx_loop restarts it every 16 ms (rfu_config.dmx_loop), or       *)
(* dmx_task does once per frame.                                           *)
(*                                                                         *)
(* The tasks run under FreeRTOS with preemption: dmx_loop has priority 3,  *)
(* dmx_task and the web task 2, wifi_init_task 1.  On one core a task runs *)
(* only while no task of higher priority is ready; with the SMP port any   *)
(* interleaving can happen.  The DMA and the PIO run beside all of them.   *)
(***************************************************************************)
EXTENDS DmxOutput

CONSTANTS
  QueueLength,  (* Length of dmxQueue (5 in the code).                     *)
  LoopMode,     (* rfu_config.dmx_loop: send constantly, by dmx_loop.      *)
  SMP,          (* FREE_RTOS_KERNEL_SMP: two cores instead of one.         *)
  PowerOn,      (* dmxData as DMX::DMX() leaves it (channel % 256).        *)
  Commands,     (* Key commands: the levels each one sets, by channel.     *)
  MaxCommands   (* Bound: number of key commands issued.                   *)

Release == [c \in Channels |-> 0]  (* The command "release".               *)

ASSUME PipelineAssumption ==
  /\ QueueLength \in Nat \ {0}
  /\ 0 \in Levels
  /\ PowerOn \in Buffer
  /\ LoopMode \in BOOLEAN
  /\ SMP \in BOOLEAN
  /\ MaxCommands \in Nat
  /\ Commands # {}
  /\ \A k \in Commands : \E S \in SUBSET Channels : k \in [S -> Levels]

VARIABLES
  dmxData,      (* DMX::dmxData, the buffer the DMA reads.                 *)
  data_update,  (* DMX::data_update, set around the copy of a frame.       *)
  dmxQueue,     (* FreeRTOS queue of frames.                               *)
  taskPc,       (* dmx_task: where it is.                                  *)
  data,         (* dmx_task: the frame it has received.                    *)
  cursor,       (* dmx_task: next channel unsafeWriteBuffer writes.        *)
  loopPc,       (* dmx_loop: where it is ("none" before it is created).    *)
  webPc,        (* processKeys: where it is ("none" before the web task).  *)
  cmd,          (* processKeys: the command.                               *)
  dmxFrame,     (* processKeys: the frame it builds.                       *)
  reader,       (* processKeys: next channel getshadowbuff reads.          *)
  issued,       (* Number of commands issued so far (bounds the model).    *)
  wanted,       (* History: the levels the commands issued so far ask for. *)
  stale,        (* History: some command since the last release read       *)
                (* dmxData while an earlier frame was still on its way.    *)
  txStart,      (* History: dmxData when the current transmission began.   *)
  txStartPc     (* History: where dmx_task was at that moment.             *)

taskVars == <<taskPc, data, cursor>>
webVars  == <<webPc, cmd, dmxFrame, reader, issued, wanted, stale>>
histVars == <<txStart, txStartPc>>
vars == <<txVars, dmxData, data_update, dmxQueue, taskVars, loopPc, webVars,
          histVars>>

(* The frames of dmxQueue, and dmx_task's data, are uint8_t[512]: indices  *)
(* 0 .. 511.  They have no room for channel 512.                           *)
Carried == 1 .. NumChannels - 1
Frame   == [Carried -> Levels]

TaskPcs == {"create", "zero", "receive", "wait", "sleep", "gap", "write",
            "clear", "send"}

TypeOK ==
  /\ TxTypeOK
  /\ dmxData \in Buffer
  /\ data_update \in BOOLEAN
  /\ dmxQueue \in Seq(Frame) /\ Len(dmxQueue) <= QueueLength
  /\ taskPc \in TaskPcs
  /\ data \in Frame
  /\ cursor \in Channels
  /\ loopPc \in {"none", "delay", "check", "send"}
  /\ webPc \in {"none", "idle", "read", "enqueue"}
  /\ cmd \in Commands
  /\ dmxFrame \in Frame
  /\ reader \in Channels
  /\ issued \in 0 .. MaxCommands
  /\ wanted \in Buffer
  /\ stale \in BOOLEAN
  /\ txStart \in Buffer
  /\ txStartPc \in TaskPcs

-----------------------------------------------------------------------------
(* Scheduling.                                                             *)

LoopReady == loopPc \in {"check", "send"}
TaskReady == IF taskPc = "receive" THEN dmxQueue # <<>> ELSE taskPc # "sleep"

Priority2MayRun == SMP \/ ~LoopReady
Priority1MayRun == SMP \/ (~LoopReady /\ ~TaskReady)

-----------------------------------------------------------------------------
(* Class DMX.                                                              *)

(* Mutant of busy: the transmission in progress forgotten.                 *)
MutBusyNoTx == data_update

(* DMX::busy: the transmitter is busy, or a frame is being copied.         *)
busy == txBusy \/ data_update

(* DMX::sendDMX: transmit the buffer, in place.                            *)
sendDMX ==
  /\ write_dmx
  /\ txStart' = dmxData
  /\ txStartPc' = taskPc
  /\ UNCHANGED <<dmxData, data_update>>

-----------------------------------------------------------------------------
(* dmx_task.                                                               *)

(* Create dmx_loop if the configuration asks for it.                       *)
TaskCreateLoop ==
  /\ taskPc = "create"
  /\ Priority2MayRun
  /\ loopPc' = IF LoopMode THEN "delay" ELSE loopPc
  /\ taskPc' = "zero"
  /\ UNCHANGED <<txVars, dmxData, data_update, dmxQueue, data, cursor,
                 webVars, histVars>>

(* Queue a frame of zeros, without waiting: dropped if the queue is full.  *)
TaskSendZero ==
  /\ taskPc = "zero"
  /\ Priority2MayRun
  /\ dmxQueue' = IF Len(dmxQueue) < QueueLength
                   THEN Append(dmxQueue, [c \in Carried |-> 0])
                   ELSE dmxQueue
  /\ taskPc' = "receive"
  /\ UNCHANGED <<txVars, dmxData, data_update, data, cursor, loopPc, webVars,
                 histVars>>

(* Mutant of TaskReceive: the queue's last frame instead of its first.     *)
MutReceiveNewest ==
  /\ taskPc = "receive"
  /\ Priority2MayRun
  /\ dmxQueue # <<>>
  /\ data' = dmxQueue[Len(dmxQueue)]
  /\ dmxQueue' = SubSeq(dmxQueue, 1, Len(dmxQueue) - 1)
  /\ taskPc' = "wait"
  /\ UNCHANGED <<txVars, dmxData, data_update, cursor, loopPc, webVars,
                 histVars>>

(* xQueueReceive(..., portMAX_DELAY).                                      *)
TaskReceive ==
  /\ taskPc = "receive"
  /\ Priority2MayRun
  /\ dmxQueue # <<>>
  /\ data' = Head(dmxQueue)
  /\ dmxQueue' = Tail(dmxQueue)
  /\ taskPc' = "wait"
  /\ UNCHANGED <<txVars, dmxData, data_update, cursor, loopPc, webVars,
                 histVars>>

(* while (dmx.busy()) vTaskDelay(1): still busy, sleep for a tick ...      *)
TaskPollBusy ==
  /\ taskPc = "wait"
  /\ Priority2MayRun
  /\ busy
  /\ taskPc' = "sleep"
  /\ UNCHANGED <<txVars, dmxData, data_update, dmxQueue, data, cursor, loopPc,
                 webVars, histVars>>

(* ... the tick ends the sleep ...                                         *)
TaskWake ==
  /\ taskPc = "sleep"
  /\ taskPc' = "wait"
  /\ UNCHANGED <<txVars, dmxData, data_update, dmxQueue, data, cursor, loopPc,
                 webVars, histVars>>

(* ... or idle.  The task has left the loop but not yet marked the buffer: *)
(* dmx_loop may preempt it here and start a transmission.                  *)
TaskPollIdle ==
  /\ taskPc = "wait"
  /\ Priority2MayRun
  /\ ~busy
  /\ taskPc' = "gap"
  /\ UNCHANGED <<txVars, dmxData, data_update, dmxQueue, data, cursor, loopPc,
                 webVars, histVars>>

(* Mutant of TaskForceBusy: the buffer is not marked.                      *)
MutForceBusyUnmarked ==
  /\ taskPc = "gap"
  /\ Priority2MayRun
  /\ cursor' = 1
  /\ taskPc' = "write"
  /\ UNCHANGED <<txVars, dmxData, data_update, dmxQueue, data, loopPc, webVars,
                 histVars>>

(* dmx.forceBusy(true).                                                    *)
TaskForceBusy ==
  /\ taskPc = "gap"
  /\ Priority2MayRun
  /\ data_update' = TRUE
  /\ cursor' = 1
  /\ taskPc' = "write"
  /\ UNCHANGED <<txVars, dmxData, dmxQueue, data, loopPc, webVars, histVars>>

(* One iteration of the loop of DMX::unsafeWriteBuffer, i = 1 .. 512.  The *)
(* last one reads data[512], past the end of the array: any byte.          *)
TaskWriteChannel ==
  /\ taskPc = "write"
  /\ Priority2MayRun
  /\ \E residue \in Levels :
       dmxData' = [dmxData EXCEPT ![cursor] =
                     IF cursor \in Carried THEN data[cursor] ELSE residue]
  /\ IF cursor = NumChannels
       THEN taskPc' = "clear" /\ UNCHANGED cursor
       ELSE cursor' = cursor + 1 /\ UNCHANGED taskPc
  /\ UNCHANGED <<txVars, data_update, dmxQueue, data, loopPc, webVars,
                 histVars>>

(* Mutant of TaskClearBusy: the mark is left on.                           *)
MutClearBusyKept ==
  /\ taskPc = "clear"
  /\ Priority2MayRun
  /\ taskPc' = IF LoopMode THEN "receive" ELSE "send"
  /\ UNCHANGED <<txVars, dmxData, data_update, dmxQueue, data, cursor, loopPc,
                 webVars, histVars>>

(* dmx.forceBusy(false), then back to the queue if dmx_loop sends.         *)
TaskClearBusy ==
  /\ taskPc = "clear"
  /\ Priority2MayRun
  /\ data_update' = FALSE
  /\ taskPc' = IF LoopMode THEN "receive" ELSE "send"
  /\ UNCHANGED <<txVars, dmxData, dmxQueue, data, cursor, loopPc, webVars,
                 histVars>>

(* dmx.sendDMX() by dmx_task itself.                                       *)
TaskSend ==
  /\ taskPc = "send"
  /\ Priority2MayRun
  /\ sendDMX
  /\ taskPc' = "receive"
  /\ UNCHANGED <<dmxQueue, data, cursor, loopPc, webVars>>

-----------------------------------------------------------------------------
(* dmx_loop.                                                               *)

(* vTaskDelayUntil returns.                                                *)
LoopWake ==
  /\ loopPc = "delay"
  /\ loopPc' = "check"
  /\ UNCHANGED <<txVars, dmxData, data_update, dmxQueue, taskVars, webVars,
                 histVars>>

(* if (dmx.busy()) continue.                                               *)
LoopCheck ==
  /\ loopPc = "check"
  /\ loopPc' = IF busy THEN "delay" ELSE "send"
  /\ UNCHANGED <<txVars, dmxData, data_update, dmxQueue, taskVars, webVars,
                 histVars>>

(* dmx.sendDMX().                                                          *)
LoopSend ==
  /\ loopPc = "send"
  /\ sendDMX
  /\ loopPc' = "delay"
  /\ UNCHANGED <<dmxQueue, taskVars, webVars>>

-----------------------------------------------------------------------------
(* The web task and processKeys.                                           *)

(* A frame is on its way: queued, or received and not yet in dmxData.      *)
Drained == dmxQueue = <<>> /\ taskPc \in {"receive", "send"}

(* The frame a command asks for, given the frame it starts from.           *)
Overlay(c, f) == [ch \in DOMAIN f |-> IF ch \in DOMAIN c THEN c[ch] ELSE f[ch]]

(* wifi_init_task, at priority 1, creates the web task after dmx_task.     *)
StartWeb ==
  /\ webPc = "none"
  /\ Priority1MayRun
  /\ webPc' = "idle"
  /\ UNCHANGED <<txVars, dmxData, data_update, dmxQueue, taskVars, loopPc, cmd,
                 dmxFrame, reader, issued, wanted, stale, histVars>>

(* processKeys is called: memset(dmxFrame, 0, 512) and the key string.     *)
KeysCall ==
  /\ webPc = "idle"
  /\ issued < MaxCommands
  /\ Priority2MayRun
  /\ cmd' \in Commands
  /\ dmxFrame' = [c \in Carried |-> 0]
  /\ reader' = 1
  /\ issued' = issued + 1
  /\ wanted' = Overlay(cmd', wanted)
  /\ stale' = (cmd' # Release /\ (stale \/ ~Drained))
  /\ webPc' = "read"
  /\ UNCHANGED <<txVars, dmxData, data_update, dmxQueue, taskVars, loopPc,
                 histVars>>

(* Mutant of KeysReadShadow: the frame starts from zero.                   *)
MutReadNothing ==
  /\ webPc = "read"
  /\ Priority2MayRun
  /\ webPc' = "enqueue"
  /\ UNCHANGED <<txVars, dmxData, data_update, dmxQueue, taskVars, loopPc, cmd,
                 dmxFrame, reader, issued, wanted, stale, histVars>>

(* One iteration of DMX::getshadowbuff, i = 1 .. 512: the frame starts as  *)
(* a copy of dmxData.  The last one writes dmxFrame[512], past its end.    *)
KeysReadShadow ==
  /\ webPc = "read"
  /\ Priority2MayRun
  /\ dmxFrame' = IF reader \in Carried
                   THEN [dmxFrame EXCEPT ![reader] = dmxData[reader]]
                   ELSE dmxFrame
  /\ IF reader = NumChannels
       THEN webPc' = "enqueue" /\ UNCHANGED reader
       ELSE reader' = reader + 1 /\ UNCHANGED webPc
  /\ UNCHANGED <<txVars, dmxData, data_update, dmxQueue, taskVars, loopPc, cmd,
                 issued, wanted, stale, histVars>>

(* Mutant of KeysEnqueue: no room asked for.                               *)
MutEnqueueOverfull ==
  /\ webPc = "enqueue"
  /\ Priority2MayRun
  /\ dmxQueue' = Append(dmxQueue, Overlay(cmd, dmxFrame))
  /\ webPc' = "idle"
  /\ UNCHANGED <<txVars, dmxData, data_update, taskVars, loopPc, cmd, dmxFrame,
                 reader, issued, wanted, stale, histVars>>

(* The key tokens applied to the frame, then xQueueSend(..., portMAX_DELAY)*)
(* which waits while the queue is full.                                    *)
KeysEnqueue ==
  /\ webPc = "enqueue"
  /\ Priority2MayRun
  /\ Len(dmxQueue) < QueueLength
  /\ dmxQueue' = Append(dmxQueue, Overlay(cmd, dmxFrame))
  /\ webPc' = "idle"
  /\ UNCHANGED <<txVars, dmxData, data_update, taskVars, loopPc, cmd, dmxFrame,
                 reader, issued, wanted, stale, histVars>>

-----------------------------------------------------------------------------
Init ==
  /\ TxInit
  /\ dmxData = PowerOn
  /\ data_update = FALSE
  /\ dmxQueue = <<>>
  /\ taskPc = "create"
  /\ data = [c \in Carried |-> 0]
  /\ cursor = 1
  /\ loopPc = "none"
  /\ webPc = "none"
  /\ cmd \in Commands
  /\ dmxFrame = [c \in Carried |-> 0]
  /\ reader = 1
  /\ issued = 0
  /\ wanted = [c \in Channels |-> 0]
  /\ stale = FALSE
  /\ txStart = PowerOn
  /\ txStartPc = "create"

Task == \/ TaskCreateLoop \/ TaskSendZero \/ TaskReceive \/ TaskPollBusy
        \/ TaskPollIdle \/ TaskForceBusy \/ TaskWriteChannel
        \/ TaskClearBusy \/ TaskSend
Loop == LoopCheck \/ LoopSend
Keys == KeysCall \/ KeysReadShadow \/ KeysEnqueue
Tick == TaskWake \/ LoopWake
Hardware ==
  /\ DmaTransfer(dmxData) \/ PioPull \/ PioShift
  /\ UNCHANGED <<dmxData, data_update, dmxQueue, taskVars, loopPc, webVars,
                 histVars>>

Next == Task \/ Loop \/ StartWeb \/ Keys \/ Tick \/ Hardware

Spec == Init /\ [][Next]_vars

(* Without dmx_loop no task outranks another for ever: tasks of the same   *)
(* priority share the CPU tick by tick, and the rest is hardware.  With    *)
(* dmx_loop, progress is a matter of time and the subject of DmxTiming.    *)
Fairness ==
  /\ WF_vars(Hardware) /\ WF_vars(Task) /\ WF_vars(TaskWake)
  /\ WF_vars(StartWeb) /\ WF_vars(KeysReadShadow) /\ WF_vars(KeysEnqueue)

FairSpec == Spec /\ Fairness

-----------------------------------------------------------------------------
(* Properties.                                                             *)

(* A slot of the current frame that is on the line and is not the level    *)
(* its channel had in dmxData when write_dmx started the transmission.     *)
Torn == \E i \in DOMAIN wire : i > NumChannels \/ wire[i] # txStart[i]

(* The line carries the frame that sendDMX was called for: dmxData is not  *)
(* written while the DMA still reads it, no byte of an older transmission  *)
(* comes before it.                                                        *)
WholeFrames == ~Torn

(* The one way to a torn frame with dmx_loop on one core: it started while *)
(* dmx_task stood between the end of its busy() loop and forceBusy(true).  *)
TornOnlyFromGap == Torn => txStartPc = "gap"

(* On two cores dmx_loop may also be overtaken between its own busy() and  *)
(* sendDMX: a torn frame then starts at any point of dmx_task's update.    *)
TornOnlyFromUpdate == Torn => txStartPc \in {"gap", "write"}

(* No transmission starts while dmx_task copies a frame into the buffer    *)
(* (one core): dmx_loop's busy() sees data_update.                         *)
NoStartDuringUpdate == [][TaskSend \/ LoopSend => taskPc \notin {"write", "clear"}]_vars

(* A transmission starts on an idle DMA channel and an empty FIFO.         *)
(* pio_sm_restart does not drain the FIFO, so a byte left in it would      *)
(* shift every slot of the new frame by one channel.                       *)
CleanStart == [][TaskSend \/ LoopSend => dma = 0 /\ fifo = <<>>]_vars

(* Everything accepted has been copied: no frame under way, no command in  *)
(* processKeys, and the initial frame of zeros already applied.            *)
Quiescent == Drained /\ webPc = "idle"

(* When the path is quiescent every channel has the level the last command *)
(* that named it asked for, provided every command since the last release  *)
(* was given while no frame was under way.                                 *)
SettlesUnlessStale ==
  Quiescent /\ ~stale => \A c \in Carried : dmxData[c] = wanted[c]

(* Whatever was in flight, a channel the commands turned off is off when   *)
(* the path is quiescent: solo mode turns one channel off and the next one *)
(* on, in two commands, and shows one light.                               *)
OffMeansOff ==
  Quiescent => \A c \in Carried : wanted[c] = 0 => dmxData[c] = 0

(* SettlesUnlessStale for the last channel.                                 *)
LastChannelSettles ==
  Quiescent /\ ~stale => dmxData[NumChannels] = wanted[NumChannels]

(* Every frame accepted by dmxQueue is copied to the buffer whole, once,   *)
(* and in the order of the xQueueSend calls.                               *)
Fifo == INSTANCE FrameFifo WITH
          Frames   <- Frame,
          Capacity <- QueueLength + 1,
          First    <- [c \in Carried |-> PowerOn[c]],
          pending  <- IF taskPc \in {"wait", "sleep", "gap"}
                        THEN <<data>> \o dmxQueue ELSE dmxQueue,
          shown    <- IF taskPc = "write" THEN data
                        ELSE [c \in Carried |-> dmxData[c]]
FramesInOrder == Fifo!Spec
FramesGetShown == Fifo!Live

(* The web task is not blocked for ever by a full queue.                   *)
WebReturns == webPc = "enqueue" ~> webPc = "idle"

(* Again and again the line has carried exactly what the buffer holds.     *)
LineFollowsBuffer == []<>(wire = dmxData)
=============================================================================
