------------------------- MODULE DmxPipelineProofs -------------------------
(***************************************************************************)
(* Theorems about DmxPipeline, for every value of its constants.           *)
(***************************************************************************)
EXTENDS DmxPipeline, SequenceTheorems, TLAPS

(* The parameters are sets of functions a command can be laid over.        *)
LEMMA ChannelFacts ==
  /\ NumChannels \in Nat /\ NumChannels >= 2
  /\ Carried \subseteq Channels
  /\ 1 \in Carried /\ 1 \in Channels /\ NumChannels \in Channels
  /\ \A c \in Channels : c # NumChannels => c \in Carried /\ c + 1 \in Channels
  /\ Channels \subseteq Nat
  BY TransmitterAssumption DEF Channels, Carried

(* Laying a command over a buffer gives a buffer, over a frame a frame.    *)
LEMMA OverlayType ==
  ASSUME NEW k \in Commands
  PROVE  /\ \A f \in Buffer : Overlay(k, f) \in Buffer
         /\ \A f \in Frame : Overlay(k, f) \in Frame
<1>1. PICK S \in SUBSET Channels : k \in [S -> Levels]
  BY PipelineAssumption
<1>2. DOMAIN k = S /\ \A c \in S : k[c] \in Levels
  BY <1>1
<1> QED  BY <1>2, PipelineAssumption DEF Overlay, Buffer, Frame

-----------------------------------------------------------------------------
(* Type correctness.                                                       *)

LEMMA TypeInit == Init => TypeOK
<1> SUFFICES ASSUME Init
             PROVE  TypeOK
  OBVIOUS
<1>1. TxTypeOK
  BY TransmitterAssumption DEF Init, TxInit, TxTypeOK
<1>2. data \in Frame /\ dmxFrame \in Frame /\ wanted \in Buffer
  BY PipelineAssumption DEF Init, Frame, Buffer
<1>3. dmxQueue \in Seq(Frame) /\ Len(dmxQueue) <= QueueLength
  BY PipelineAssumption DEF Init
<1>4. issued \in 0 .. MaxCommands /\ cursor \in Channels /\ reader \in Channels
  BY PipelineAssumption, ChannelFacts DEF Init
<1> QED  BY <1>1, <1>2, <1>3, <1>4, PipelineAssumption DEF Init, TypeOK, TaskPcs

(* A transmission that starts leaves the transmitter and the history of    *)
(* starts well typed.                                                      *)
LEMMA TypeSend ==
  ASSUME TypeOK, sendDMX
  PROVE  TxTypeOK' /\ (txStart \in Buffer)' /\ (txStartPc \in TaskPcs)'
         /\ (dmxData \in Buffer)' /\ (data_update \in BOOLEAN)'
  BY ChannelFacts, TransmitterAssumption
  DEF TypeOK, TxTypeOK, sendDMX, write_dmx, Channels

LEMMA TypeTask ==
  ASSUME TypeOK, Task
  PROVE  TypeOK'
<1> USE DEF TypeOK, taskVars, webVars, histVars, txVars
<1>1. CASE TaskCreateLoop
  BY <1>1 DEF TaskCreateLoop, TxTypeOK, TaskPcs
<1>2. CASE TaskSendZero
  <2>1. [c \in Carried |-> 0] \in Frame
    BY PipelineAssumption DEF Frame
  <2>2. dmxQueue' \in Seq(Frame) /\ Len(dmxQueue') <= QueueLength
    BY <1>2, <2>1, PipelineAssumption DEF TaskSendZero
  <2> QED  BY <1>2, <2>2 DEF TaskSendZero, TxTypeOK, TaskPcs
<1>3. CASE TaskReceive
  <2>1. /\ data' \in Frame
        /\ dmxQueue' \in Seq(Frame) /\ Len(dmxQueue') <= QueueLength
    BY <1>3, PipelineAssumption DEF TaskReceive
  <2> QED  BY <1>3, <2>1 DEF TaskReceive, TxTypeOK, TaskPcs
<1>4. CASE TaskPollBusy
  BY <1>4 DEF TaskPollBusy, TxTypeOK, TaskPcs
<1>5. CASE TaskPollIdle
  BY <1>5 DEF TaskPollIdle, TxTypeOK, TaskPcs
<1>6. CASE TaskForceBusy
  BY <1>6, ChannelFacts DEF TaskForceBusy, TxTypeOK, TaskPcs
<1>7. CASE TaskWriteChannel
  <2>1. dmxData' \in Buffer
    <3>1. PICK residue \in Levels :
            dmxData' = [dmxData EXCEPT ![cursor] =
                          IF cursor \in Carried THEN data[cursor] ELSE residue]
      BY <1>7 DEF TaskWriteChannel
    <3>2. cursor \in Carried => data[cursor] \in Levels
      BY DEF Frame
    <3> QED  BY <3>1, <3>2 DEF Buffer
  <2>2. cursor' \in Channels /\ taskPc' \in TaskPcs
    BY <1>7, ChannelFacts DEF TaskWriteChannel, TaskPcs
  <2> QED  BY <1>7, <2>1, <2>2 DEF TaskWriteChannel, TxTypeOK
<1>8. CASE TaskClearBusy
  BY <1>8 DEF TaskClearBusy, TxTypeOK, TaskPcs
<1>9. CASE TaskSend
  <2>1. taskPc' \in TaskPcs
    BY <1>9 DEF TaskSend, TaskPcs
  <2> QED  BY <1>9, <2>1, TypeSend DEF TaskSend
<1> QED  BY <1>1, <1>2, <1>3, <1>4, <1>5, <1>6, <1>7, <1>8, <1>9 DEF Task

LEMMA TypeLoop ==
  ASSUME TypeOK, Loop
  PROVE  TypeOK'
<1>1. CASE LoopCheck
  BY <1>1 DEF LoopCheck, TypeOK, TxTypeOK, txVars, taskVars, webVars, histVars
<1>2. CASE LoopSend
  BY <1>2, TypeSend DEF LoopSend, TypeOK, taskVars, webVars
<1> QED  BY <1>1, <1>2 DEF Loop

LEMMA TypeWeb ==
  ASSUME TypeOK, StartWeb \/ Keys
  PROVE  TypeOK'
<1> USE DEF TypeOK, TxTypeOK, txVars, taskVars, histVars
<1>1. CASE StartWeb
  BY <1>1 DEF StartWeb
<1>2. CASE KeysCall
  <2>1. [c \in Carried |-> 0] \in Frame /\ 1 \in Channels
    BY PipelineAssumption, ChannelFacts DEF Frame
  <2>2. cmd' \in Commands /\ wanted' \in Buffer
    BY <1>2, OverlayType DEF KeysCall
  <2>3. issued' \in 0 .. MaxCommands
    BY <1>2, PipelineAssumption DEF KeysCall
  <2>4. stale' \in BOOLEAN
    BY <1>2 DEF KeysCall
  <2> QED  BY <1>2, <2>1, <2>2, <2>3, <2>4 DEF KeysCall
<1>3. CASE KeysReadShadow
  <2>1. dmxFrame' \in Frame
    BY <1>3, ChannelFacts DEF KeysReadShadow, Frame, Buffer
  <2>2. reader' \in Channels /\ webPc' \in {"none", "idle", "read", "enqueue"}
    BY <1>3, ChannelFacts DEF KeysReadShadow
  <2> QED  BY <1>3, <2>1, <2>2 DEF KeysReadShadow
<1>4. CASE KeysEnqueue
  <2>1. dmxQueue' \in Seq(Frame) /\ Len(dmxQueue') <= QueueLength
    BY <1>4, OverlayType, PipelineAssumption DEF KeysEnqueue
  <2> QED  BY <1>4, <2>1 DEF KeysEnqueue
<1> QED  BY <1>1, <1>2, <1>3, <1>4 DEF Keys

LEMMA TypeTick ==
  ASSUME TypeOK, Tick
  PROVE  TypeOK'
  BY DEF Tick, TaskWake, LoopWake, TypeOK, TxTypeOK, TaskPcs, txVars, taskVars,
         webVars, histVars

LEMMA TypeHardware ==
  ASSUME TypeOK, Hardware
  PROVE  TypeOK'
<1>1. TxTypeOK'
  <2>1. CASE DmaTransfer(dmxData)
    <3>1. dma \in Channels /\ dmxData[dma] \in Levels
      BY <2>1, TransmitterAssumption
      DEF DmaTransfer, TypeOK, TxTypeOK, Buffer, Channels
    <3>2. dma' \in 0 .. NumChannels
      BY <2>1, <3>1, TransmitterAssumption DEF DmaTransfer, Channels
    <3> QED  BY <2>1, <3>1, <3>2 DEF DmaTransfer, TypeOK, TxTypeOK
  <2>2. CASE PioPull
    <3>1. Head(fifo) \in Levels /\ Tail(fifo) \in Seq(Levels)
      BY <2>2 DEF PioPull, TypeOK, TxTypeOK
    <3> QED  BY <2>2, <3>1 DEF PioPull, TypeOK, TxTypeOK
  <2>3. CASE PioShift
    <3>1. Head(osr) \in Levels
      BY <2>3 DEF PioShift, TypeOK, TxTypeOK
    <3> QED  BY <2>3, <3>1 DEF PioShift, TypeOK, TxTypeOK
  <2> QED  BY <2>1, <2>2, <2>3 DEF Hardware
<1> QED  BY <1>1 DEF Hardware, TypeOK, taskVars, webVars, histVars

LEMMA TypeStep == TypeOK /\ [Next]_vars => TypeOK'
<1> SUFFICES ASSUME TypeOK, [Next]_vars
             PROVE  TypeOK'
  OBVIOUS
<1>1. CASE UNCHANGED vars
  BY <1>1 DEF vars, txVars, taskVars, webVars, histVars, TypeOK, TxTypeOK
<1> QED  BY <1>1, TypeTask, TypeLoop, TypeWeb, TypeTick, TypeHardware DEF Next

(* Every variable keeps its type: in particular dmxQueue never holds more  *)
(* frames than xQueueCreate made room for.                                 *)
THEOREM TypeCorrect == Spec => []TypeOK
  BY TypeInit, TypeStep, PTL DEF Spec

-----------------------------------------------------------------------------
(* The handshake between dmx_task, dmx_loop and the transmitter.           *)

(* Where dmx_task has marked the buffer as being updated.                  *)
Updating == {"write", "clear"}

HandshakeInv ==
  /\ data_update <=> taskPc \in Updating
  /\ loopPc # "none" => LoopMode
  /\ loopPc = "send" => dma = 0 /\ fifo = <<>>
  /\ loopPc = "send" /\ ~SMP => taskPc \notin Updating
  /\ taskPc = "send" => ~LoopMode
  /\ taskPc \in {"gap", "write", "clear", "send"} /\ ~LoopMode
       => dma = 0 /\ fifo = <<>>

LEMMA HandshakeInit == Init => HandshakeInv
  BY DEF Init, TxInit, HandshakeInv, Updating

LEMMA HandshakeTask ==
  ASSUME TypeOK, HandshakeInv, Task
  PROVE  HandshakeInv'
<1> USE DEF HandshakeInv, Updating, txVars
<1>1. CASE TaskCreateLoop
  BY <1>1 DEF TaskCreateLoop
<1>2. CASE TaskSendZero
  BY <1>2 DEF TaskSendZero
<1>3. CASE TaskReceive
  BY <1>3 DEF TaskReceive
<1>4. CASE TaskPollBusy
  BY <1>4 DEF TaskPollBusy
<1>5. CASE TaskPollIdle
  BY <1>5 DEF TaskPollIdle, busy, txBusy
<1>6. CASE TaskForceBusy
  BY <1>6 DEF TaskForceBusy, Priority2MayRun, LoopReady
<1>7. CASE TaskWriteChannel
  BY <1>7 DEF TaskWriteChannel
<1>8. CASE TaskClearBusy
  BY <1>8 DEF TaskClearBusy
<1>9. CASE TaskSend
  BY <1>9 DEF TaskSend, sendDMX, write_dmx
<1> QED  BY <1>1, <1>2, <1>3, <1>4, <1>5, <1>6, <1>7, <1>8, <1>9 DEF Task

LEMMA HandshakeLoop ==
  ASSUME TypeOK, HandshakeInv, Loop
  PROVE  HandshakeInv'
<1>1. CASE LoopCheck
  BY <1>1 DEF LoopCheck, HandshakeInv, Updating, busy, txBusy, txVars, taskVars
<1>2. CASE LoopSend
  <2>1. LoopMode
    BY <1>2 DEF LoopSend, HandshakeInv
  <2> QED  BY <1>2, <2>1 DEF LoopSend, sendDMX, HandshakeInv, Updating, taskVars
<1> QED  BY <1>1, <1>2 DEF Loop

LEMMA HandshakeHardware ==
  ASSUME TypeOK, HandshakeInv, Hardware
  PROVE  HandshakeInv'
<1>1. dma = 0 /\ fifo = <<>> => dma' = 0 /\ fifo' = <<>>
  BY DEF Hardware, DmaTransfer, PioPull, PioShift
<1> QED  BY <1>1 DEF Hardware, HandshakeInv, Updating, taskVars

LEMMA HandshakeOther ==
  ASSUME HandshakeInv, StartWeb \/ Keys \/ Tick \/ UNCHANGED vars
  PROVE  HandshakeInv'
<1> USE DEF HandshakeInv, Updating, txVars, taskVars
<1>1. CASE StartWeb \/ Keys
  BY <1>1 DEF StartWeb, Keys, KeysCall, KeysReadShadow, KeysEnqueue
<1>2. CASE Tick
  BY <1>2 DEF Tick, TaskWake, LoopWake
<1>3. CASE UNCHANGED vars
  BY <1>3 DEF vars
<1> QED  BY <1>1, <1>2, <1>3

LEMMA HandshakeStep == TypeOK /\ HandshakeInv /\ [Next]_vars => HandshakeInv'
  BY HandshakeTask, HandshakeLoop, HandshakeHardware, HandshakeOther DEF Next

LEMMA Handshake == Spec => [](TypeOK /\ HandshakeInv)
  BY TypeInit, TypeStep, HandshakeInit, HandshakeStep, PTL DEF Spec

(* A transmission starts on an idle DMA channel and an empty FIFO, with    *)
(* and without dmx_loop, on one core or two.                               *)
THEOREM StartsClean == Spec => CleanStart
<1>1. HandshakeInv /\ (TaskSend \/ LoopSend) => dma = 0 /\ fifo = <<>>
  BY DEF HandshakeInv, TaskSend, LoopSend
<1>2. HandshakeInv /\ [Next]_vars
        => [TaskSend \/ LoopSend => dma = 0 /\ fifo = <<>>]_vars
  BY <1>1
<1> QED  BY <1>2, Handshake, PTL DEF Spec, CleanStart

(* On one core no transmission starts while dmx_task copies a frame.       *)
THEOREM NoStartDuringUpdateOneCore == ~SMP => (Spec => NoStartDuringUpdate)
<1> SUFFICES ASSUME ~SMP
             PROVE  Spec => NoStartDuringUpdate
  OBVIOUS
<1>1. HandshakeInv /\ (TaskSend \/ LoopSend) => taskPc \notin {"write", "clear"}
  BY DEF HandshakeInv, Updating, TaskSend, LoopSend
<1>2. HandshakeInv /\ [Next]_vars
        => [TaskSend \/ LoopSend => taskPc \notin {"write", "clear"}]_vars
  BY <1>1
<1> QED  BY <1>2, Handshake, PTL DEF Spec, NoStartDuringUpdate

-----------------------------------------------------------------------------
(* What is on the line.                                                    *)

(* Where dmx_task must stand for a transmission that starts to be torn.    *)
Exposed == IF SMP THEN {"gap", "write"} ELSE {"gap"}

(* The slots on the line, then the byte in the OSR, then those in the      *)
(* FIFO, then those the DMA has yet to read are the frame as it was when   *)
(* the transmission started.                                               *)
StreamInv ==
  /\ Len(osr) <= 1
  /\ dma # 0 => Len(wire) + Len(osr) + Len(fifo) = dma - 1
  /\ Len(wire) + Len(osr) + Len(fifo) <= NumChannels
  /\ \A i \in 1 .. Len(wire) : wire[i] = txStart[i]
  /\ \A i \in 1 .. Len(osr) : osr[i] = txStart[Len(wire) + i]
  /\ \A i \in 1 .. Len(fifo) : fifo[i] = txStart[Len(wire) + Len(osr) + i]
  /\ dma # 0 => dmxData = txStart

LineInv ==
  /\ txStartPc \notin Exposed => StreamInv
  /\ dma # 0 /\ taskPc \in {"gap", "write"} => txStartPc \in Exposed

LEMMA LineInit == Init => LineInv
<1> SUFFICES ASSUME Init
             PROVE  LineInv
  OBVIOUS
<1>1. StreamInv
  BY TransmitterAssumption DEF Init, TxInit, StreamInv
<1> QED  BY <1>1 DEF LineInv, Init, TxInit

(* A transmission that starts clean begins a new, still empty, stream.     *)
LEMMA LineSend ==
  ASSUME TypeOK, HandshakeInv, LineInv, TaskSend \/ LoopSend
  PROVE  LineInv'
<1>1. fifo' = <<>> /\ osr' = <<>> /\ wire' = <<>> /\ dma' = 1
  BY DEF HandshakeInv, TaskSend, LoopSend, sendDMX, write_dmx
<1>2. txStart' = dmxData' /\ txStartPc' = taskPc
  BY DEF TaskSend, LoopSend, sendDMX
<1>3. StreamInv'
  BY <1>1, <1>2, TransmitterAssumption DEF StreamInv
<1>4. taskPc' \in {"gap", "write"} => taskPc \in Exposed
  BY DEF TaskSend, LoopSend, HandshakeInv, Updating, Exposed, taskVars
<1> QED  BY <1>2, <1>3, <1>4 DEF LineInv

(* dmx_task only writes the buffer while the DMA is idle or the            *)
(* transmission is already one that started while it was exposed.          *)
LEMMA LineTask ==
  ASSUME TypeOK, HandshakeInv, LineInv, Task
  PROVE  LineInv'
<1> USE DEF LineInv, txVars, histVars
<1>1. CASE TaskCreateLoop
  BY <1>1 DEF TaskCreateLoop, StreamInv
<1>2. CASE TaskSendZero
  BY <1>2 DEF TaskSendZero, StreamInv
<1>3. CASE TaskReceive
  BY <1>3 DEF TaskReceive, StreamInv
<1>4. CASE TaskPollBusy
  BY <1>4 DEF TaskPollBusy, StreamInv
<1>5. CASE TaskPollIdle
  BY <1>5 DEF TaskPollIdle, StreamInv, busy, txBusy
<1>6. CASE TaskForceBusy
  BY <1>6 DEF TaskForceBusy, StreamInv
<1>7. CASE TaskWriteChannel
  <2>1. dma # 0 => txStartPc \in Exposed
    BY <1>7 DEF TaskWriteChannel
  <2>2. UNCHANGED <<dma, fifo, osr, wire, txStart, txStartPc>>
    BY <1>7 DEF TaskWriteChannel
  <2>3. dma = 0 /\ StreamInv => StreamInv'
    BY <2>2 DEF StreamInv
  <2> QED  BY <2>1, <2>2, <2>3
<1>8. CASE TaskClearBusy
  BY <1>8 DEF TaskClearBusy, StreamInv
<1>9. CASE TaskSend
  BY <1>9, LineSend
<1> QED  BY <1>1, <1>2, <1>3, <1>4, <1>5, <1>6, <1>7, <1>8, <1>9 DEF Task

LEMMA OnlyOne == ASSUME NEW n \in Nat, n <= 1, n # 0 PROVE n = 1
  OBVIOUS

(* A sequence of at most one byte that is not empty.                       *)
LEMMA SingleByte ==
  ASSUME NEW s \in Seq(Levels), s # <<>>, Len(s) <= 1
  PROVE  Len(s) = 1 /\ Head(s) = s[1]
<1>1. Len(s) \in Nat /\ Len(s) # 0
  BY EmptySeq
<1>2. Len(s) = 1
  BY <1>1, OnlyOne
<1> QED  BY <1>2

LEMMA LineHardware ==
  ASSUME TypeOK, LineInv, Hardware
  PROVE  LineInv'
<1>1. UNCHANGED <<dmxData, taskPc, txStart, txStartPc>>
  BY DEF Hardware, taskVars, histVars
<1>2. dma' # 0 => dma # 0
  BY TransmitterAssumption DEF Hardware, DmaTransfer, PioPull, PioShift
<1>3. /\ fifo \in Seq(Levels) /\ osr \in Seq(Levels) /\ wire \in Seq(Levels)
      /\ Len(fifo) \in Nat /\ Len(osr) \in Nat /\ Len(wire) \in Nat
      /\ dma \in Nat /\ NumChannels \in Nat /\ dma <= NumChannels
  BY TransmitterAssumption DEF TypeOK, TxTypeOK
<1>4. ASSUME StreamInv
      PROVE  StreamInv'
  <2>0. /\ dma # 0 => Len(wire) + Len(osr) + Len(fifo) = dma - 1
        /\ Len(osr) <= 1
        /\ Len(wire) + Len(osr) + Len(fifo) <= NumChannels
        /\ \A i \in 1 .. Len(wire) : wire[i] = txStart[i]
        /\ \A i \in 1 .. Len(osr) : osr[i] = txStart[Len(wire) + i]
        /\ \A i \in 1 .. Len(fifo) : fifo[i] = txStart[Len(wire) + Len(osr) + i]
        /\ dma # 0 => dmxData = txStart
    BY <1>4 DEF StreamInv
  <2>1. CASE DmaTransfer(dmxData)
    <3>1. /\ dma # 0 /\ dmxData = txStart
          /\ fifo' = Append(fifo, txStart[dma])
          /\ dma' = IF dma = NumChannels THEN 0 ELSE dma + 1
          /\ osr' = osr /\ wire' = wire
          /\ Len(wire) + Len(osr) + Len(fifo) = dma - 1
      BY <2>1, <2>0 DEF DmaTransfer
    <3>0. Len(wire) + Len(osr) + (Len(fifo) + 1) = dma
      <4>1. Len(wire) + Len(osr) + Len(fifo) = dma - 1
        BY <3>1
      <4> QED  BY <4>1, <1>3
    <3>2. /\ Len(fifo') = Len(fifo) + 1
          /\ \A i \in 1 .. Len(fifo') :
               fifo'[i] = IF i = Len(fifo) + 1 THEN txStart[dma] ELSE fifo[i]
      BY <3>1, <1>3
    <3>3. \A i \in 1 .. Len(fifo') : fifo'[i] = txStart[Len(wire) + Len(osr) + i]
      <4> TAKE i \in 1 .. Len(fifo')
      <4>1. CASE i = Len(fifo) + 1
        <5>1. Len(wire) + Len(osr) + i = dma
          BY <4>1, <3>0
        <5> QED  BY <4>1, <5>1, <3>2
      <4>2. CASE i # Len(fifo) + 1
        <5>1. i \in 1 .. Len(fifo)
          BY <4>2, <3>2, <1>3
        <5> QED  BY <4>2, <5>1, <3>2, <2>0
      <4> QED  BY <4>1, <4>2
    <3>4. /\ dma' # 0 => Len(wire) + Len(osr) + Len(fifo') = dma' - 1
          /\ Len(wire) + Len(osr) + Len(fifo') <= NumChannels
      <4>1. Len(wire) + Len(osr) + Len(fifo') = dma
        BY <3>0, <3>1, <3>2
      <4>2. dma' # 0 => dma' = dma + 1
        BY <3>1
      <4> QED  BY <4>1, <4>2, <1>3
    <3>5. dmxData' = txStart' /\ txStart' = txStart
      BY <3>1, <1>1
    <3> QED  BY <2>0, <3>1, <3>3, <3>4, <3>5 DEF StreamInv
  <2>2. CASE PioPull
    <3>1. /\ osr = <<>> /\ fifo # <<>>
          /\ osr' = <<Head(fifo)>> /\ fifo' = Tail(fifo)
          /\ dma' = dma /\ wire' = wire
      BY <2>2 DEF PioPull
    <3>2. /\ Len(osr') = 1 /\ Len(osr) = 0 /\ osr'[1] = fifo[1]
          /\ 1 \in 1 .. Len(fifo)
          /\ Len(fifo') = Len(fifo) - 1
          /\ \A i \in 1 .. Len(fifo') : fifo'[i] = fifo[i + 1]
      BY <3>1, <1>3
    <3>3. \A i \in 1 .. Len(fifo') : fifo'[i] = txStart[Len(wire) + Len(osr') + i]
      <4> TAKE i \in 1 .. Len(fifo')
      <4>1. i + 1 \in 1 .. Len(fifo)
        BY <3>2, <1>3
      <4>2. Len(wire) + Len(osr) + (i + 1) = Len(wire) + Len(osr') + i
        BY <3>2, <1>3
      <4> QED  BY <3>2, <4>1, <4>2, <2>0
    <3>4. \A i \in 1 .. Len(osr') : osr'[i] = txStart[Len(wire) + i]
      <4>1. Len(wire) + Len(osr) + 1 = Len(wire) + 1
        BY <3>2, <1>3
      <4> QED  BY <3>2, <4>1, <2>0
    <3>5. Len(wire) + Len(osr') + Len(fifo') = Len(wire) + Len(osr) + Len(fifo)
      BY <3>2, <1>3
    <3> QED  BY <1>1, <2>0, <3>1, <3>2, <3>3, <3>4, <3>5 DEF StreamInv
  <2>3. CASE PioShift
    <3>1. /\ osr # <<>> /\ osr' = <<>>
          /\ wire' = Append(wire, Head(osr))
          /\ dma' = dma /\ fifo' = fifo
      BY <2>3 DEF PioShift
    <3>2. /\ Len(osr) = 1 /\ Len(osr') = 0
          /\ Len(wire') = Len(wire) + 1
          /\ \A i \in 1 .. Len(wire') :
               wire'[i] = IF i = Len(wire) + 1 THEN osr[1] ELSE wire[i]
      <4>1. Len(osr) = 1 /\ Head(osr) = osr[1]
        BY <3>1, <2>0, <1>3, SingleByte
      <4>2. wire' = Append(wire, osr[1])
        BY <3>1, <4>1
      <4>3. Len(osr') = 0
        BY <3>1
      <4> QED  BY <4>1, <4>2, <4>3, <1>3
    <3>3. \A i \in 1 .. Len(wire') : wire'[i] = txStart[i]
      <4> TAKE i \in 1 .. Len(wire')
      <4>1. i = Len(wire) + 1 \/ i \in 1 .. Len(wire)
        BY <3>2, <1>3
      <4> QED  BY <4>1, <3>2, <2>0, <1>3
    <3>4. Len(wire') + Len(osr') = Len(wire) + Len(osr)
      BY <3>2, <1>3
    <3> QED  BY <1>1, <2>0, <3>1, <3>2, <3>3, <3>4 DEF StreamInv
  <2> QED  BY <2>1, <2>2, <2>3 DEF Hardware
<1> QED  BY <1>1, <1>2, <1>4 DEF LineInv

LEMMA LineOther ==
  ASSUME LineInv, LoopCheck \/ StartWeb \/ Keys \/ Tick \/ UNCHANGED vars
  PROVE  LineInv'
<1>1. /\ UNCHANGED <<txVars, dmxData, histVars>>
      /\ taskPc' \in {"gap", "write"} => taskPc' = taskPc
  BY DEF LoopCheck, StartWeb, Keys, KeysCall, KeysReadShadow, KeysEnqueue, Tick,
         TaskWake, LoopWake, vars, taskVars
<1> QED  BY <1>1 DEF LineInv, StreamInv, txVars, histVars

LEMMA LineStep ==
  TypeOK /\ HandshakeInv /\ LineInv /\ [Next]_vars => LineInv'
  BY LineTask, LineSend, LineHardware, LineOther DEF Next, Loop

LEMMA Line == Spec => [](TypeOK /\ HandshakeInv /\ LineInv)
  BY Handshake, LineInit, LineStep, PTL DEF Spec

(* A frame can only be torn if it started while dmx_task was exposed.      *)
LEMMA TornOnlyExposed == TypeOK /\ LineInv => (Torn => txStartPc \in Exposed)
<1> SUFFICES ASSUME TypeOK, LineInv, txStartPc \notin Exposed, Torn
             PROVE  FALSE
  OBVIOUS
<1>1. StreamInv
  BY DEF LineInv
<1>2. Len(wire) <= NumChannels
  BY <1>1, TransmitterAssumption DEF StreamInv, TypeOK, TxTypeOK
<1>3. PICK i \in DOMAIN wire : i > NumChannels \/ wire[i] # txStart[i]
  BY DEF Torn
<1>4. i \in 1 .. Len(wire)
  BY <1>3 DEF TypeOK, TxTypeOK
<1> QED  BY <1>1, <1>2, <1>3, <1>4, TransmitterAssumption DEF StreamInv

(* On any number of cores a torn frame started while dmx_task was between  *)
(* its busy() loop and the end of unsafeWriteBuffer.                       *)
THEOREM TornFromUpdate == Spec => []TornOnlyFromUpdate
<1>1. TypeOK /\ LineInv => TornOnlyFromUpdate
  BY TornOnlyExposed DEF TornOnlyFromUpdate, Exposed
<1> QED  BY <1>1, Line, PTL

(* On one core it started exactly in the gap before forceBusy(true).       *)
THEOREM TornFromGap == ~SMP => (Spec => []TornOnlyFromGap)
<1> SUFFICES ASSUME ~SMP
             PROVE  Spec => []TornOnlyFromGap
  OBVIOUS
<1>1. TypeOK /\ LineInv => TornOnlyFromGap
  BY TornOnlyExposed DEF TornOnlyFromGap, Exposed
<1> QED  BY <1>1, Line, PTL

(* Without dmx_loop, transmissions only start where dmx_task calls sendDMX. *)
StartInv == ~LoopMode => txStartPc \in {"create", "send"}

LEMMA StartStep == HandshakeInv /\ StartInv /\ [Next]_vars => StartInv'
<1> SUFFICES ASSUME HandshakeInv, StartInv, [Next]_vars
             PROVE  StartInv'
  OBVIOUS
<1>1. CASE TaskSend \/ LoopSend
  BY <1>1 DEF TaskSend, LoopSend, sendDMX, HandshakeInv, StartInv
<1>2. CASE ~(TaskSend \/ LoopSend)
  <2>1. txStartPc' = txStartPc
    BY <1>2 DEF Next, Task, Loop, Keys, Tick, Hardware, TaskCreateLoop,
       TaskSendZero, TaskReceive, TaskPollBusy, TaskPollIdle, TaskForceBusy,
       TaskWriteChannel, TaskClearBusy, LoopCheck, StartWeb, KeysCall,
       KeysReadShadow, KeysEnqueue, TaskWake, LoopWake, vars, histVars
  <2> QED  BY <2>1 DEF StartInv
<1> QED  BY <1>1, <1>2

(* Without dmx_loop every frame on the line is whole.                      *)
THEOREM WholeOnDemand == ~LoopMode => (Spec => []WholeFrames)
<1> SUFFICES ASSUME ~LoopMode
             PROVE  Spec => []WholeFrames
  OBVIOUS
<1>1. Init => StartInv
  BY DEF Init, StartInv
<1>2. TypeOK /\ LineInv /\ StartInv => WholeFrames
  BY TornOnlyExposed DEF StartInv, WholeFrames, Exposed
<1> QED  BY <1>1, <1>2, StartStep, Line, PTL DEF Spec

-----------------------------------------------------------------------------
(* The refinement of FrameFifo.                                            *)

(* The part of the buffer dmx_task has already written is the frame's.     *)
CopyInv ==
  /\ taskPc = "write" => \A c \in Carried : c < cursor => dmxData[c] = data[c]
  /\ taskPc = "clear" => \A c \in Carried : dmxData[c] = data[c]

LEMMA CopyInit == Init => CopyInv
  BY DEF Init, CopyInv

LEMMA CopyStep == TypeOK /\ CopyInv /\ [Next]_vars => CopyInv'
<1> SUFFICES ASSUME TypeOK, CopyInv, [Next]_vars
             PROVE  CopyInv'
  OBVIOUS
<1>1. CASE TaskForceBusy
  <2>1. \A c \in Carried : ~(c < 1)
    BY ChannelFacts DEF Carried
  <2> QED  BY <1>1, <2>1 DEF TaskForceBusy, CopyInv
<1>2. CASE TaskWriteChannel
  <2>1. PICK residue \in Levels :
          dmxData' = [dmxData EXCEPT ![cursor] =
                        IF cursor \in Carried THEN data[cursor] ELSE residue]
    BY <1>2 DEF TaskWriteChannel
  <2>2. /\ cursor \in Channels /\ data' = data /\ taskPc = "write"
        /\ dmxData \in Buffer
    BY <1>2 DEF TaskWriteChannel, TypeOK
  <2>3. \A c \in Carried : c <= cursor => dmxData'[c] = data[c]
    BY <2>1, <2>2, ChannelFacts DEF CopyInv, Buffer, Carried, Channels
  <2>4. CASE cursor = NumChannels
    <3>1. taskPc' = "clear"
      BY <1>2, <2>4 DEF TaskWriteChannel
    <3> QED  BY <3>1, <2>2, <2>3, <2>4, ChannelFacts DEF CopyInv, Carried
  <2>5. CASE cursor # NumChannels
    <3>1. taskPc' = "write" /\ cursor' = cursor + 1
      BY <1>2, <2>2, <2>5 DEF TaskWriteChannel
    <3> QED  BY <3>1, <2>2, <2>3, ChannelFacts DEF CopyInv, Carried, Channels
  <2> QED  BY <2>4, <2>5
<1>3. CASE ~(TaskForceBusy \/ TaskWriteChannel)
  <2>1. /\ dmxData' = dmxData
        /\ taskPc' \in {"write", "clear"}
             => taskPc' = taskPc /\ data' = data /\ cursor' = cursor
    BY <1>3 DEF Next, Task, Loop, Keys, Tick, Hardware, TaskCreateLoop,
       TaskSendZero, TaskReceive, TaskPollBusy, TaskPollIdle, TaskClearBusy,
       TaskSend, LoopCheck, LoopSend, StartWeb, KeysCall, KeysReadShadow,
       KeysEnqueue, TaskWake, LoopWake, vars, taskVars, sendDMX
  <2> QED  BY <2>1 DEF CopyInv
<1> QED  BY <1>1, <1>2, <1>3

(* The refinement mapping.                                                 *)
Holding == taskPc \in {"wait", "sleep", "gap"}
Pending == IF Holding THEN <<data>> \o dmxQueue ELSE dmxQueue
Shown   == IF taskPc = "write" THEN data ELSE [c \in Carried |-> dmxData[c]]

LEMMA PendingIsQueue ==
  ASSUME TypeOK
  PROVE  /\ Pending \in Seq(Frame)
         /\ Len(Pending) = IF Holding THEN Len(dmxQueue) + 1 ELSE Len(dmxQueue)
  BY DEF TypeOK, Pending

(* A frame put into dmxQueue while it has room is accepted.                *)
LEMMA EnqueueAccepts ==
  ASSUME TypeOK, NEW f \in Frame, Len(dmxQueue) < QueueLength,
         dmxQueue' = Append(dmxQueue, f), data' = data, Holding' = Holding,
         Shown' = Shown
  PROVE  Fifo!Accept
<1>1. Len(Pending) < QueueLength + 1
  BY PendingIsQueue, PipelineAssumption DEF TypeOK
<1>2. Pending' = Append(Pending, f)
  BY DEF Pending, TypeOK
<1> QED  BY <1>1, <1>2 DEF Fifo!Accept, Pending, Shown, Holding

(* Leaving the queue and the buffer as they appear is no step of FrameFifo. *)
LEMMA Stutter ==
  ASSUME Pending' = Pending, Shown' = Shown
  PROVE  UNCHANGED Fifo!fifoVars
  BY DEF Fifo!fifoVars, Pending, Shown, Holding

LEMMA FifoTask ==
  ASSUME TypeOK, CopyInv, Task
  PROVE  [Fifo!Next]_(Fifo!fifoVars)
<1>1. CASE TaskCreateLoop \/ TaskPollBusy \/ TaskPollIdle \/ TaskSend
  BY <1>1, Stutter DEF TaskCreateLoop, TaskPollBusy, TaskPollIdle, TaskSend,
     sendDMX, Pending, Shown, Holding
<1>2. CASE TaskSendZero
  <2>1. [c \in Carried |-> 0] \in Frame
    BY PipelineAssumption DEF Frame
  <2>2. data' = data /\ Holding' = Holding /\ Shown' = Shown
    BY <1>2 DEF TaskSendZero, Holding, Shown
  <2>3. CASE Len(dmxQueue) < QueueLength
    BY <1>2, <2>1, <2>2, <2>3, EnqueueAccepts DEF TaskSendZero, Fifo!Next
  <2>4. CASE ~(Len(dmxQueue) < QueueLength)
    BY <1>2, <2>2, <2>4, Stutter DEF TaskSendZero, Pending
  <2> QED  BY <2>3, <2>4
<1>3. CASE TaskReceive
  <2>1. dmxQueue = <<Head(dmxQueue)>> \o Tail(dmxQueue)
    BY <1>3 DEF TaskReceive, TypeOK
  <2>2. Pending' = Pending /\ Shown' = Shown
    BY <1>3, <2>1 DEF TaskReceive, Pending, Shown, Holding
  <2> QED  BY <2>2, Stutter
<1>4. CASE TaskForceBusy
  <2>1. Pending = <<data>> \o dmxQueue /\ Pending' = dmxQueue /\ Shown' = data
    BY <1>4 DEF TaskForceBusy, Pending, Shown, Holding
  <2>2. Pending # <<>> /\ Head(Pending) = data /\ Tail(Pending) = dmxQueue
    BY <2>1 DEF TypeOK
  <2> QED  BY <2>1, <2>2 DEF Fifo!Next, Fifo!Show, Pending, Shown, Holding
<1>5. CASE TaskWriteChannel
  <2>1. Pending' = Pending
    BY <1>5 DEF TaskWriteChannel, Pending, Holding
  <2>2. CopyInv'
    BY <1>5, CopyStep DEF Next, Task
  <2>3. Shown' = Shown
    <3>1. taskPc' = "clear" => [c \in Carried |-> dmxData'[c]] = data'
      BY <1>5, <2>2 DEF TaskWriteChannel, CopyInv, TypeOK, Frame
    <3> QED  BY <1>5, <3>1 DEF TaskWriteChannel, Shown
  <2> QED  BY <2>1, <2>3, Stutter
<1>6. CASE TaskClearBusy
  BY <1>6, Stutter DEF TaskClearBusy, Pending, Shown, Holding
<1> QED  BY <1>1, <1>2, <1>3, <1>4, <1>5, <1>6 DEF Task

LEMMA FifoWeb ==
  ASSUME TypeOK, StartWeb \/ Keys
  PROVE  [Fifo!Next]_(Fifo!fifoVars)
<1>1. CASE StartWeb \/ KeysCall \/ KeysReadShadow
  BY <1>1, Stutter DEF StartWeb, KeysCall, KeysReadShadow, Pending, Shown,
     Holding, taskVars
<1>2. CASE KeysEnqueue
  <2>1. Overlay(cmd, dmxFrame) \in Frame
    BY OverlayType DEF TypeOK
  <2>2. data' = data /\ Holding' = Holding /\ Shown' = Shown
    BY <1>2 DEF KeysEnqueue, Holding, Shown, taskVars
  <2> QED  BY <1>2, <2>1, <2>2, EnqueueAccepts DEF KeysEnqueue, Fifo!Next
<1> QED  BY <1>1, <1>2 DEF Keys

LEMMA FifoOther ==
  ASSUME Loop \/ Tick \/ Hardware \/ UNCHANGED vars
  PROVE  UNCHANGED Fifo!fifoVars
<1>1. /\ dmxQueue' = dmxQueue /\ data' = data /\ dmxData' = dmxData
      /\ Holding' = Holding /\ (taskPc' = "write" <=> taskPc = "write")
  BY DEF Loop, LoopCheck, LoopSend, sendDMX, Tick, TaskWake, LoopWake, Hardware,
         vars, taskVars, Holding
<1> QED  BY <1>1, Stutter DEF Pending, Shown

(* Every frame dmxQueue accepts is copied into the buffer whole, once and  *)
(* in order: DmxPipeline implements FrameFifo.                             *)
THEOREM ImplementsFifo == Spec => FramesInOrder
<1>1. Init => Fifo!Init
  BY DEF Init, Fifo!Init
<1>2. TypeOK /\ CopyInv /\ [Next]_vars => [Fifo!Next]_(Fifo!fifoVars)
  BY FifoTask, FifoWeb, FifoOther DEF Next
<1> QED
  BY <1>1, <1>2, TypeCorrect, CopyInit, CopyStep, PTL
  DEF Spec, FramesInOrder, Fifo!Spec

-----------------------------------------------------------------------------
(* When the levels settle: the theorem behind SettlesUnlessStale.          *)

Zero   == [c \in Carried |-> 0]
Wanted == [c \in Carried |-> wanted[c]]
Shadow == [c \in Carried |-> dmxData[c]]

(* The frame that will be in the buffer once dmx_task has caught up.       *)
Latest == IF dmxQueue # <<>> THEN dmxQueue[Len(dmxQueue)]
          ELSE IF Holding \/ taskPc = "write" THEN data ELSE Shadow

(* dmx_task has not yet queued its frame of zeros.                         *)
Starting == taskPc \in {"create", "zero"}

(* A command given on a drained path that is still being processed: the    *)
(* path stays drained, and the frame being read is the buffer.             *)
ReadsShadow ==
  /\ Drained
  /\ Wanted = Overlay(cmd, Shadow)
  /\ webPc = "read" => \A c \in Carried : c < reader => dmxFrame[c] = dmxData[c]
  /\ webPc = "enqueue" => dmxFrame = Shadow

SettleInv ==
  ~stale =>
    /\ Starting => Wanted = Zero
    /\ webPc \in {"none", "idle"} /\ (~Starting \/ dmxQueue # <<>>)
         => Latest = Wanted
    /\ webPc \in {"read", "enqueue"}
         => (cmd = Release /\ Wanted = Zero) \/ ReadsShadow

LEMMA SettleInit == Init => SettleInv
  BY ChannelFacts DEF Init, SettleInv, Starting, Wanted, Zero

-----------------------------------------------------------------------------
(* Commands and the frames they ask for.                                   *)

(* "release" asks for zeros, whatever it starts from.                      *)
LEMMA ReleaseZero ==
  /\ \A f \in Frame : Overlay(Release, f) = Zero
  /\ \A f \in Buffer : [c \in Carried |-> Overlay(Release, f)[c]] = Zero
  BY ChannelFacts DEF Overlay, Release, Frame, Buffer, Zero

(* What a command asks of the carried channels depends on them alone.      *)
LEMMA OverlayCarried ==
  ASSUME NEW k, NEW f \in Buffer
  PROVE  [c \in Carried |-> Overlay(k, f)[c]]
           = Overlay(k, [c \in Carried |-> f[c]])
  BY ChannelFacts DEF Overlay, Buffer

LEMMA SettleKeysCall ==
  ASSUME TypeOK, SettleInv, KeysCall
  PROVE  SettleInv'
<1> SUFFICES ASSUME ~stale'
             PROVE  SettleInv'
  BY DEF SettleInv
<1>1. /\ webPc = "idle" /\ webPc' = "read" /\ reader' = 1
      /\ wanted' = Overlay(cmd', wanted)
      /\ taskPc' = taskPc /\ dmxQueue' = dmxQueue /\ dmxData' = dmxData
      /\ cmd' # Release => ~stale /\ Drained
  BY DEF KeysCall, taskVars
<1>2. wanted \in Buffer
  BY DEF TypeOK
<1>3. CASE cmd' = Release
  <2>1. Wanted' = Zero
    BY <1>1, <1>2, <1>3, ReleaseZero DEF Wanted
  <2> QED  BY <1>1, <1>3, <2>1 DEF SettleInv, Zero, Release
<1>4. CASE cmd' # Release
  <2>1. ~Starting /\ Latest = Shadow
    BY <1>1, <1>4 DEF Drained, Starting, Latest, Holding
  <2>2. Wanted = Shadow
    BY <1>1, <1>4, <2>1 DEF SettleInv
  <2>3. Wanted' = Overlay(cmd', Wanted)
    BY <1>1, <1>2, OverlayCarried DEF Wanted
  <2>4. Shadow' = Shadow /\ Drained'
    BY <1>1, <1>4 DEF Shadow, Drained
  <2>5. \A c \in Carried : ~(c < 1)
    BY ChannelFacts DEF Carried
  <2>6. ReadsShadow'
    BY <1>1, <2>2, <2>3, <2>4, <2>5 DEF ReadsShadow
  <2>7. ~Starting'
    BY <1>1, <2>1 DEF Starting
  <2> QED  BY <1>1, <2>6, <2>7 DEF SettleInv
<1> QED  BY <1>3, <1>4

LEMMA SettleKeysReadShadow ==
  ASSUME TypeOK, SettleInv, KeysReadShadow
  PROVE  SettleInv'
<1> SUFFICES ASSUME ~stale'
             PROVE  SettleInv'
  BY DEF SettleInv
<1>1. /\ ~stale /\ webPc = "read" /\ webPc' \in {"read", "enqueue"}
      /\ Starting' = Starting /\ Wanted' = Wanted /\ Shadow' = Shadow
      /\ Drained' = Drained /\ cmd' = cmd
  BY DEF KeysReadShadow, taskVars, Starting, Wanted, Shadow, Drained
<1>2. CASE cmd = Release /\ Wanted = Zero
  BY <1>1, <1>2 DEF SettleInv, Release, Zero
<1>3. CASE ReadsShadow
  <2>1. \A c \in Carried : c <= reader => dmxFrame'[c] = dmxData'[c]
    BY <1>1, <1>3, ChannelFacts
    DEF KeysReadShadow, ReadsShadow, TypeOK, Frame, Carried, Channels
  <2>2. CASE reader = NumChannels
    <3>1. \A c \in Carried : c <= reader
      BY <2>2, ChannelFacts DEF Carried
    <3>2. dmxFrame' \in Frame
      BY TypeWeb DEF Keys, TypeOK
    <3>3. dmxFrame' = Shadow'
      BY <2>1, <3>1, <3>2 DEF Frame, Shadow
    <3>4. webPc' = "enqueue"
      BY <2>2 DEF KeysReadShadow
    <3> QED  BY <1>1, <1>3, <3>3, <3>4 DEF SettleInv, ReadsShadow
  <2>3. CASE reader # NumChannels
    <3>1. webPc' = "read" /\ reader' = reader + 1
      BY <2>3 DEF KeysReadShadow
    <3>2. \A c \in Carried : c < reader' => c <= reader
      BY <3>1, ChannelFacts DEF TypeOK, Carried, Channels
    <3> QED  BY <1>1, <1>3, <2>1, <3>1, <3>2 DEF SettleInv, ReadsShadow
  <2> QED  BY <2>2, <2>3
<1> QED  BY <1>1, <1>2, <1>3 DEF SettleInv

LEMMA SettleKeysEnqueue ==
  ASSUME TypeOK, SettleInv, KeysEnqueue
  PROVE  SettleInv'
<1> SUFFICES ASSUME ~stale'
             PROVE  SettleInv'
  BY DEF SettleInv
<1>1. /\ ~stale /\ webPc = "enqueue" /\ webPc' = "idle"
      /\ dmxQueue' = Append(dmxQueue, Overlay(cmd, dmxFrame))
      /\ Starting' = Starting /\ Wanted' = Wanted
  BY DEF KeysEnqueue, taskVars, Starting, Wanted
<1>2. dmxQueue' # <<>> /\ dmxQueue'[Len(dmxQueue')] = Overlay(cmd, dmxFrame)
  BY <1>1 DEF TypeOK
<1>3. Overlay(cmd, dmxFrame) = Wanted
  BY <1>1, ReleaseZero DEF SettleInv, ReadsShadow, TypeOK
<1>4. Latest' = Wanted'
  BY <1>1, <1>2, <1>3 DEF Latest
<1> QED  BY <1>1, <1>4 DEF SettleInv

-----------------------------------------------------------------------------
(* dmx_task.                                                               *)

LEMMA OneLess == ASSUME NEW n \in Nat, n - 1 = 0 PROVE n = 1
  OBVIOUS

(* The last frame of a queue, when its first one is taken.                 *)
LEMMA LastOfOne ==
  ASSUME NEW q \in Seq(Frame), q # <<>>, Tail(q) = <<>>
  PROVE  Head(q) = q[Len(q)]
<1>1. Len(Tail(q)) = Len(q) - 1 /\ Len(q) \in Nat /\ Len(q) # 0
  BY HeadTailProperties, EmptySeq
<1>2. Len(<<>>) = 0
  BY EmptySeq
<1>3. Len(q) = 1
  BY <1>1, <1>2, OneLess
<1> QED  BY <1>3

LEMMA LastOfTail ==
  ASSUME NEW q \in Seq(Frame), q # <<>>, Tail(q) # <<>>
  PROVE  Tail(q)[Len(Tail(q))] = q[Len(q)]
<1>1. Tail(q) \in Seq(Frame) /\ Len(Tail(q)) = Len(q) - 1 /\ Len(q) \in Nat
      /\ \A i \in 1 .. Len(Tail(q)) : Tail(q)[i] = q[i + 1]
  BY HeadTailProperties
<1>2. Len(Tail(q)) \in Nat \ {0}
  BY <1>1, EmptySeq
<1> QED  BY <1>1, <1>2

(* A step of dmx_task that leaves the latest frame as it is, on a path     *)
(* that is not drained before it.                                          *)
LEMMA SettleBusy ==
  ASSUME SettleInv, UNCHANGED webVars, ~Drained, Latest' = Latest,
         ~Starting
  PROVE  SettleInv' \/ Starting'
<1>1. Wanted' = Wanted /\ stale' = stale /\ cmd' = cmd /\ webPc' = webPc
  BY DEF webVars, Wanted
<1>2. ~stale /\ webPc \in {"read", "enqueue"} => cmd = Release /\ Wanted = Zero
  BY DEF SettleInv, ReadsShadow
<1>3. ~stale /\ webPc \in {"none", "idle"} => Latest = Wanted
  BY DEF SettleInv
<1> QED  BY <1>1, <1>2, <1>3 DEF SettleInv, Release, Zero

LEMMA SettleTask ==
  ASSUME TypeOK, CopyInv, SettleInv, Task
  PROVE  SettleInv'
<1>1. CASE TaskCreateLoop
  <2>1. UNCHANGED <<dmxQueue, data, dmxData, webVars>> /\ Starting /\ Starting'
        /\ taskPc = "create" /\ taskPc' = "zero"
    BY <1>1 DEF TaskCreateLoop, Starting
  <2> QED  BY <2>1 DEF SettleInv, Starting, Latest, Holding, Wanted, Shadow,
              ReadsShadow, Drained, webVars, Release, Zero
<1>2. CASE TaskSendZero
  <2>1. /\ Starting /\ ~Starting' /\ UNCHANGED webVars
        /\ ~Drained
    BY <1>2 DEF TaskSendZero, Starting, Drained
  <2>2. Wanted' = Wanted /\ stale' = stale /\ cmd' = cmd /\ webPc' = webPc
    BY <2>1 DEF webVars, Wanted
  <2>3. ~stale => Wanted = Zero
    BY <2>1 DEF SettleInv
  <2>4. ~stale /\ webPc \in {"read", "enqueue"} => cmd = Release
    BY <2>1 DEF SettleInv, ReadsShadow
  <2>5. ~stale /\ webPc \in {"none", "idle"} => Latest' = Wanted
    <3>1. CASE Len(dmxQueue) < QueueLength
      <4>1. dmxQueue' = Append(dmxQueue, Zero)
        BY <1>2, <3>1 DEF TaskSendZero, Zero
      <4>2. dmxQueue' # <<>> /\ dmxQueue'[Len(dmxQueue')] = Zero
        BY <4>1 DEF TypeOK
      <4> QED  BY <4>2, <2>3 DEF Latest
    <3>2. CASE ~(Len(dmxQueue) < QueueLength)
      <4>1. dmxQueue' = dmxQueue
        BY <1>2, <3>2 DEF TaskSendZero
      <4>2. dmxQueue # <<>>
        BY <3>2, PipelineAssumption
      <4> QED  BY <4>1, <4>2 DEF Latest, SettleInv
    <3> QED  BY <3>1, <3>2
  <2> QED  BY <2>1, <2>2, <2>3, <2>4, <2>5 DEF SettleInv, Release, Zero
<1>3. CASE TaskReceive
  <2>1. /\ dmxQueue # <<>> /\ data' = Head(dmxQueue)
        /\ dmxQueue' = Tail(dmxQueue) /\ Holding' /\ ~Drained
        /\ ~Starting /\ ~Starting' /\ UNCHANGED webVars
    BY <1>3 DEF TaskReceive, Holding, Drained, Starting
  <2>2. Latest = dmxQueue[Len(dmxQueue)]
    BY <2>1 DEF Latest
  <2>3. CASE Tail(dmxQueue) = <<>>
    <3>1. Head(dmxQueue) = dmxQueue[Len(dmxQueue)]
      BY <2>1, <2>3, LastOfOne DEF TypeOK
    <3> QED  BY <2>1, <2>2, <2>3, <3>1, SettleBusy DEF Latest
  <2>4. CASE Tail(dmxQueue) # <<>>
    <3>1. Tail(dmxQueue)[Len(Tail(dmxQueue))] = dmxQueue[Len(dmxQueue)]
      BY <2>1, <2>4, LastOfTail DEF TypeOK
    <3> QED  BY <2>1, <2>2, <2>4, <3>1, SettleBusy DEF Latest
  <2> QED  BY <2>3, <2>4
<1>4. CASE TaskPollBusy \/ TaskPollIdle \/ TaskForceBusy
  <2>1. /\ ~Drained /\ ~Starting /\ ~Starting' /\ UNCHANGED webVars
        /\ UNCHANGED <<dmxQueue, data, dmxData>>
        /\ Holding /\ (Holding' \/ taskPc' = "write")
    BY <1>4 DEF TaskPollBusy, TaskPollIdle, TaskForceBusy, Drained, Starting,
                Holding
  <2> QED  BY <2>1, SettleBusy DEF Latest, Shadow
<1>5. CASE TaskWriteChannel
  <2>1. /\ ~Drained /\ ~Starting /\ ~Starting' /\ UNCHANGED webVars
        /\ UNCHANGED <<dmxQueue, data>>
        /\ taskPc = "write" /\ taskPc' \in {"write", "clear"}
    BY <1>5 DEF TaskWriteChannel, Drained, Starting
  <2>2. taskPc' = "clear" => Shadow' = data
    <3>1. CopyInv'
      BY <1>5, CopyStep DEF Next, Task
    <3> QED  BY <2>1, <3>1 DEF CopyInv, Shadow, TypeOK, Frame
  <2>3. Latest' = Latest
    BY <2>1, <2>2 DEF Latest, Holding
  <2> QED  BY <2>1, <2>3, SettleBusy
<1>6. CASE TaskClearBusy
  <2>1. /\ ~Drained /\ ~Starting /\ ~Starting' /\ UNCHANGED webVars
        /\ UNCHANGED <<dmxQueue, data, dmxData>>
        /\ taskPc = "clear" /\ taskPc' \in {"receive", "send"}
    BY <1>6 DEF TaskClearBusy, Drained, Starting
  <2> QED  BY <2>1, SettleBusy DEF Latest, Holding, Shadow
<1>7. CASE TaskSend
  <2>1. /\ UNCHANGED webVars /\ UNCHANGED <<dmxQueue, data, dmxData>>
        /\ taskPc = "send" /\ taskPc' = "receive"
    BY <1>7 DEF TaskSend, sendDMX, webVars
  <2> QED  BY <2>1 DEF SettleInv, ReadsShadow, Latest, Holding, Shadow, Wanted,
              Starting, Drained, webVars, Release, Zero
<1> QED  BY <1>1, <1>2, <1>3, <1>4, <1>5, <1>6, <1>7 DEF Task

LEMMA SettleOther ==
  ASSUME SettleInv, StartWeb \/ Loop \/ Tick \/ Hardware \/ UNCHANGED vars
  PROVE  SettleInv'
<1>1. /\ UNCHANGED <<dmxQueue, data, dmxData, cmd, dmxFrame, reader, wanted, stale>>
      /\ Holding' = Holding /\ Starting' = Starting /\ Drained' = Drained
      /\ taskPc' = "write" <=> taskPc = "write"
      /\ webPc' = webPc \/ (webPc = "none" /\ webPc' = "idle")
  BY DEF StartWeb, Loop, LoopCheck, LoopSend, sendDMX, Tick, TaskWake, LoopWake,
         Hardware, vars, taskVars, webVars, Holding, Starting, Drained
<1> QED  BY <1>1 DEF SettleInv, ReadsShadow, Latest, Shadow, Wanted, Release, Zero

LEMMA SettleStep ==
  TypeOK /\ CopyInv /\ SettleInv /\ [Next]_vars => SettleInv'
  BY SettleTask, SettleOther, SettleKeysCall, SettleKeysReadShadow,
     SettleKeysEnqueue DEF Next, Keys

(* When the path is quiescent, every channel a frame can carry has the     *)
(* level the last command that named it asked for, provided every command  *)
(* since the last "release" was given on a drained path.                   *)
THEOREM LevelsSettleUnlessStale == Spec => []SettlesUnlessStale
<1>1. SettleInv => SettlesUnlessStale
  <2> SUFFICES ASSUME SettleInv, Quiescent, ~stale
               PROVE  \A c \in Carried : dmxData[c] = wanted[c]
    BY DEF SettlesUnlessStale
  <2>1. Latest = Shadow /\ ~Starting /\ webPc = "idle"
    BY DEF Quiescent, Drained, Latest, Holding, Starting
  <2>2. Shadow = Wanted
    BY <2>1 DEF SettleInv
  <2> QED  BY <2>2 DEF Shadow, Wanted
<1> QED
  BY <1>1, TypeCorrect, CopyInit, CopyStep, SettleInit, SettleStep, PTL DEF Spec

-----------------------------------------------------------------------------
(* Progress: the safety part of FramesGetShown and WebReturns.  Nobody     *)
(* waits for something that cannot come, and without dmx_loop the work     *)
(* that is accepted is done in a bounded number of steps.                  *)

(* The guard of Hardware: the DMA, the pull or the shift can go on.        *)
TxMoves ==
  \/ dma # 0 /\ Len(fifo) < FifoDepth
  \/ osr = <<>> /\ fifo # <<>>
  \/ osr # <<>>

WaitsForLine == taskPc \in {"wait", "sleep"} /\ busy => TxMoves

(* When dmx_task waits for busy() to end, it waits for the transmitter and *)
(* never for its own forceBusy, and the transmitter is not stuck: with and *)
(* without dmx_loop, on one core or two.                                   *)
THEOREM WaitsOnlyForLine == Spec => []WaitsForLine
<1>1. TypeOK /\ HandshakeInv => WaitsForLine
  <2> SUFFICES ASSUME TypeOK, HandshakeInv, taskPc \in {"wait", "sleep"}, busy
               PROVE  TxMoves
    BY DEF WaitsForLine
  <2>1. dma # 0 \/ fifo # <<>>
    BY DEF busy, txBusy, HandshakeInv, Updating
  <2>2. fifo = <<>> => Len(fifo) < FifoDepth
    BY TransmitterAssumption
  <2> QED  BY <2>1, <2>2 DEF TxMoves
<1> QED  BY <1>1, Handshake, PTL

(* Steps of the transmitter a transmission still takes: a byte is moved by *)
(* the DMA, pulled and shifted.                                            *)
Unsent   == IF dma = 0 THEN 0 ELSE NumChannels + 1 - dma
TxEffort == 3 * Unsent + 2 * Len(fifo) + Len(osr)

(* Steps a frame still takes, by where dmx_task is with it; a frame in the *)
(* queue takes PerFrame.                                                   *)
PerFrame == 4 * NumChannels + 5
TaskEffort ==
  CASE taskPc = "create"  -> PerFrame + 2
    [] taskPc = "zero"    -> PerFrame + 1
    [] taskPc = "receive" -> 0
    [] taskPc \in {"wait", "sleep"} -> 4 * NumChannels + 4
    [] taskPc = "gap"     -> 4 * NumChannels + 3
    [] taskPc = "write"   -> 4 * NumChannels + 3 - cursor
    [] taskPc = "clear"   -> 3 * NumChannels + 2
    [] taskPc = "send"    -> 3 * NumChannels + 1
QueueEffort == Len(dmxQueue) * PerFrame

(* Steps a command still takes, by where processKeys is with it; one that  *)
(* is still to come takes PerCommand.                                      *)
PerCommand == PerFrame + NumChannels + 2
WebEffort ==
  CASE webPc = "none"    -> 1
    [] webPc = "idle"    -> 0
    [] webPc = "read"    -> PerCommand - reader
    [] webPc = "enqueue" -> PerFrame + 1
CommandEffort == (MaxCommands - issued) * PerCommand

Effort == TxEffort + QueueEffort + TaskEffort + WebEffort + CommandEffort

EffortTyped ==
  /\ TxEffort \in Nat /\ QueueEffort \in Nat /\ TaskEffort \in Nat
  /\ WebEffort \in Nat /\ CommandEffort \in Nat

LEMMA PerFacts == PerFrame \in Nat /\ PerCommand \in Nat
  BY ChannelFacts DEF PerFrame, PerCommand

LEMMA Product ==
  ASSUME NEW n \in Nat, NEW p \in Nat
  PROVE  n * p \in Nat /\ (n + 1) * p = n * p + p
  OBVIOUS

LEMMA EffortType == TypeOK => EffortTyped
<1> SUFFICES ASSUME TypeOK
             PROVE  EffortTyped
  OBVIOUS
<1>1. TxEffort \in Nat
  <2>1. Unsent \in Nat
    BY ChannelFacts DEF TypeOK, TxTypeOK, Unsent
  <2>2. Len(fifo) \in Nat /\ Len(osr) \in Nat
    BY DEF TypeOK, TxTypeOK
  <2> QED  BY <2>1, <2>2 DEF TxEffort
<1>2. QueueEffort \in Nat
  <2>1. PICK n \in Nat : n = Len(dmxQueue)
    BY DEF TypeOK
  <2> QED  BY <2>1, PerFacts, Product DEF QueueEffort
<1>3. TaskEffort \in Nat
  <2>1. PICK c \in Channels : c = cursor
    BY DEF TypeOK
  <2>2. 4 * NumChannels + 3 - c \in Nat
    BY ChannelFacts DEF Channels
  <2>3. /\ 4 * NumChannels + 4 \in Nat /\ 4 * NumChannels + 3 \in Nat
        /\ 3 * NumChannels + 2 \in Nat /\ 3 * NumChannels + 1 \in Nat
        /\ PerFrame + 2 \in Nat /\ PerFrame + 1 \in Nat
    BY PerFacts, ChannelFacts
  <2> QED  BY <2>1, <2>2, <2>3 DEF TypeOK, TaskPcs, TaskEffort
<1>4. WebEffort \in Nat
  <2>1. PICK r \in Channels : r = reader
    BY DEF TypeOK
  <2>2. PerCommand - r \in Nat
    BY ChannelFacts DEF Channels, PerCommand, PerFrame
  <2> QED  BY <2>1, <2>2, PerFacts DEF TypeOK, WebEffort
<1>5. CommandEffort \in Nat
  <2>1. PICK n \in Nat : n = MaxCommands - issued
    BY PipelineAssumption DEF TypeOK
  <2> QED  BY <2>1, PerFacts, Product DEF CommandEffort
<1> QED  BY <1>1, <1>2, <1>3, <1>4, <1>5 DEF EffortTyped

(* The efforts before and after a step, as numbers.                        *)
EffortIs(t, q, k, w, m) ==
  /\ t = TxEffort /\ q = QueueEffort /\ k = TaskEffort
  /\ w = WebEffort /\ m = CommandEffort
  /\ Effort = t + q + k + w + m

Numbered == \E t, q, k, w, m \in Nat : EffortIs(t, q, k, w, m)

LEMMA EffortNumbers == EffortTyped => Numbered
<1> SUFFICES ASSUME EffortTyped
             PROVE  Numbered
  OBVIOUS
<1>1. EffortIs(TxEffort, QueueEffort, TaskEffort, WebEffort, CommandEffort)
  BY Zenon DEF EffortIs, Effort
<1> QED  BY <1>1, Zenon DEF EffortTyped, Numbered

LEMMA EffortTypeStep == TypeOK /\ [Next]_vars => Numbered /\ Numbered'
  BY TypeStep, EffortType, EffortNumbers, PTL

(* The transmitter's steps.                                                *)
LEMMA TxEffortFalls ==
  ASSUME TypeOK, Hardware
  PROVE  /\ TxEffort' < TxEffort
         /\ UNCHANGED <<QueueEffort, TaskEffort, WebEffort, CommandEffort>>
<1>1. UNCHANGED <<QueueEffort, TaskEffort, WebEffort, CommandEffort>>
  BY DEF Hardware, taskVars, webVars, QueueEffort, TaskEffort, WebEffort,
         CommandEffort
<1>2. PICK n \in Nat, k \in Nat, d \in 0 .. NumChannels :
        n = Len(fifo) /\ k = Len(osr) /\ d = dma
  BY DEF TypeOK, TxTypeOK
<1>3. TxEffort = 3 * (IF d = 0 THEN 0 ELSE NumChannels + 1 - d) + 2 * n + k
  BY <1>2 DEF TxEffort, Unsent
<1>4. CASE DmaTransfer(dmxData)
  <2>1. Len(fifo') = n + 1
    BY <1>2, <1>4, TransmitterAssumption
    DEF DmaTransfer, TypeOK, TxTypeOK, Buffer, Channels
  <2>2. d # 0 /\ dma' = IF d = NumChannels THEN 0 ELSE d + 1
    BY <1>2, <1>4 DEF DmaTransfer
  <2>3. Len(osr') = k
    BY <1>2, <1>4 DEF DmaTransfer
  <2>4. Unsent' = NumChannels - d
    BY <2>2, ChannelFacts DEF Unsent
  <2>5. TxEffort' = 3 * (NumChannels - d) + 2 * (n + 1) + k
    BY <2>1, <2>3, <2>4 DEF TxEffort
  <2> QED  BY <1>1, <1>2, <1>3, <2>2, <2>5, ChannelFacts
<1>5. CASE PioPull
  <2>1. PICK m \in Nat : m = Len(fifo') /\ m + 1 = n
    BY <1>2, <1>5 DEF PioPull, TypeOK, TxTypeOK
  <2>2. k = 0 /\ Len(osr') = 1
    BY <1>2, <1>5 DEF PioPull
  <2>3. Unsent' = Unsent
    BY <1>5 DEF PioPull, Unsent
  <2>4. Unsent \in Nat
    BY ChannelFacts DEF TypeOK, TxTypeOK, Unsent
  <2>5. TxEffort' = 3 * Unsent + 2 * m + 1 /\ TxEffort = 3 * Unsent + 2 * n + k
    BY <1>2, <2>1, <2>2, <2>3 DEF TxEffort
  <2> QED  BY <1>1, <2>1, <2>2, <2>4, <2>5
<1>6. CASE PioShift
  <2>1. k # 0 /\ Len(osr') = 0
    BY <1>2, <1>6 DEF PioShift, TypeOK, TxTypeOK
  <2>2. Unsent' = Unsent /\ Len(fifo') = n
    BY <1>2, <1>6 DEF PioShift, Unsent
  <2>3. Unsent \in Nat
    BY ChannelFacts DEF TypeOK, TxTypeOK, Unsent
  <2>4. TxEffort' = 3 * Unsent + 2 * n + 0 /\ TxEffort = 3 * Unsent + 2 * n + k
    BY <1>2, <2>1, <2>2 DEF TxEffort
  <2> QED  BY <1>1, <1>2, <2>1, <2>3, <2>4
<1> QED  BY <1>4, <1>5, <1>6 DEF Hardware

LEMMA EffortHardware ==
  ASSUME TypeOK, Hardware
  PROVE  Effort' < Effort
<1>1. PICK t, q, k, w, m \in Nat : EffortIs(t, q, k, w, m)
  BY EffortTypeStep DEF Next, Numbered
<1>2. PICK tt, qq, kk, ww, mm \in Nat : EffortIs(tt, qq, kk, ww, mm)'
  BY EffortTypeStep DEF Next, Numbered
<1>3. tt < t /\ qq = q /\ kk = k /\ ww = w /\ mm = m
  BY <1>1, <1>2, TxEffortFalls DEF EffortIs
<1>4. Effort = t + q + k + w + m /\ Effort' = tt + q + k + w + m
  BY <1>1, <1>2, <1>3 DEF EffortIs
<1> QED  BY <1>3, <1>4

(* A frame enters the queue, or leaves it.                                 *)
LEMMA QueueGrows ==
  ASSUME TypeOK, NEW f \in Frame, dmxQueue' = Append(dmxQueue, f)
  PROVE  QueueEffort' = QueueEffort + PerFrame
<1>1. PICK n \in Nat : n = Len(dmxQueue)
  BY DEF TypeOK
<1>2. Len(dmxQueue') = n + 1
  BY <1>1 DEF TypeOK
<1>3. QueueEffort = n * PerFrame /\ QueueEffort' = (n + 1) * PerFrame
  BY <1>1, <1>2 DEF QueueEffort
<1>4. (n + 1) * PerFrame = n * PerFrame + PerFrame
  BY ONLY n \in Nat, PerFacts, Product
<1> QED  BY <1>3, <1>4

LEMMA QueueShrinks ==
  ASSUME TypeOK, dmxQueue # <<>>, dmxQueue' = Tail(dmxQueue)
  PROVE  QueueEffort' + PerFrame = QueueEffort
<1>1. PICK n \in Nat : n = Len(dmxQueue') /\ n + 1 = Len(dmxQueue)
  BY DEF TypeOK
<1>2. QueueEffort' = n * PerFrame /\ QueueEffort = (n + 1) * PerFrame
  BY <1>1 DEF QueueEffort
<1>3. (n + 1) * PerFrame = n * PerFrame + PerFrame
  BY ONLY n \in Nat, PerFacts, Product
<1> QED  BY <1>2, <1>3

(* The steps of dmx_task, but for the poll that finds busy().              *)
LEMMA EffortTask ==
  ASSUME TypeOK, HandshakeInv, ~LoopMode, Task, ~TaskPollBusy
  PROVE  Effort' < Effort
<1>1. PICK t, q, k, w, m \in Nat : EffortIs(t, q, k, w, m)
  BY EffortTypeStep DEF Next, Numbered
<1>2. PICK tt, qq, kk, ww, mm \in Nat : EffortIs(tt, qq, kk, ww, mm)'
  BY EffortTypeStep DEF Next, Numbered
<1>3. /\ t = TxEffort /\ q = QueueEffort /\ k = TaskEffort
      /\ tt = TxEffort' /\ qq = QueueEffort' /\ kk = TaskEffort'
  BY <1>1, <1>2 DEF EffortIs
<1>4. Effort = t + q + k + w + m /\ Effort' = tt + qq + kk + w + m
  <2>1. w = WebEffort /\ m = CommandEffort /\ ww = WebEffort' /\ mm = CommandEffort'
    BY <1>1, <1>2 DEF EffortIs
  <2>2. UNCHANGED <<WebEffort, CommandEffort>>
    BY DEF Task, TaskCreateLoop, TaskSendZero, TaskReceive, TaskPollBusy,
           TaskPollIdle, TaskForceBusy, TaskWriteChannel, TaskClearBusy, TaskSend,
           webVars, WebEffort, CommandEffort
  <2>3. ww = w /\ mm = m
    BY <2>1, <2>2
  <2> QED  BY <1>1, <1>2, <2>3 DEF EffortIs
<1>5. UNCHANGED TxEffort /\ UNCHANGED QueueEffort /\ TaskEffort' < TaskEffort
        => Effort' < Effort
  <2> SUFFICES ASSUME UNCHANGED TxEffort, UNCHANGED QueueEffort,
                      TaskEffort' < TaskEffort
               PROVE  Effort' < Effort
    OBVIOUS
  <2>1. tt = t /\ qq = q /\ kk < k
    BY <1>3
  <2> QED  BY <1>4, <2>1
<1>6. UNCHANGED <<txVars, dmxQueue>> => UNCHANGED TxEffort /\ UNCHANGED QueueEffort
  BY DEF txVars, TxEffort, Unsent, QueueEffort
<1>7. CASE TaskCreateLoop
  <2>1. taskPc = "create" /\ taskPc' = "zero"
    BY <1>7 DEF TaskCreateLoop
  <2>2. TaskEffort' < TaskEffort
    BY <2>1, PerFacts DEF TaskEffort
  <2> QED  BY <1>5, <1>6, <1>7, <2>2 DEF TaskCreateLoop
<1>8. CASE TaskSendZero
  <2>1. taskPc = "zero" /\ taskPc' = "receive"
    BY <1>8 DEF TaskSendZero
  <2>2. TaskEffort = PerFrame + 1 /\ TaskEffort' = 0
    BY <2>1 DEF TaskEffort
  <2>3. [c \in Carried |-> 0] \in Frame
    BY PipelineAssumption DEF Frame
  <2>4. QueueEffort' \in {QueueEffort, QueueEffort + PerFrame}
    BY <1>8, <2>3, QueueGrows DEF TaskSendZero, QueueEffort
  <2>5. TxEffort' = TxEffort
    BY <1>8 DEF TaskSendZero, txVars, TxEffort, Unsent
  <2>6. tt = t /\ k = PerFrame + 1 /\ kk = 0 /\ qq \in {q, q + PerFrame}
    BY <1>3, <2>2, <2>4, <2>5
  <2> QED  BY <1>4, <2>6, PerFacts
<1>9. CASE TaskReceive
  <2>1. taskPc = "receive" /\ taskPc' = "wait"
    BY <1>9 DEF TaskReceive
  <2>2. TaskEffort = 0 /\ TaskEffort' + 1 = PerFrame
    BY <2>1, ChannelFacts DEF TaskEffort, PerFrame
  <2>3. QueueEffort' + PerFrame = QueueEffort
    BY <1>9, QueueShrinks DEF TaskReceive
  <2>4. TxEffort' = TxEffort
    BY <1>9 DEF TaskReceive, txVars, TxEffort, Unsent
  <2>5. tt = t /\ k = 0 /\ kk + 1 = PerFrame /\ qq + PerFrame = q
    BY <1>3, <2>2, <2>3, <2>4
  <2> QED  BY <1>4, <2>5, PerFacts
<1>10. CASE TaskPollIdle
  <2>1. taskPc = "wait" /\ taskPc' = "gap"
    BY <1>10 DEF TaskPollIdle
  <2>2. TaskEffort' < TaskEffort
    BY <2>1, ChannelFacts DEF TaskEffort
  <2> QED  BY <1>5, <1>6, <1>10, <2>2 DEF TaskPollIdle
<1>11. CASE TaskForceBusy
  <2>1. taskPc = "gap" /\ taskPc' = "write" /\ cursor' = 1
    BY <1>11 DEF TaskForceBusy
  <2>2. TaskEffort' < TaskEffort
    BY <2>1, ChannelFacts DEF TaskEffort
  <2> QED  BY <1>5, <1>6, <1>11, <2>2 DEF TaskForceBusy
<1>12. CASE TaskWriteChannel
  <2>1. PICK c \in Channels : c = cursor
    BY DEF TypeOK
  <2>2. taskPc = "write"
    BY <1>12 DEF TaskWriteChannel
  <2>3. \/ c = NumChannels /\ taskPc' = "clear"
        \/ taskPc' = "write" /\ cursor' = c + 1
    BY <1>12, <2>1, <2>2 DEF TaskWriteChannel
  <2>4. TaskEffort = 4 * NumChannels + 3 - c
    BY <2>1, <2>2 DEF TaskEffort
  <2>5. TaskEffort' = 4 * NumChannels + 2 - c
    BY <2>3, ChannelFacts DEF TaskEffort
  <2>6. TaskEffort' < TaskEffort
    BY <2>4, <2>5, ChannelFacts
  <2> QED  BY <1>5, <1>6, <1>12, <2>6 DEF TaskWriteChannel
<1>13. CASE TaskClearBusy
  <2>1. taskPc = "clear" /\ taskPc' = "send"
    BY <1>13 DEF TaskClearBusy
  <2>2. TaskEffort' < TaskEffort
    BY <2>1, ChannelFacts DEF TaskEffort
  <2> QED  BY <1>5, <1>6, <1>13, <2>2 DEF TaskClearBusy
<1>14. CASE TaskSend
  <2>1. taskPc = "send" /\ taskPc' = "receive"
    BY <1>14 DEF TaskSend
  <2>2. TaskEffort = 3 * NumChannels + 1 /\ TaskEffort' = 0
    BY <2>1 DEF TaskEffort
  <2>3. fifo = <<>> /\ fifo' = <<>> /\ dma' = 1 /\ osr' = <<>>
    BY <1>14, <2>1 DEF HandshakeInv, TaskSend, sendDMX, write_dmx
  <2>4. TxEffort' = 3 * NumChannels
    BY <2>3, ChannelFacts DEF TxEffort, Unsent
  <2>5. QueueEffort' = QueueEffort
    BY <1>14 DEF TaskSend, QueueEffort
  <2> QED  BY <1>3, <1>4, <2>2, <2>4, <2>5, ChannelFacts
<1> QED
  BY <1>7, <1>8, <1>9, <1>10, <1>11, <1>12, <1>13, <1>14 DEF Task

(* The steps of the web task.                                              *)
LEMMA EffortWeb ==
  ASSUME TypeOK, StartWeb \/ Keys
  PROVE  Effort' < Effort
<1>1. PICK t, q, k, w, m \in Nat : EffortIs(t, q, k, w, m)
  BY EffortTypeStep DEF Next, Numbered
<1>2. PICK tt, qq, kk, ww, mm \in Nat : EffortIs(tt, qq, kk, ww, mm)'
  BY EffortTypeStep DEF Next, Numbered
<1>3. /\ q = QueueEffort /\ w = WebEffort /\ m = CommandEffort
      /\ qq = QueueEffort' /\ ww = WebEffort' /\ mm = CommandEffort'
  BY <1>1, <1>2 DEF EffortIs
<1>4. Effort = t + q + k + w + m /\ Effort' = t + qq + k + ww + mm
  <2>1. t = TxEffort /\ k = TaskEffort /\ tt = TxEffort' /\ kk = TaskEffort'
    BY <1>1, <1>2 DEF EffortIs
  <2>2. UNCHANGED TxEffort /\ UNCHANGED TaskEffort
    BY DEF StartWeb, Keys, KeysCall, KeysReadShadow, KeysEnqueue, txVars, taskVars,
           TxEffort, Unsent, TaskEffort
  <2>3. tt = t /\ kk = k
    BY <2>1, <2>2
  <2> QED  BY <1>1, <1>2, <2>3 DEF EffortIs
<1>5. UNCHANGED dmxQueue => UNCHANGED QueueEffort
  BY DEF QueueEffort
<1>6. UNCHANGED issued => UNCHANGED CommandEffort
  BY DEF CommandEffort
<1>7. CASE StartWeb
  <2>1. WebEffort = 1 /\ WebEffort' = 0
    BY <1>7 DEF StartWeb, WebEffort
  <2>2. UNCHANGED <<QueueEffort, CommandEffort>>
    BY <1>5, <1>6, <1>7 DEF StartWeb
  <2> QED  BY <1>3, <1>4, <2>1, <2>2
<1>8. CASE KeysCall
  <2>1. WebEffort = 0 /\ WebEffort' = PerCommand - 1
    BY <1>8 DEF KeysCall, WebEffort
  <2>2. CommandEffort' + PerCommand = CommandEffort
    <3>1. PICK n \in Nat : n = MaxCommands - issued' /\ n + 1 = MaxCommands - issued
      BY <1>8, PipelineAssumption DEF KeysCall, TypeOK
    <3>2. CommandEffort' = n * PerCommand /\ CommandEffort = (n + 1) * PerCommand
      BY <3>1 DEF CommandEffort
    <3>3. (n + 1) * PerCommand = n * PerCommand + PerCommand
      BY ONLY n \in Nat, PerFacts, Product
    <3> QED  BY <3>2, <3>3
  <2>3. UNCHANGED QueueEffort
    BY <1>5, <1>8 DEF KeysCall
  <2>4. qq = q /\ w = 0 /\ ww = PerCommand - 1 /\ mm + PerCommand = m
    BY <1>3, <2>1, <2>2, <2>3
  <2> QED  BY <1>4, <2>4, PerFacts
<1>9. CASE KeysReadShadow
  <2>1. PICK r \in Channels : r = reader
    BY DEF TypeOK
  <2>2. WebEffort = PerCommand - r
    BY <1>9, <2>1 DEF KeysReadShadow, WebEffort
  <2>3. \/ r = NumChannels /\ webPc' = "enqueue"
        \/ webPc' = "read" /\ reader' = r + 1
    BY <1>9, <2>1 DEF KeysReadShadow
  <2>4. WebEffort' = PerCommand - r - 1
    BY <2>3, PerFacts, ChannelFacts DEF WebEffort, PerCommand
  <2>5. WebEffort' < WebEffort
    BY <2>2, <2>4, PerFacts, ChannelFacts
  <2>6. UNCHANGED <<QueueEffort, CommandEffort>>
    BY <1>5, <1>6, <1>9 DEF KeysReadShadow
  <2>7. qq = q /\ ww < w /\ mm = m
    BY <1>3, <2>5, <2>6
  <2> QED  BY <1>4, <2>7
<1>10. CASE KeysEnqueue
  <2>1. WebEffort = PerFrame + 1 /\ WebEffort' = 0
    BY <1>10 DEF KeysEnqueue, WebEffort
  <2>2. Overlay(cmd, dmxFrame) \in Frame
    BY OverlayType DEF TypeOK
  <2>3. QueueEffort' = QueueEffort + PerFrame
    BY <1>10, <2>2, QueueGrows DEF KeysEnqueue
  <2>4. UNCHANGED CommandEffort
    BY <1>6, <1>10 DEF KeysEnqueue
  <2> QED  BY <1>3, <1>4, <2>1, <2>3, <2>4, PerFacts
<1> QED  BY <1>7, <1>8, <1>9, <1>10 DEF Keys

(* The other steps, without dmx_loop: a poll of busy(), a tick.            *)
LEMMA EffortOther ==
  ASSUME TypeOK, HandshakeInv, ~LoopMode,
         TaskPollBusy \/ Tick \/ Loop \/ UNCHANGED vars
  PROVE  Effort' = Effort
<1>1. ~Loop /\ ~LoopWake
  BY DEF HandshakeInv, Loop, LoopCheck, LoopSend, LoopWake
<1>2. UNCHANGED <<txVars, dmxQueue, webVars, cursor>>
  BY <1>1 DEF TaskPollBusy, Tick, TaskWake, vars, taskVars
<1>3. taskPc' = taskPc \/ {taskPc, taskPc'} = {"wait", "sleep"}
  BY <1>1 DEF TaskPollBusy, Tick, TaskWake, vars, taskVars
<1>4. TaskEffort' = TaskEffort
  BY <1>2, <1>3 DEF TaskEffort
<1>5. UNCHANGED <<TxEffort, QueueEffort, WebEffort, CommandEffort>>
  BY <1>2 DEF txVars, webVars, TxEffort, Unsent, QueueEffort, WebEffort,
              CommandEffort
<1> QED  BY <1>4, <1>5 DEF Effort

(* No step adds work; every step but a poll of busy() and the tick after   *)
(* it gets some done.                                                      *)
GetsDone ==
  /\ Effort' <= Effort
  /\ Hardware \/ StartWeb \/ Keys \/ (Task /\ ~TaskPollBusy) => Effort' < Effort

(* Without dmx_loop the work in hand, of dmx_task, the transmitter and     *)
(* processKeys together, shrinks with every step but the polls of busy():  *)
(* the frames and commands accepted are finished in a bounded number of    *)
(* steps, however the tasks are scheduled and however many channels a      *)
(* frame has.                                                              *)
THEOREM WorkGetsDone ==
  ~LoopMode => (Spec => [](Effort \in Nat) /\ [][GetsDone]_vars)
<1> SUFFICES ASSUME ~LoopMode
             PROVE  Spec => [](Effort \in Nat) /\ [][GetsDone]_vars
  OBVIOUS
<1>1. TypeOK => Effort \in Nat
  BY EffortType, EffortNumbers DEF Numbered, EffortIs
<1>2. ASSUME TypeOK, HandshakeInv, Next
      PROVE  GetsDone
  <2>1. Effort \in Nat /\ Effort' \in Nat
    BY <1>2, EffortTypeStep DEF Numbered, EffortIs
  <2>2. CASE Hardware
    <3>1. Effort' < Effort
      BY <1>2, <2>2, EffortHardware
    <3> QED  BY <2>1, <3>1 DEF GetsDone
  <2>3. CASE Task /\ ~TaskPollBusy
    <3>1. Effort' < Effort
      BY <1>2, <2>3, EffortTask
    <3> QED  BY <2>1, <3>1 DEF GetsDone
  <2>4. CASE StartWeb \/ Keys
    <3>1. Effort' < Effort
      BY <1>2, <2>4, EffortWeb
    <3> QED  BY <2>1, <3>1 DEF GetsDone
  <2>5. CASE ~Hardware /\ ~StartWeb /\ ~Keys /\ ~(Task /\ ~TaskPollBusy)
    <3>1. Effort' = Effort
      BY <1>2, <2>5, EffortOther DEF Next
    <3> QED  BY <2>1, <2>5, <3>1 DEF GetsDone
  <2> QED  BY <2>2, <2>3, <2>4, <2>5
<1>3. TypeOK /\ HandshakeInv /\ [Next]_vars => [GetsDone]_vars
  BY <1>2
<1> QED  BY <1>1, <1>3, Handshake, PTL DEF Spec

-----------------------------------------------------------------------------
(* From the command to the line, without dmx_loop.                         *)

(* The transmitter has put out everything it was given.                    *)
AtRest == ~txBusy /\ osr = <<>>

OnTheWay == Len(wire) + Len(osr) + Len(fifo)

(* dmx_task goes back to the queue only with the initial frame of zeros    *)
(* still in it or after a transmission; a transmission the DMA is through  *)
(* with has NumChannels slots; and nobody writes the buffer after          *)
(* dmx.sendDMX() but dmx_task, for the next frame.                         *)
SentInv ==
  /\ txStartPc # "send" /\ taskPc = "receive" => dmxQueue # <<>>
  /\ txStartPc = "send" /\ dma = 0 => OnTheWay = NumChannels
  /\ txStartPc = "send" /\ taskPc \notin {"write", "clear", "send"}
       => dmxData = txStart

LEMMA SentInit == Init => SentInv
  BY DEF Init, SentInv

LEMMA SentTask ==
  ASSUME TypeOK, SentInv, ~LoopMode, Task, ~TaskSend
  PROVE  SentInv'
<1> USE DEF SentInv, OnTheWay, txVars, histVars
<1>1. CASE TaskCreateLoop
  BY <1>1 DEF TaskCreateLoop
<1>2. CASE TaskSendZero
  <2>1. dmxQueue' # <<>>
    BY <1>2, PipelineAssumption DEF TaskSendZero, TypeOK
  <2> QED  BY <1>2, <2>1 DEF TaskSendZero
<1>3. CASE TaskReceive
  BY <1>3 DEF TaskReceive
<1>4. CASE TaskPollBusy
  BY <1>4 DEF TaskPollBusy
<1>5. CASE TaskPollIdle
  BY <1>5 DEF TaskPollIdle
<1>6. CASE TaskForceBusy
  BY <1>6 DEF TaskForceBusy
<1>7. CASE TaskWriteChannel
  BY <1>7 DEF TaskWriteChannel
<1>8. CASE TaskClearBusy
  BY <1>8 DEF TaskClearBusy
<1> QED  BY <1>1, <1>2, <1>3, <1>4, <1>5, <1>6, <1>7, <1>8 DEF Task

LEMMA SentSend ==
  ASSUME HandshakeInv, TaskSend
  PROVE  SentInv'
  BY DEF TaskSend, sendDMX, write_dmx, SentInv

LEMMA SentHardware ==
  ASSUME TypeOK, LineInv, SentInv, Hardware
  PROVE  SentInv'
<1>1. UNCHANGED <<dmxData, dmxQueue, taskPc, txStart, txStartPc>>
  BY DEF Hardware, taskVars, histVars
<1>2. ASSUME txStartPc = "send", dma' = 0
      PROVE  OnTheWay' = NumChannels
  <2>1. PICK w, o, f \in Nat : w = Len(wire) /\ o = Len(osr) /\ f = Len(fifo)
    BY DEF TypeOK, TxTypeOK
  <2>2. StreamInv
    BY <1>2 DEF LineInv, Exposed
  <2>3. CASE DmaTransfer(dmxData)
    <3>1. dma = NumChannels /\ dma # 0
      BY <1>2, <2>3 DEF DmaTransfer, TypeOK, TxTypeOK
    <3>2. w + o + f = NumChannels - 1
      BY <2>1, <2>2, <3>1 DEF StreamInv
    <3>3. Len(wire') = w /\ Len(osr') = o /\ Len(fifo') = f + 1
      BY <2>1, <2>3, <3>1, ChannelFacts DEF DmaTransfer, TypeOK, TxTypeOK, Buffer
    <3> QED  BY <3>2, <3>3, ChannelFacts DEF OnTheWay
  <2>4. CASE PioPull
    <3>1. dma = 0 /\ o = 0
      BY <1>2, <2>1, <2>4 DEF PioPull
    <3>2. w + o + f = NumChannels
      BY <1>2, <2>1, <3>1 DEF SentInv, OnTheWay
    <3>3. Len(wire') = w /\ Len(osr') = 1 /\ Len(fifo') = f - 1
      BY <2>1, <2>4 DEF PioPull, TypeOK, TxTypeOK
    <3> QED  BY <3>1, <3>2, <3>3, ChannelFacts DEF OnTheWay
  <2>5. CASE PioShift
    <3>1. dma = 0
      BY <1>2, <2>5 DEF PioShift
    <3>2. w + o + f = NumChannels
      BY <1>2, <2>1, <3>1 DEF SentInv, OnTheWay
    <3>3. o = 1 /\ Head(osr) \in Levels
      BY <2>1, <2>2, <2>5, SingleByte DEF PioShift, StreamInv, TypeOK, TxTypeOK
    <3>4. Len(wire') = w + 1 /\ Len(osr') = 0 /\ Len(fifo') = f
      BY <2>1, <2>5, <3>3 DEF PioShift, TypeOK, TxTypeOK
    <3> QED  BY <3>2, <3>3, <3>4, ChannelFacts DEF OnTheWay
  <2> QED  BY <2>3, <2>4, <2>5 DEF Hardware
<1> QED  BY <1>1, <1>2 DEF SentInv

LEMMA SentOther ==
  ASSUME TypeOK, SentInv, LoopCheck \/ StartWeb \/ Keys \/ Tick \/ UNCHANGED vars
  PROVE  SentInv'
<1>1. UNCHANGED <<txVars, dmxData, histVars>>
  BY DEF LoopCheck, StartWeb, Keys, KeysCall, KeysReadShadow, KeysEnqueue, Tick,
         TaskWake, LoopWake, vars
<1>2. taskPc' = taskPc \/ {taskPc, taskPc'} = {"wait", "sleep"}
  BY DEF LoopCheck, StartWeb, Keys, KeysCall, KeysReadShadow, KeysEnqueue, Tick,
         TaskWake, LoopWake, vars, taskVars
<1>3. dmxQueue # <<>> => dmxQueue' # <<>>
  <2>1. CASE KeysEnqueue
    BY <2>1 DEF KeysEnqueue, TypeOK
  <2>2. CASE ~KeysEnqueue
    BY <2>2 DEF LoopCheck, StartWeb, Keys, KeysCall, KeysReadShadow, Tick,
                TaskWake, LoopWake, vars
  <2> QED  BY <2>1, <2>2
<1> QED  BY <1>1, <1>2, <1>3 DEF SentInv, OnTheWay, txVars, histVars

LEMMA SentStep ==
  ~LoopMode /\ TypeOK /\ HandshakeInv /\ LineInv /\ SentInv /\ [Next]_vars
    => SentInv'
<1>1. HandshakeInv /\ LoopSend => LoopMode
  BY DEF HandshakeInv, LoopSend
<1> QED
  BY <1>1, SentTask, SentSend, SentHardware, SentOther DEF Next, Loop

(* When the transmitter is at rest the line has shown the buffer, every    *)
(* slot of it.                                                             *)
LEMMA LineIsBuffer ==
  ASSUME TypeOK, LineInv, SentInv, txStartPc = "send", AtRest,
         taskPc \notin {"write", "clear", "send"}
  PROVE  wire = dmxData
<1>1. dma = 0 /\ fifo = <<>> /\ osr = <<>>
  BY DEF AtRest, txBusy
<1>2. wire \in Seq(Levels) /\ Len(wire) \in Nat
  BY DEF TypeOK, TxTypeOK
<1>3. Len(wire) = NumChannels
  BY <1>1, <1>2, ChannelFacts DEF SentInv, OnTheWay
<1>4. wire \in [Channels -> Levels] /\ dmxData \in [Channels -> Levels]
  BY <1>2, <1>3 DEF TypeOK, Buffer, Channels
<1>5. dmxData = txStart /\ StreamInv
  BY DEF SentInv, LineInv, Exposed
<1>6. \A c \in Channels : wire[c] = dmxData[c]
  BY <1>3, <1>5 DEF StreamInv, Channels
<1> QED  BY <1>4, <1>6

(* Everything accepted has been done: dmx_task waits for the next frame,   *)
(* no command is in processKeys, the transmitter is at rest.               *)
AllDone == Quiescent /\ taskPc = "receive" /\ AtRest

LineShowsCommands ==
  AllDone => /\ wire = dmxData
             /\ ~stale => \A c \in Carried : wire[c] = wanted[c]

(* Without dmx_loop, when everything is done the line has carried exactly  *)
(* the buffer, and every channel a frame can carry is on the line with the *)
(* level the last command that named it asked for (unless a command since  *)
(* the last "release" overtook a frame).  With WorkGetsDone this is the    *)
(* safety part of LineFollowsBuffer.                                       *)
THEOREM LineShowsWhatWasAsked == ~LoopMode => (Spec => []LineShowsCommands)
<1> SUFFICES ASSUME ~LoopMode
             PROVE  Spec => []LineShowsCommands
  OBVIOUS
<1>1. TypeOK /\ LineInv /\ SentInv /\ SettlesUnlessStale => LineShowsCommands
  <2> SUFFICES ASSUME TypeOK, LineInv, SentInv, SettlesUnlessStale, AllDone
               PROVE  /\ wire = dmxData
                      /\ ~stale => \A c \in Carried : wire[c] = wanted[c]
    BY DEF LineShowsCommands
  <2>1. Quiescent /\ taskPc = "receive" /\ AtRest /\ dmxQueue = <<>>
    BY DEF AllDone, Quiescent, Drained
  <2>2. wire = dmxData
    BY <2>1, LineIsBuffer DEF SentInv
  <2> QED  BY <2>1, <2>2 DEF SettlesUnlessStale
<1> QED
  BY <1>1, SentInit, SentStep, Line, LevelsSettleUnlessStale, PTL DEF Spec
=============================================================================
