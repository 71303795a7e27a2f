----------------------------- MODULE DmxOutput -----------------------------
(***************************************************************************)
(* The DMX transmitter: class DmxOutput of Pico-DMX, the DMA channel and   *)
(* the PIO state machine it drives.  One DMX frame is the slots of         *)
(* channels 1 .. NumChannels (the code has 512; slot 0, the start code, is *)
(* dmxData[0] = 0, which nothing ever writes, and is left out).            *)
(*                                                                         *)
(* A byte goes  memory --DMA--> TX FIFO --pull--> OSR --shift--> line.     *)
(* The DMA reads the buffer in place while the CPU keeps running: that is  *)
(* why the buffer's owner has to ask busy() before it writes.              *)
(***************************************************************************)
EXTENDS Naturals, Sequences

CONSTANTS
  NumChannels,  (* Number of channels in a frame (512 in the code).        *)
  Levels,       (* The values of a slot (0 .. 255 in the code).            *)
  FifoDepth     (* Entries of a PIO TX FIFO (4 on the RP2040).             *)

ASSUME TransmitterAssumption ==
  /\ NumChannels \in Nat /\ NumChannels >= 2
  /\ FifoDepth \in Nat \ {0}

VARIABLES
  dma,   (* Channel the DMA reads next; 0 when the DMA channel is idle.    *)
  fifo,  (* TX FIFO of the state machine, oldest byte first.               *)
  osr,   (* The byte being shifted out: <<>> or a sequence of one byte.    *)
  wire   (* Slots of the current frame that are completely on the line.    *)

txVars == <<dma, fifo, osr, wire>>

Channels == 1 .. NumChannels
Buffer   == [Channels -> Levels]

TxTypeOK ==
  /\ dma \in 0 .. NumChannels
  /\ fifo \in Seq(Levels)
  /\ osr \in Seq(Levels)
  /\ wire \in Seq(Levels)

TxInit ==
  /\ dma = 0
  /\ fifo = <<>>
  /\ osr = <<>>
  /\ wire = <<>>

(* DmxOutput::write_dmx.  Stops the state machine, aborts the DMA, jumps   *)
(* to the start of the PIO program (the break) and starts the DMA at the   *)
(* beginning of the universe.  pio_sm_restart clears the shift state but   *)
(* not the FIFO: bytes left in it would come first on the line.            *)
write_dmx ==
  /\ dma' = 1
  /\ osr' = <<>>
  /\ wire' = <<>>
  /\ UNCHANGED fifo

(* The DMA moves one byte of the universe whenever the FIFO has room       *)
(* (paced by the state machine's TX DREQ, set up in DmxOutput::begin).     *)
DmaTransfer(universe) ==
  /\ dma # 0
  /\ Len(fifo) < FifoDepth
  /\ fifo' = Append(fifo, universe[dma])
  /\ dma' = IF dma = NumChannels THEN 0 ELSE dma + 1
  /\ UNCHANGED <<osr, wire>>

(* PIO "pull block": the next byte leaves the FIFO and its slot begins.    *)
PioPull ==
  /\ osr = <<>>
  /\ fifo # <<>>
  /\ osr' = <<Head(fifo)>>
  /\ fifo' = Tail(fifo)
  /\ UNCHANGED <<dma, wire>>

(* PIO bit loop and stop bits: the slot is completely on the line.         *)
PioShift ==
  /\ osr # <<>>
  /\ wire' = Append(wire, Head(osr))
  /\ osr' = <<>>
  /\ UNCHANGED <<dma, fifo>>

(* Mutant of txBusy: the FIFO check of DmxOutput::busy forgotten.          *)
MutBusyDmaOnly == dma # 0

(* DmxOutput::busy: a DMA transfer is running, or the FIFO is not empty.   *)
(* The byte in the OSR is not asked for.                                   *)
txBusy == dma # 0 \/ fifo # <<>>
=============================================================================
