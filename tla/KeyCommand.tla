---------------------------- MODULE KeyCommand ----------------------------
(***************************************************************************)
(* processKeys: the loop over the tokens of a key string such as           *)
(* "001 THRU 005 AND 010 AT FULL", from a copy of the DMX buffer to the    *)
(* frame it puts into dmxQueue.  One action per branch of the loop; any    *)
(* token may come next.  strncmp with the length of the word makes a       *)
(* branch of every token that begins with it, so a token is a word or a    *)
(* number here.                                                            *)
(*                                                                         *)
(* The frame goes through dmxQueue and dmx_task to the buffer, in the way  *)
(* FrameFifo promises and DmxPipeline keeps.  The next command does not    *)
(* wait for it: it may start from a buffer the frame has not reached.      *)
(***************************************************************************)
EXTENDS Naturals, Sequences, Functions

CONSTANTS
  NumChannels,  (* Number of channels (512 in the code).                   *)
  LevelSize,    (* Number of levels (256: a level is a uint8_t).           *)
  QueueLength,  (* Length of dmxQueue (5 in the code).                     *)
  PowerOn,      (* dmxData as DMX::DMX() leaves it (channel % 256).        *)
  Numbers,      (* The numbers that occur in key strings.                  *)
  MaxTokens,    (* Bound: tokens of a key string.                          *)
  MaxCommands   (* Bound: number of key strings.                           *)

(* Channel numbers above 512 are outside this model: see the README.       *)
ASSUME KeyAssumption ==
  /\ NumChannels \in Nat \ {0}
  /\ LevelSize \in Nat \ {0}
  /\ QueueLength \in Nat \ {0}
  /\ PowerOn \in [0 .. NumChannels - 1 -> 0 .. LevelSize - 1]
  /\ Numbers \subseteq 0 .. NumChannels
  /\ MaxTokens \in Nat
  /\ MaxCommands \in Nat

Word(w) == [word |-> w, n |-> 0]
Num(n)  == [word |-> "number", n |-> n]
Tokens  == {Word(w) : w \in {"release", "AND", "AT", "FULL", "THRU"}}
             \cup {Num(n) : n \in Numbers}

VARIABLES
  pc,        (* "idle", in the "parse" loop, after its "break", or dead.   *)
  dmxFrame,  (* The frame being built: uint8_t[512], indices 0 .. 511.     *)
  channels,  (* The channels named and not yet set, a vector.              *)
  isLEVEL,   (* "AT" was seen: a number is a level.                        *)
  isTHRU,    (* "THRU" was seen: a number ends a range.                    *)
  captured,  (* The channels set since the last "release".                 *)
  sent,      (* The frame last put into dmxQueue.                          *)
  queued,    (* The frames put into dmxQueue and not yet copied: those in  *)
             (* it, after the one dmx_task has.                            *)
  dmxData,   (* DMX::dmxData, as the last frame copied has left it.        *)
  shadow,    (* History: the frame this command started from.              *)
  input,     (* History: the tokens of this command so far.                *)
  commands,  (* Number of commands so far (bounds the model).              *)
  overtaker  (* History: the last command since a release that began when  *)
             (* the frame of an earlier one was not copied, or 0.          *)

parseVars == <<dmxFrame, channels, isLEVEL, isTHRU, captured>>
pathVars  == <<sent, queued, dmxData>>
histVars  == <<shadow, commands>>
vars == <<pc, parseVars, pathVars, input, histVars, overtaker>>

Slots == 0 .. NumChannels - 1
Frame == [Slots -> 0 .. LevelSize - 1]
Zero  == [c \in Slots |-> 0]

TypeOK ==
  /\ pc \in {"idle", "parse", "break", "fault"}
  /\ dmxFrame \in Frame /\ sent \in Frame /\ shadow \in Frame
  /\ channels \in Seq(Nat)
  /\ isLEVEL \in BOOLEAN /\ isTHRU \in BOOLEAN
  /\ captured \subseteq Nat
  /\ input \in Seq(Tokens) /\ Len(input) <= MaxTokens
  /\ queued \in Seq(Frame) /\ Len(queued) <= QueueLength + 1
  /\ dmxData \in Frame
  /\ commands \in 0 .. MaxCommands /\ overtaker \in 0 .. commands

(* dmx_task has put a frame of zeros into the queue before the web task is *)
(* there.                                                                  *)
Init ==
  /\ pc = "idle"
  /\ dmxFrame = Zero /\ sent = Zero /\ shadow = Zero
  /\ channels = <<>> /\ isLEVEL = FALSE /\ isTHRU = FALSE
  /\ captured = {}
  /\ queued = <<Zero>> /\ dmxData = PowerOn
  /\ input = <<>>
  /\ commands = 0 /\ overtaker = 0

-----------------------------------------------------------------------------
(* The frame with a level at the channels named so far.  A channel 512 is  *)
(* written one byte past the frame, which nothing reads.                   *)
SetLevel(level) ==
  [c \in Slots |-> IF c \in Range(channels) THEN level ELSE dmxFrame[c]]

(* A uint16_t level stored into a uint8_t slot.                            *)
Truncated(n) == n % LevelSize

(* memset(dmxFrame, 0, 512), then getshadowbuff: all slots but slot 0.     *)
(* dmx_task may copy frames meanwhile, so that a channel is read from the  *)
(* buffer or from any frame on its way there.                              *)
getshadowbuff(f) ==
  /\ f[0] = 0
  /\ \A c \in Slots \ {0} : \E g \in {dmxData} \cup Range(queued) : f[c] = g[c]

Start ==
  /\ pc = "idle"
  /\ commands < MaxCommands
  /\ pc' = "parse"
  /\ dmxFrame' \in Frame /\ getshadowbuff(dmxFrame')
  /\ channels' = <<>> /\ isLEVEL' = FALSE /\ isTHRU' = FALSE
  /\ shadow' = dmxFrame'
  /\ input' = <<>>
  /\ commands' = commands + 1
  /\ overtaker' = IF queued = <<>> THEN overtaker ELSE commands + 1
  /\ UNCHANGED <<captured, pathVars>>

(* The next token is t.                                                    *)
Token(t) ==
  /\ pc = "parse"
  /\ Len(input) < MaxTokens
  /\ input' = Append(input, t)
  /\ overtaker' = IF t.word = "release" THEN 0 ELSE overtaker
  /\ UNCHANGED <<pathVars, histVars>>

(* Mutant of Release: the loop goes on with the next token.                *)
MutReleaseContinues ==
  /\ Token(Word("release"))
  /\ dmxFrame' = Zero
  /\ captured' = {}
  /\ UNCHANGED <<pc, channels, isLEVEL, isTHRU>>

(* "release": all channels to zero; the rest of the string is not read.    *)
Release ==
  /\ Token(Word("release"))
  /\ dmxFrame' = Zero
  /\ captured' = {}
  /\ pc' = "break"
  /\ UNCHANGED <<channels, isLEVEL, isTHRU>>

(* "AND" means nothing: channels that follow each other are a list.        *)
And ==
  /\ Token(Word("AND"))
  /\ UNCHANGED <<pc, parseVars>>

(* "AT": the next number is a level.                                       *)
At ==
  /\ Token(Word("AT"))
  /\ isLEVEL' = TRUE
  /\ UNCHANGED <<pc, dmxFrame, channels, isTHRU, captured>>

(* Mutant of Full: the channels are not recorded.                          *)
MutFullUncaptured ==
  /\ Token(Word("FULL"))
  /\ dmxFrame' = SetLevel(LevelSize - 1)
  /\ channels' = <<>>
  /\ isLEVEL' = FALSE
  /\ UNCHANGED <<pc, isTHRU, captured>>

(* "FULL": the channels named so far to the highest level.                 *)
Full ==
  /\ Token(Word("FULL"))
  /\ dmxFrame' = SetLevel(LevelSize - 1)
  /\ captured' = captured \cup Range(channels)
  /\ channels' = <<>>
  /\ isLEVEL' = FALSE
  /\ UNCHANGED <<pc, isTHRU>>

(* "THRU": the next number ends a range, unless it is a level.             *)
Thru ==
  /\ Token(Word("THRU"))
  /\ isTHRU' = TRUE
  /\ UNCHANGED <<pc, dmxFrame, channels, isLEVEL, captured>>

(* Mutant of Level: the channels are not cleared, so that the next level   *)
(* of the string sets them again.                                          *)
MutLevelKeepsChannels(n) ==
  /\ isLEVEL
  /\ Token(Num(n))
  /\ dmxFrame' = SetLevel(Truncated(n))
  /\ captured' = captured \cup Range(channels)
  /\ isLEVEL' = FALSE
  /\ UNCHANGED <<pc, channels, isTHRU>>

(* A number after "AT": the level of the channels named so far.            *)
Level(n) ==
  /\ isLEVEL
  /\ Token(Num(n))
  /\ dmxFrame' = SetLevel(Truncated(n))
  /\ captured' = captured \cup Range(channels)
  /\ channels' = <<>>
  /\ isLEVEL' = FALSE
  /\ UNCHANGED <<pc, isTHRU>>

(* The channels a range adds after channel b, up to channel n.             *)
Upto(b, n) == [i \in 1 .. (IF b < n THEN n - b ELSE 0) |-> b + i]

(* A number after "THRU" ends a range that begins after the last channel   *)
(* named.                                                                  *)
RangeEnd(n) ==
  /\ ~isLEVEL /\ isTHRU
  /\ channels # <<>> \/ n = 0
  /\ Token(Num(n))
  /\ channels' = IF n >= 1 /\ n <= NumChannels
                   THEN channels \o Upto(channels[Len(channels)], n)
                   ELSE channels
  /\ isTHRU' = FALSE
  /\ UNCHANGED <<pc, dmxFrame, isLEVEL, captured>>

(* The same with no channel named: channels.back() of an empty vector.  If *)
(* the vector still owns memory it reads what lies before it, otherwise    *)
(* an address that does not exist.                                         *)
RangeEndEmpty(n) ==
  /\ ~isLEVEL /\ isTHRU
  /\ channels = <<>> /\ n # 0
  /\ Token(Num(n))
  /\ \/ /\ \E back \in 0 .. NumChannels : channels' = Upto(back, n)
        /\ isTHRU' = FALSE
        /\ UNCHANGED pc
     \/ /\ pc' = "fault"
        /\ UNCHANGED <<channels, isTHRU>>
  /\ UNCHANGED <<dmxFrame, isLEVEL, captured>>

(* Any other number names a channel.                                       *)
Channel(n) ==
  /\ ~isLEVEL /\ ~isTHRU
  /\ Token(Num(n))
  /\ channels' = Append(channels, n)
  /\ UNCHANGED <<pc, dmxFrame, isLEVEL, isTHRU, captured>>

(* The end of the string: xQueueSend(dmxQueue, dmxFrame, portMAX_DELAY),   *)
(* which waits while the queue is full.                                    *)
Send ==
  /\ pc \in {"parse", "break"}
  /\ Len(queued) <= QueueLength
  /\ sent' = dmxFrame
  /\ queued' = Append(queued, dmxFrame)
  /\ pc' = "idle"
  /\ UNCHANGED <<parseVars, dmxData, input, histVars, overtaker>>

(* dmx_task copies the next frame, all slots but slot 0, when it finds the *)
(* transmitter idle.                                                       *)
unsafeWriteBuffer ==
  /\ pc # "fault"
  /\ queued # <<>>
  /\ dmxData' = [Head(queued) EXCEPT ![0] = 0]
  /\ queued' = Tail(queued)
  /\ UNCHANGED <<pc, parseVars, sent, input, histVars, overtaker>>

Key == Release \/ And \/ At \/ Full \/ Thru
Number == \E n \in Numbers : Level(n) \/ RangeEnd(n) \/ RangeEndEmpty(n) \/ Channel(n)

Next == Start \/ Key \/ Number \/ Send \/ unsafeWriteBuffer

Spec == Init /\ [][Next]_vars

-----------------------------------------------------------------------------
(* What a key string means, read as a sentence: clauses, each some         *)
(* channels and ranges followed by "AT <level>", "AT FULL" or "FULL".      *)

Before(i) == IF i > 1 THEN input[i - 1].word ELSE "nothing"

(* Token i gives a level.                                                  *)
IsLevel(i) ==
  /\ i \in DOMAIN input
  /\ input[i].word = "FULL" \/ (input[i].word = "number" /\ Before(i) = "AT")

IsChannel(i) == i \in DOMAIN input /\ input[i].word = "number" /\ ~IsLevel(i)

(* Token i fits what stands before it: a level follows channels, "AND" and *)
(* "THRU" stand between two channels, and ranges ascend.                   *)
Fits(i) ==
  /\ input[i].word # "release"
  /\ input[i].word \in {"AT", "AND", "THRU"} => IsChannel(i - 1)
  /\ input[i].word = "FULL" => IsChannel(i - 1) \/ Before(i) = "AT"
  /\ Before(i) = "AT" => IsLevel(i)
  /\ Before(i) \in {"AND", "THRU"} => IsChannel(i)
  /\ Before(i) = "THRU" => i > 2 /\ input[i - 2].n <= input[i].n

(* So a string may end anywhere: channels without a level mean nothing.    *)
WellFormed == \A i \in DOMAIN input : Fits(i)

(* Token j names channel c: by itself, or as the end of a range.           *)
Names(j, c) ==
  /\ IsChannel(j)
  /\ \/ input[j].n = c
     \/ /\ j > 2 /\ input[j - 1].word = "THRU"
        /\ input[j - 2].n <= c /\ c <= input[j].n

(* Token i gives channel c its level: c is named in the clause it ends.    *)
Gives(i, c) ==
  /\ IsLevel(i)
  /\ \E j \in 1 .. i : /\ Names(j, c)
                       /\ \A k \in j .. i - 1 : ~IsLevel(k)

(* The level of channel c after the command: the last one it is given, or  *)
(* the one it had.                                                         *)
Meaning(c) ==
  LET given == {i \in DOMAIN input : Gives(i, c)}
      last  == CHOOSE i \in given : \A k \in given : k <= i
  IN  IF given = {} THEN shadow[c]
      ELSE IF input[last].word = "FULL" THEN LevelSize - 1
      ELSE Truncated(input[last].n)

-----------------------------------------------------------------------------
(* Properties.                                                             *)

Done == pc = "idle" /\ commands > 0

(* The frame of a well-formed key string gives every channel the level the *)
(* string asks for, and leaves the others as they were.                    *)
ObeysCommand ==
  Done /\ WellFormed => \A c \in Slots \ {0} : sent[c] = Meaning(c)

(* "release", wherever it stands, leaves all channels at zero and none     *)
(* captured.                                                               *)
ReleaseClears ==
  Done /\ (\E i \in DOMAIN input : input[i].word = "release")
    => sent = Zero /\ captured = {}

(* A channel that is not at zero is captured, whatever was typed, unless a *)
(* command since the last release began when an earlier frame was on its   *)
(* way: what it takes over from the buffer then, nobody may have captured. *)
LitIsCaptured ==
  overtaker = 0 => \A c \in Slots : dmxFrame[c] # 0 => c \in captured
=============================================================================
