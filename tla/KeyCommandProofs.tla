------------------------- MODULE KeyCommandProofs -------------------------
(***************************************************************************)
(* Theorems about KeyCommand, for strings and numbers of commands of any   *)
(* length.                                                                 *)
(***************************************************************************)
EXTENDS KeyCommand, TLAPS

LEMMA FrameFacts ==
  /\ NumChannels \in Nat \ {0} /\ LevelSize \in Nat \ {0}
  /\ 0 \in Slots /\ Zero \in Frame /\ Numbers \subseteq Nat
  /\ 0 \in 0 .. LevelSize - 1 /\ LevelSize - 1 \in 0 .. LevelSize - 1
  /\ QueueLength \in Nat \ {0} /\ PowerOn \in Frame
  BY KeyAssumption DEF Slots, Zero, Frame

LEMMA TruncatedLevel ==
  ASSUME NEW n \in Numbers
  PROVE  Truncated(n) \in 0 .. LevelSize - 1
  BY FrameFacts DEF Truncated

LEMMA SetLevelType ==
  ASSUME TypeOK, NEW l \in 0 .. LevelSize - 1
  PROVE  SetLevel(l) \in Frame
  BY DEF TypeOK, SetLevel, Frame

LEMMA RangeType ==
  ASSUME TypeOK
  PROVE  Range(channels) \subseteq Nat
  BY DEF TypeOK, Range

LEMMA UptoType ==
  ASSUME NEW b \in Nat, NEW n \in Nat
  PROVE  Upto(b, n) \in Seq(Nat)
<1> DEFINE m == IF b < n THEN n - b ELSE 0
<1>1. m \in Nat
  OBVIOUS
<1>2. [i \in 1 .. m |-> b + i] \in [1 .. m -> Nat]
  OBVIOUS
<1> HIDE DEF m
<1>3. [i \in 1 .. m |-> b + i] \in Seq(Nat)
  BY <1>1, <1>2
<1> QED  BY <1>3 DEF Upto, m

LEMMA TokenType ==
  ASSUME TypeOK, NEW t \in Tokens, Token(t)
  PROVE  /\ input' \in Seq(Tokens) /\ Len(input') <= MaxTokens
         /\ UNCHANGED <<sent, queued, dmxData, shadow, commands>>
         /\ overtaker' \in 0 .. commands
  BY KeyAssumption DEF TypeOK, Token, pathVars, histVars

(* A branch of the loop reads one token.                                   *)
LEMMA ReadsToken ==
  ASSUME Key \/ Number
  PROVE  \E t \in Tokens : Token(t)
<1>1. \A w \in {"release", "AND", "AT", "FULL", "THRU"} : Word(w) \in Tokens
  BY DEF Tokens
<1>2. \A n \in Numbers : Num(n) \in Tokens
  BY DEF Tokens
<1> QED  BY <1>1, <1>2 DEF Key, Number, Release, And, At, Full, Thru, Level, RangeEnd,
            RangeEndEmpty, Channel

(* The key string so far is empty.                                         *)
LEMMA EmptyInput ==
  ASSUME input = <<>>
  PROVE  input \in Seq(Tokens) /\ Len(input) <= MaxTokens
  BY KeyAssumption

LEMMA EmptyInputNext ==
  ASSUME input' = <<>>
  PROVE  input' \in Seq(Tokens) /\ Len(input') <= MaxTokens
  BY KeyAssumption

LEMMA TypeInit == Init => TypeOK
<1> SUFFICES ASSUME Init
             PROVE  TypeOK
  OBVIOUS
<1>1. channels \in Seq(Nat) /\ captured \subseteq Nat
  BY DEF Init
<1>2. input \in Seq(Tokens) /\ Len(input) <= MaxTokens
  BY EmptyInput DEF Init
<1>3. commands \in 0 .. MaxCommands
  BY KeyAssumption DEF Init
<1>4. dmxFrame \in Frame /\ sent \in Frame /\ shadow \in Frame
  BY FrameFacts DEF Init
<1>5. queued \in Seq(Frame) /\ Len(queued) = 1 /\ dmxData \in Frame
  BY FrameFacts DEF Init
<1>6. Len(queued) <= QueueLength + 1
  BY <1>5, FrameFacts
<1>7. overtaker \in 0 .. commands
  BY DEF Init
<1> QED  BY <1>1, <1>2, <1>3, <1>4, <1>5, <1>6, <1>7 DEF Init, TypeOK

LEMMA TypeKey ==
  ASSUME TypeOK, Key
  PROVE  TypeOK'
<1> USE DEF TypeOK, parseVars
<1>1. \A w \in {"release", "AND", "AT", "FULL", "THRU"} : Word(w) \in Tokens
  BY DEF Tokens
<1>2. CASE Release
  <2>1. captured' \subseteq Nat
    BY <1>2 DEF Release
  <2> QED  BY <1>1, <1>2, <2>1, TokenType, FrameFacts DEF Release
<1>3. CASE And
  BY <1>1, <1>3, TokenType DEF And
<1>4. CASE At
  BY <1>1, <1>4, TokenType DEF At
<1>5. CASE Full
  <2>1. SetLevel(LevelSize - 1) \in Frame
    BY SetLevelType, FrameFacts
  <2>2. captured' \subseteq Nat
    BY <1>5, RangeType DEF Full
  <2>3. channels' \in Seq(Nat)
    BY <1>5 DEF Full
  <2> QED  BY <1>1, <1>5, <2>1, <2>2, <2>3, TokenType DEF Full
<1>6. CASE Thru
  BY <1>1, <1>6, TokenType DEF Thru
<1> QED  BY <1>2, <1>3, <1>4, <1>5, <1>6 DEF Key

LEMMA TypeNumber ==
  ASSUME TypeOK, Number
  PROVE  TypeOK'
<1> USE DEF TypeOK
<1>1. PICK n \in Numbers : Level(n) \/ RangeEnd(n) \/ RangeEndEmpty(n) \/ Channel(n)
  BY DEF Number
<1>2. Num(n) \in Tokens /\ n \in Nat
  BY FrameFacts DEF Tokens
<1>3. CASE Level(n)
  <2>1. SetLevel(Truncated(n)) \in Frame
    BY SetLevelType, TruncatedLevel
  <2>2. captured' \subseteq Nat
    BY <1>3, RangeType DEF Level
  <2>3. channels' \in Seq(Nat)
    BY <1>3 DEF Level
  <2> QED  BY <1>2, <1>3, <2>1, <2>2, <2>3, TokenType DEF Level
<1>4. CASE RangeEnd(n)
  <2>1. channels' \in Seq(Nat)
    <3>1. CASE n >= 1 /\ n <= NumChannels
      <4>1. channels # <<>>
        BY <1>4, <3>1 DEF RangeEnd
      <4>2. channels[Len(channels)] \in Nat
        BY <4>1
      <4>3. Upto(channels[Len(channels)], n) \in Seq(Nat)
        BY <1>2, <4>2, UptoType
      <4> QED  BY <1>4, <3>1, <4>3 DEF RangeEnd
    <3>2. CASE ~(n >= 1 /\ n <= NumChannels)
      BY <1>4, <3>2 DEF RangeEnd
    <3> QED  BY <3>1, <3>2
  <2> QED  BY <1>2, <1>4, <2>1, TokenType DEF RangeEnd
<1>5. CASE RangeEndEmpty(n)
  <2>1. channels' \in Seq(Nat)
    <3>1. CASE \E back \in 0 .. NumChannels : channels' = Upto(back, n)
      <4>1. PICK back \in 0 .. NumChannels : channels' = Upto(back, n)
        BY <3>1
      <4>2. back \in Nat
        BY FrameFacts
      <4> QED  BY <1>2, <4>1, <4>2, UptoType
    <3>2. CASE channels' = channels
      BY <3>2
    <3> QED  BY <1>5, <3>1, <3>2 DEF RangeEndEmpty
  <2> QED  BY <1>2, <1>5, <2>1, TokenType DEF RangeEndEmpty
<1>6. CASE Channel(n)
  BY <1>2, <1>6, TokenType DEF Channel
<1> QED  BY <1>1, <1>3, <1>4, <1>5, <1>6

LEMMA TypeOther ==
  ASSUME TypeOK, Start \/ Send \/ unsafeWriteBuffer \/ UNCHANGED vars
  PROVE  TypeOK'
<1> USE DEF TypeOK, histVars, parseVars, pathVars
<1>1. CASE Start
  <2>1. overtaker' \in 0 .. commands'
    BY <1>1 DEF Start
  <2>2. input' \in Seq(Tokens) /\ Len(input') <= MaxTokens
    BY <1>1, EmptyInputNext DEF Start
  <2>3. channels' \in Seq(Nat)
    BY <1>1 DEF Start
  <2>4. commands' \in 0 .. MaxCommands
    BY <1>1, KeyAssumption DEF Start
  <2> QED  BY <1>1, <2>1, <2>2, <2>3, <2>4 DEF Start
<1>2. CASE Send
  <2>1. queued' = Append(queued, dmxFrame) /\ Len(queued) <= QueueLength
    BY <1>2 DEF Send
  <2>2. queued' \in Seq(Frame) /\ Len(queued') <= QueueLength + 1
    BY <2>1, FrameFacts
  <2> QED  BY <1>2, <2>2 DEF Send
<1>3. CASE unsafeWriteBuffer
  <2>1. Head(queued) \in Frame /\ Tail(queued) \in Seq(Frame)
        /\ Len(Tail(queued)) <= QueueLength + 1
    BY <1>3, FrameFacts DEF unsafeWriteBuffer
  <2>2. [Head(queued) EXCEPT ![0] = 0] \in Frame
    BY <2>1, FrameFacts DEF Frame
  <2> QED  BY <1>3, <2>1, <2>2 DEF unsafeWriteBuffer
<1>4. CASE UNCHANGED vars
  BY <1>4 DEF vars
<1> QED  BY <1>1, <1>2, <1>3, <1>4

LEMMA TypeStep == TypeOK /\ [Next]_vars => TypeOK'
  BY TypeKey, TypeNumber, TypeOther DEF Next

(* The frame stays a frame and the channel list a list of numbers.         *)
THEOREM KeyTypeOK == Spec => []TypeOK
  BY TypeInit, TypeStep, PTL DEF Spec

-----------------------------------------------------------------------------
(* The way of a frame to the buffer.                                       *)

(* The buffer has the frame last sent, or that frame is the last on its    *)
(* way.                                                                    *)
PathInv ==
  /\ queued = <<>> => \A c \in Slots \ {0} : dmxData[c] = sent[c]
  /\ queued # <<>> => queued[Len(queued)] = sent

LEMMA PathInit == Init => PathInv
  BY DEF Init, PathInv

(* What is left of a queue ends with what it ended with.                   *)
LEMMA TailFacts ==
  ASSUME NEW S, NEW q \in Seq(S), q # <<>>
  PROVE  \E r \in Seq(S) : /\ r = Tail(q)
                           /\ r # <<>> => r[Len(r)] = q[Len(q)]
                           /\ r = <<>> => Head(q) = q[Len(q)]
<1>0. Tail(q) \in Seq(S)
  OBVIOUS
<1>1. PICK r \in Seq(S) : r = Tail(q)
  BY <1>0, Zenon
<1>2. Len(r) = Len(q) - 1 /\ Len(q) \in Nat /\ \A i \in 1 .. Len(q) - 1 : r[i] = q[i + 1]
  BY <1>1
<1>3. r # <<>> => r[Len(r)] = q[Len(q)]
  <2>1. r # <<>> => Len(q) - 1 \in 1 .. Len(q) - 1
    BY <1>2
  <2> QED  BY <1>2, <2>1
<1>4. r = <<>> => Head(q) = q[Len(q)]
  <2>1. r = <<>> => Len(r) = 0
    OBVIOUS
  <2>2. Len(r) = 0 => Len(q) = 1
    BY <1>2
  <2>3. Head(q) = q[1]
    OBVIOUS
  <2> QED  BY <2>1, <2>2, <2>3, Zenon
<1> QED  BY <1>1, <1>3, <1>4

LEMMA PathCopied ==
  ASSUME TypeOK, PathInv, unsafeWriteBuffer
  PROVE  PathInv'
<1>1. /\ queued \in Seq(Frame) /\ queued # <<>> /\ queued[Len(queued)] = sent
      /\ dmxData' = [Head(queued) EXCEPT ![0] = 0]
      /\ queued' = Tail(queued) /\ sent' = sent
  BY DEF TypeOK, PathInv, unsafeWriteBuffer
<1>2. PICK r \in Seq(Frame) :
        /\ r = Tail(queued)
        /\ r # <<>> => r[Len(r)] = queued[Len(queued)]
        /\ r = <<>> => Head(queued) = queued[Len(queued)]
  <2>1. PICK q \in Seq(Frame) : q = queued /\ q # <<>>
    BY <1>1, Zenon
  <2>2. \E r \in Seq(Frame) : /\ r = Tail(q)
                              /\ r # <<>> => r[Len(r)] = q[Len(q)]
                              /\ r = <<>> => Head(q) = q[Len(q)]
    BY <2>1, TailFacts
  <2> QED  BY <2>1, <2>2, Zenon
<1>3. queued' # <<>> => queued'[Len(queued')] = sent'
  BY <1>1, <1>2, Zenon
<1>4. queued' = <<>> => \A c \in Slots \ {0} : dmxData'[c] = sent'[c]
  <2>1. SUFFICES ASSUME r = <<>>
                 PROVE  \A c \in Slots \ {0} : dmxData'[c] = sent[c]
    BY <1>1, <1>2, Zenon
  <2>2. Head(queued) = sent
    BY <1>1, <1>2, <2>1, Zenon
  <2>3. dmxData' = [sent EXCEPT ![0] = 0] /\ sent \in Frame
    BY <1>1, <2>2 DEF TypeOK
  <2> QED  BY <2>3 DEF Frame
<1> QED  BY <1>3, <1>4 DEF PathInv

LEMMA PathStep == TypeOK /\ PathInv /\ [Next]_vars => PathInv'
<1> SUFFICES ASSUME TypeOK, PathInv, [Next]_vars
             PROVE  PathInv'
  OBVIOUS
<1>1. CASE Send
  <2>1. /\ queued' = Append(queued, dmxFrame) /\ sent' = dmxFrame
        /\ queued \in Seq(Frame)
    BY <1>1 DEF Send, TypeOK
  <2>2. queued' # <<>> /\ queued'[Len(queued')] = dmxFrame
    BY <2>1
  <2> QED  BY <2>1, <2>2 DEF PathInv
<1>2. CASE unsafeWriteBuffer
  BY <1>2, PathCopied
<1>3. CASE Start \/ Key \/ Number \/ UNCHANGED vars
  <2>1. UNCHANGED <<sent, queued, dmxData>>
    BY <1>3, ReadsToken DEF Start, Token, pathVars, vars
  <2> QED  BY <2>1 DEF PathInv
<1> QED  BY <1>1, <1>2, <1>3 DEF Next

(* A command that begins with every frame in the buffer begins with the    *)
(* frame last sent.                                                        *)
LEMMA StartDrained ==
  ASSUME PathInv, Start, queued = <<>>
  PROVE  dmxFrame'[0] = 0 /\ \A c \in Slots \ {0} : dmxFrame'[c] = sent[c]
<1>1. Range(queued) = {}
  BY DEF Range
<1> QED  BY <1>1 DEF PathInv, Start, getshadowbuff

-----------------------------------------------------------------------------
(* Captured channels.                                                      *)

CapturedInv ==
  /\ LitIsCaptured
  /\ pc = "idle" /\ overtaker = 0 => \A c \in Slots : sent[c] # 0 => c \in captured

LEMMA SetLevelCaptured ==
  ASSUME LitIsCaptured, NEW l, dmxFrame' = SetLevel(l),
         captured' = captured \cup Range(channels), overtaker' = overtaker
  PROVE  LitIsCaptured'
  BY DEF LitIsCaptured, SetLevel

LEMMA CapturedStep == TypeOK /\ PathInv /\ CapturedInv /\ [Next]_vars => CapturedInv'
<1> SUFFICES ASSUME TypeOK, PathInv, CapturedInv, [Next]_vars
             PROVE  CapturedInv'
  OBVIOUS
<1> USE DEF CapturedInv
<1>1. CASE Start
  <2>1. SUFFICES ASSUME overtaker' = 0
                 PROVE  \A c \in Slots : dmxFrame'[c] # 0 => c \in captured
    BY <1>1 DEF Start, LitIsCaptured
  <2>2. commands + 1 # 0
    BY DEF TypeOK
  <2>3. queued = <<>> /\ overtaker = 0
    BY <1>1, <2>1, <2>2 DEF Start
  <2> QED  BY <1>1, <2>3, StartDrained DEF Start
<1>2. CASE Send
  BY <1>2 DEF Send, LitIsCaptured, parseVars
<1>3. CASE Release
  BY <1>3 DEF Release, Token, LitIsCaptured, Zero
<1>4. CASE Full
  <2>1. overtaker' = overtaker
    BY <1>4 DEF Full, Token, Word
  <2> QED  BY <1>4, <2>1, SetLevelCaptured DEF Full, Token
<1>5. CASE \E n \in Numbers : Level(n)
  <2>1. overtaker' = overtaker
    BY <1>5 DEF Level, Token, Num
  <2> QED  BY <1>5, <2>1, SetLevelCaptured DEF Level, Token
<1>6. CASE \/ And \/ At \/ Thru \/ unsafeWriteBuffer \/ UNCHANGED vars
           \/ \E n \in Numbers : RangeEnd(n) \/ RangeEndEmpty(n) \/ Channel(n)
  <2>1. /\ UNCHANGED <<dmxFrame, captured, sent, overtaker>>
        /\ pc' = "idle" => pc = "idle"
    BY <1>6 DEF And, At, Thru, RangeEnd, RangeEndEmpty, Channel, Token, Word, Num,
                unsafeWriteBuffer, vars, parseVars, pathVars
  <2> QED  BY <2>1 DEF LitIsCaptured
<1> QED  BY <1>1, <1>2, <1>3, <1>4, <1>5, <1>6 DEF Next, Key, Number

(* A channel that is not at zero is captured, whatever was typed, as long  *)
(* as no command since the last "release" began when the frame of an       *)
(* earlier one was on its way to the buffer (main.cpp:134).                *)
THEOREM CapturedCoversLit == Spec => []LitIsCaptured
<1>1. Init => CapturedInv
  BY DEF Init, CapturedInv, LitIsCaptured, Zero
<1>2. CapturedInv => LitIsCaptured
  BY DEF CapturedInv
<1> QED  BY <1>1, <1>2, TypeInit, TypeStep, PathInit, PathStep, CapturedStep, PTL DEF Spec

-----------------------------------------------------------------------------
(* "release".                                                              *)

Released == \E i \in DOMAIN input : input[i].word = "release"

ReleaseInv ==
  /\ pc = "break" => dmxFrame = Zero /\ captured = {}
  /\ pc = "parse" => ~Released
  /\ pc = "idle" /\ commands > 0 /\ Released => sent = Zero /\ captured = {}

(* A token other than "release" does not make the string a released one.   *)
LEMMA NotReleased ==
  ASSUME TypeOK, NEW t \in Tokens, Token(t), t.word # "release", ~Released
  PROVE  ~Released'
<1>1. input' = Append(input, t) /\ input \in Seq(Tokens)
  BY DEF Token, TypeOK
<1>2. \A i \in DOMAIN input' : input'[i] = t \/ (i \in DOMAIN input /\ input'[i] = input[i])
  BY <1>1
<1> QED  BY <1>2 DEF Released

LEMMA ReleaseStep == TypeOK /\ ReleaseInv /\ [Next]_vars => ReleaseInv'
<1> SUFFICES ASSUME TypeOK, ReleaseInv, [Next]_vars
             PROVE  ReleaseInv'
  OBVIOUS
<1> USE DEF ReleaseInv
<1>1. CASE Start
  BY <1>1 DEF Start, Released
<1>2. CASE Send
  <2>1. Released' = Released
    BY <1>2 DEF Send, Released
  <2> QED  BY <1>2, <2>1 DEF Send, parseVars
<1>3. CASE Release
  BY <1>3 DEF Release, Token
<1>4. CASE And \/ At \/ Full \/ Thru
  <2>1. PICK w \in {"AND", "AT", "FULL", "THRU"} : Token(Word(w))
    BY <1>4 DEF And, At, Full, Thru
  <2>2. Word(w) \in Tokens /\ Word(w).word # "release"
    BY DEF Word, Tokens
  <2>3. pc = "parse" /\ pc' = "parse"
    BY <1>4 DEF And, At, Full, Thru, Token
  <2> QED  BY <2>1, <2>2, <2>3, NotReleased
<1>5. CASE Number
  <2>1. PICK n \in Numbers : Token(Num(n)) /\ pc' \in {"parse", "fault"}
    BY <1>5 DEF Number, Level, RangeEnd, RangeEndEmpty, Channel, Token
  <2>2. Num(n) \in Tokens /\ Num(n).word # "release"
    BY DEF Num, Tokens
  <2>3. pc = "parse"
    BY <2>1 DEF Token
  <2> QED  BY <2>1, <2>2, <2>3, NotReleased
<1>6. CASE unsafeWriteBuffer \/ UNCHANGED vars
  BY <1>6 DEF unsafeWriteBuffer, vars, parseVars, pathVars, histVars, Released
<1> QED  BY <1>1, <1>2, <1>3, <1>4, <1>5, <1>6 DEF Next, Key

(* A string with "release" in it leaves every channel at zero and none     *)
(* captured.                                                               *)
THEOREM ReleaseClearsAll == Spec => []ReleaseClears
<1>1. Init => ReleaseInv
  BY DEF Init, ReleaseInv, Released
<1>2. ReleaseInv => ReleaseClears
  BY DEF ReleaseInv, ReleaseClears, Released, Done
<1> QED  BY <1>1, <1>2, TypeInit, TypeStep, ReleaseStep, PTL DEF Spec

-----------------------------------------------------------------------------
(* What a string means, and what the parser has made of it so far.         *)

(* The level that token i gives.                                           *)
LevelAt(i) == IF input[i].word = "FULL" THEN LevelSize - 1 ELSE Truncated(input[i].n)

(* Channel c is named and has no level yet.                                *)
Open(c) ==
  \E j \in DOMAIN input : Names(j, c) /\ \A k \in j .. Len(input) : ~IsLevel(k)

(* A frame has the level that c was given last, or the one it had.         *)
Ungiven(c, frame) ==
  (\A i \in DOMAIN input : ~Gives(i, c)) /\ frame[c] = shadow[c]

Given(c, frame) ==
  \E i \in DOMAIN input : /\ Gives(i, c) /\ frame[c] = LevelAt(i)
                          /\ \A k \in DOMAIN input : Gives(k, c) => k <= i

Obeyed(frame) == \A c \in Slots \ {0} : Ungiven(c, frame) \/ Given(c, frame)

LastIs(w) == input # <<>> /\ input[Len(input)].word = w

(* The channel that a range would begin with is the last one in the vector.*)
LastChannel(i) ==
  IsChannel(i) => channels # <<>> /\ channels[Len(channels)] = input[i].n

(* The flags are about the last token, and the vector has what is open.    *)
Parsed ==
  /\ isLEVEL <=> LastIs("AT")
  /\ isTHRU <=> LastIs("THRU")
  /\ LastChannel(Len(input))
  /\ LastIs("THRU") => LastChannel(Len(input) - 1)
  /\ \A c \in Nat : c \in Range(channels) <=> Open(c)
  /\ Obeyed(dmxFrame)

MeaningInv ==
  /\ pc = "parse" /\ WellFormed => Parsed
  /\ pc = "break" => ~WellFormed
  /\ pc = "idle" /\ commands > 0 /\ WellFormed => Obeyed(sent)

(* A frame that is obeyed has what the string means.                       *)
LEMMA ObeyedMeaning ==
  ASSUME NEW frame, Obeyed(frame), NEW c \in Slots \ {0}, TypeOK
  PROVE  frame[c] = Meaning(c)
<1> DEFINE given == {i \in DOMAIN input : Gives(i, c)}
<1>1. CASE Ungiven(c, frame)
  <2>1. given = {}
    BY <1>1 DEF Ungiven
  <2> QED  BY <1>1, <2>1 DEF Ungiven, Meaning
<1>2. CASE Given(c, frame)
  <2>1. PICK i \in given : frame[c] = LevelAt(i) /\ \A k \in given : k <= i
    BY <1>2 DEF Given
  <2>2. given \subseteq Nat
    BY DEF TypeOK
  <2> DEFINE last == CHOOSE m \in given : \A k \in given : k <= m
  <2>3. last \in given /\ \A k \in given : k <= last
    BY <2>1
  <2>4. last = i
    BY <2>1, <2>2, <2>3
  <2>5. Meaning(c) = IF given = {} THEN shadow[c]
                     ELSE IF input[last].word = "FULL" THEN LevelSize - 1
                     ELSE Truncated(input[last].n)
    BY DEF Meaning
  <2> QED  BY <2>1, <2>4, <2>5 DEF LevelAt
<1> QED  BY <1>1, <1>2 DEF Obeyed

-----------------------------------------------------------------------------
(* One more token.                                                         *)

LEMMA Appended ==
  ASSUME TypeOK, NEW t \in Tokens, Token(t)
  PROVE  /\ Len(input) \in Nat /\ Len(input') = Len(input) + 1
         /\ DOMAIN input = 1 .. Len(input) /\ DOMAIN input' = 1 .. Len(input) + 1
         /\ \A i \in DOMAIN input : input'[i] = input[i]
         /\ input'[Len(input) + 1] = t
         /\ input' # <<>>
<1>1. input \in Seq(Tokens) /\ input' = Append(input, t)
  BY DEF TypeOK, Token
<1> QED  BY <1>1

(* What was read keeps its meaning.                                        *)
LEMMA Kept ==
  ASSUME TypeOK, NEW t \in Tokens, Token(t)
  PROVE  /\ \A i \in 0 .. Len(input) : (IsLevel(i)' <=> IsLevel(i)) /\ (IsChannel(i)' <=> IsChannel(i))
         /\ \A j \in DOMAIN input : \A c : Names(j, c)' <=> Names(j, c)
         /\ \A i \in DOMAIN input : Fits(i)' <=> Fits(i)
         /\ \A i \in DOMAIN input : LevelAt(i)' = LevelAt(i)
<1>1. /\ Len(input) \in Nat /\ DOMAIN input = 1 .. Len(input)
      /\ DOMAIN input' = 1 .. Len(input) + 1
      /\ \A i \in DOMAIN input : input'[i] = input[i]
  BY Appended
<1>2. \A i \in DOMAIN input : Before(i)' = Before(i)
  BY <1>1 DEF Before
<1>3. \A i \in 0 .. Len(input) : IsLevel(i)' <=> IsLevel(i)
  BY <1>1, <1>2 DEF IsLevel
<1>4. \A i \in 0 .. Len(input) : IsChannel(i)' <=> IsChannel(i)
  BY <1>1, <1>3 DEF IsChannel
<1>5. \A j \in DOMAIN input : \A c : Names(j, c)' <=> Names(j, c)
  BY <1>1, <1>4 DEF Names
<1>6. \A i \in DOMAIN input : i - 1 \in 0 .. Len(input)
  BY <1>1
<1>7. ASSUME NEW i \in DOMAIN input
      PROVE  Fits(i)' <=> Fits(i)
  <2>1. i > 2 => i - 2 \in DOMAIN input /\ input'[i - 2] = input[i - 2]
    BY <1>1
  <2> QED  BY <1>1, <1>2, <1>3, <1>4, <1>6, <2>1 DEF Fits
<1>8. \A i \in DOMAIN input : LevelAt(i)' = LevelAt(i)
  BY <1>1 DEF LevelAt
<1> QED  BY <1>3, <1>4, <1>5, <1>7, <1>8

LEMMA WellFormedBefore ==
  ASSUME TypeOK, NEW t \in Tokens, Token(t), WellFormed', NEW n, n = Len(input) + 1
  PROVE  WellFormed /\ Fits(n)'
<1>1. /\ Len(input) \in Nat /\ DOMAIN input = 1 .. Len(input)
      /\ DOMAIN input' = 1 .. Len(input) + 1
  BY Appended
<1>2. \A i \in DOMAIN input' : Fits(i)'
  BY DEF WellFormed
<1>3. \A i \in DOMAIN input : i \in DOMAIN input'
  BY <1>1
<1>4. \A i \in DOMAIN input : Fits(i)
  BY <1>2, <1>3, Kept
<1>5. n \in DOMAIN input'
  BY <1>1
<1> QED  BY <1>2, <1>4, <1>5 DEF WellFormed

(* Levels given by earlier tokens stay.                                    *)
LEMMA KeptGives ==
  ASSUME TypeOK, NEW t \in Tokens, Token(t), NEW i \in DOMAIN input, NEW c
  PROVE  Gives(i, c)' <=> Gives(i, c)
<1>1. Len(input) \in Nat /\ i \in 1 .. Len(input) /\ DOMAIN input = 1 .. Len(input)
  BY Appended
<1>2. \A j \in 1 .. i : Names(j, c)' <=> Names(j, c)
  <2>1. \A j \in 1 .. i : j \in DOMAIN input
    BY <1>1
  <2> QED  BY <2>1, Kept
<1>3. \A j \in 1 .. i : \A k \in j .. i - 1 : k \in 0 .. Len(input)
  BY <1>1
<1>4. \A j \in 1 .. i : \A k \in j .. i - 1 : IsLevel(k)' <=> IsLevel(k)
  BY <1>3, Kept
<1>5. IsLevel(i)' <=> IsLevel(i)
  BY <1>1, Kept
<1>6. ASSUME Gives(i, c)'
      PROVE  Gives(i, c)
  <2>1. PICK j \in 1 .. i : Names(j, c)' /\ \A k \in j .. i - 1 : ~IsLevel(k)'
    BY <1>6 DEF Gives
  <2> QED  BY <1>2, <1>4, <1>5, <1>6, <2>1 DEF Gives
<1>7. ASSUME Gives(i, c)
      PROVE  Gives(i, c)'
  <2>1. PICK j \in 1 .. i : Names(j, c) /\ \A k \in j .. i - 1 : ~IsLevel(k)
    BY <1>7 DEF Gives
  <2>2. Names(j, c)' /\ \A k \in j .. i - 1 : ~IsLevel(k)'
    BY <1>2, <1>4, <2>1
  <2>3. IsLevel(i)'
    BY <1>5, <1>7 DEF Gives
  <2> QED  BY <2>2, <2>3 DEF Gives
<1> QED  BY <1>6, <1>7

(* The new token names channels, gives a level, or neither.                *)
LEMMA NewToken ==
  ASSUME TypeOK, NEW t \in Tokens, Token(t), NEW n, n = Len(input) + 1
  PROVE  /\ IsLevel(n)' <=> t.word = "FULL" \/ (t.word = "number" /\ LastIs("AT"))
         /\ IsChannel(n)' <=> t.word = "number" /\ ~LastIs("AT")
         /\ \A w : LastIs(w)' <=> t.word = w
<1>1. /\ Len(input) \in Nat /\ Len(input') = n
      /\ DOMAIN input = 1 .. Len(input) /\ DOMAIN input' = 1 .. n
      /\ \A i \in DOMAIN input : input'[i] = input[i]
      /\ input'[n] = t /\ input' # <<>>
  BY Appended
<1>2. Before(n)' = "AT" <=> LastIs("AT")
  <2>1. CASE input = <<>>
    <3>1. n = 1
      BY <2>1
    <3> QED  BY <2>1, <3>1 DEF Before, LastIs
  <2>2. CASE input # <<>>
    <3>1. Len(input) > 0
      BY <2>2 DEF TypeOK
    <3>2. n > 1 /\ n - 1 = Len(input) /\ n - 1 \in DOMAIN input
      BY <1>1, <3>1
    <3> QED  BY <1>1, <2>2, <3>2 DEF Before, LastIs
  <2> QED  BY <2>1, <2>2
<1>3. n \in DOMAIN input'
  BY <1>1
<1>4. IsLevel(n)' <=> t.word = "FULL" \/ (t.word = "number" /\ LastIs("AT"))
  BY <1>1, <1>2, <1>3 DEF IsLevel
<1>5. IsChannel(n)' <=> t.word = "number" /\ ~LastIs("AT")
  BY <1>1, <1>3, <1>4 DEF IsChannel
<1>6. \A w : LastIs(w)' <=> t.word = w
  BY <1>1 DEF LastIs
<1> QED  BY <1>4, <1>5, <1>6

(* What is open after a token that gives no level, and after one that does.*)
LEMMA OpenAfter ==
  ASSUME TypeOK, NEW t \in Tokens, Token(t), NEW c, NEW n, n = Len(input) + 1
  PROVE  Open(c)' <=> ~IsLevel(n)' /\ (Open(c) \/ Names(n, c)')
<1>1. /\ Len(input) \in Nat /\ Len(input') = n
      /\ DOMAIN input = 1 .. Len(input) /\ DOMAIN input' = 1 .. n
  BY Appended
<1>2. \A j \in DOMAIN input : Names(j, c)' <=> Names(j, c)
  BY Kept
<1>3. \A j \in DOMAIN input : \A k \in j .. Len(input) : IsLevel(k)' <=> IsLevel(k)
  <2>1. \A j \in DOMAIN input : \A k \in j .. Len(input) : k \in 0 .. Len(input)
    BY <1>1
  <2> QED  BY <2>1, Kept
<1>4. ASSUME Open(c)'
      PROVE  ~IsLevel(n)' /\ (Open(c) \/ Names(n, c)')
  <2>1. PICK j \in 1 .. n : Names(j, c)' /\ \A k \in j .. n : ~IsLevel(k)'
    BY <1>1, <1>4 DEF Open
  <2>2. ~IsLevel(n)'
    BY <1>1, <2>1
  <2>3. CASE j = n
    BY <2>1, <2>2, <2>3
  <2>4. CASE j # n
    <3>1. j \in DOMAIN input /\ \A k \in j .. Len(input) : k \in j .. n
      BY <1>1, <2>1, <2>4
    <3> QED  BY <1>2, <1>3, <2>1, <2>2, <3>1 DEF Open
  <2> QED  BY <2>3, <2>4
<1>5. ASSUME ~IsLevel(n)', Open(c)
      PROVE  Open(c)'
  <2>1. PICK j \in DOMAIN input : Names(j, c) /\ \A k \in j .. Len(input) : ~IsLevel(k)
    BY <1>5 DEF Open
  <2>2. \A k \in j .. n : k = n \/ k \in j .. Len(input)
    BY <1>1
  <2>3. j \in DOMAIN input' /\ Names(j, c)' /\ \A k \in j .. n : ~IsLevel(k)'
    BY <1>1, <1>2, <1>3, <1>5, <2>1, <2>2
  <2> QED  BY <1>1, <2>3 DEF Open
<1>6. ASSUME ~IsLevel(n)', Names(n, c)'
      PROVE  Open(c)'
  <2>1. (\A k \in n .. n : k = n) /\ n \in DOMAIN input'
    BY <1>1
  <2> QED  BY <1>1, <1>6, <2>1 DEF Open
<1> QED  BY <1>4, <1>5, <1>6

(* A level is given to the channels that were open.                        *)
LEMMA NewGives ==
  ASSUME TypeOK, NEW t \in Tokens, Token(t), NEW c, NEW n, n = Len(input) + 1
  PROVE  Gives(n, c)' <=> IsLevel(n)' /\ Open(c)
<1>1. /\ Len(input) \in Nat
      /\ DOMAIN input = 1 .. Len(input) /\ DOMAIN input' = 1 .. n
  BY Appended
<1>2. \A j \in DOMAIN input : Names(j, c)' <=> Names(j, c)
  BY Kept
<1>3. \A j \in DOMAIN input : \A k \in j .. Len(input) : IsLevel(k)' <=> IsLevel(k)
  <2>1. \A j \in DOMAIN input : \A k \in j .. Len(input) : k \in 0 .. Len(input)
    BY <1>1
  <2> QED  BY <2>1, Kept
<1>4. IsLevel(n)' => ~Names(n, c)'
  BY DEF Names, IsChannel
<1>5. ASSUME NEW j \in 1 .. n, j # n
      PROVE  j \in DOMAIN input /\ j .. n - 1 = j .. Len(input)
  BY <1>1, <1>5
<1>6. ASSUME Gives(n, c)'
      PROVE  IsLevel(n)' /\ Open(c)
  <2>1. PICK j \in 1 .. n : Names(j, c)' /\ \A k \in j .. n - 1 : ~IsLevel(k)'
    BY <1>6 DEF Gives
  <2>2. IsLevel(n)' /\ j # n
    BY <1>4, <1>6, <2>1 DEF Gives
  <2> QED  BY <1>2, <1>3, <1>5, <2>1, <2>2 DEF Open
<1>7. ASSUME IsLevel(n)', Open(c)
      PROVE  Gives(n, c)'
  <2>1. PICK j \in DOMAIN input : Names(j, c) /\ \A k \in j .. Len(input) : ~IsLevel(k)
    BY <1>7 DEF Open
  <2>2. j \in 1 .. n /\ n - 1 = Len(input)
    BY <1>1
  <2>3. Names(j, c)' /\ \A k \in j .. n - 1 : ~IsLevel(k)'
    BY <1>2, <1>3, <2>1, <2>2
  <2> QED  BY <1>7, <2>2, <2>3 DEF Gives
<1> QED  BY <1>6, <1>7

(* The frame after a token: a level goes to the open channels.             *)
LEMMA ObeyedToken ==
  ASSUME TypeOK, NEW t \in Tokens, Token(t), NEW n, n = Len(input) + 1,
         Obeyed(dmxFrame),
         \A c \in Slots \ {0} :
           dmxFrame'[c] = IF IsLevel(n)' /\ Open(c) THEN LevelAt(n)' ELSE dmxFrame[c]
  PROVE  Obeyed(dmxFrame)'
<1> SUFFICES ASSUME NEW c \in Slots \ {0}
             PROVE  Ungiven(c, dmxFrame)' \/ Given(c, dmxFrame)'
  BY DEF Obeyed, Slots
<1>1. /\ Len(input) \in Nat /\ n \in DOMAIN input'
      /\ DOMAIN input = 1 .. Len(input)
      /\ \A i \in DOMAIN input' : i = n \/ i \in DOMAIN input
      /\ \A i \in DOMAIN input : i \in DOMAIN input' /\ i <= n
  BY Appended
<1>2. \A i \in DOMAIN input : (Gives(i, c)' <=> Gives(i, c)) /\ LevelAt(i)' = LevelAt(i)
  BY KeptGives, Kept
<1>3. Gives(n, c)' <=> IsLevel(n)' /\ Open(c)
  BY NewGives
<1>4. CASE Gives(n, c)'
  <2>1. dmxFrame'[c] = LevelAt(n)'
    BY <1>3, <1>4
  <2>2. \A i \in DOMAIN input' : i <= n
    BY <1>1
  <2> QED  BY <1>1, <1>4, <2>1, <2>2 DEF Given
<1>5. CASE ~Gives(n, c)'
  <2>1. dmxFrame'[c] = dmxFrame[c]
    BY <1>3, <1>5
  <2>2. CASE Ungiven(c, dmxFrame)
    <3>1. shadow' = shadow
      BY TokenType
    <3>2. \A i \in DOMAIN input' : ~Gives(i, c)'
      BY <1>1, <1>2, <1>5, <2>2 DEF Ungiven
    <3> QED  BY <2>1, <2>2, <3>1, <3>2 DEF Ungiven
  <2>3. CASE Given(c, dmxFrame)
    <3>1. PICK i \in DOMAIN input : /\ Gives(i, c) /\ dmxFrame[c] = LevelAt(i)
                                    /\ \A k \in DOMAIN input : Gives(k, c) => k <= i
      BY <2>3 DEF Given
    <3>2. Gives(i, c)' /\ dmxFrame'[c] = LevelAt(i)' /\ i \in DOMAIN input'
      BY <1>1, <1>2, <2>1, <3>1
    <3>3. \A k \in DOMAIN input' : Gives(k, c)' => k <= i
      BY <1>1, <1>2, <1>5, <3>1
    <3> QED  BY <3>2, <3>3 DEF Given
  <2> QED  BY <2>2, <2>3 DEF Obeyed
<1> QED  BY <1>4, <1>5

(* What the parser must have after token t.                                *)
LEMMA ParsedToken ==
  ASSUME TypeOK, NEW t \in Tokens, Token(t), NEW n, n = Len(input) + 1, Parsed,
         isLEVEL' <=> t.word = "AT",
         isTHRU' <=> t.word = "THRU",
         t.word = "number" /\ ~LastIs("AT") =>
           channels' # <<>> /\ channels'[Len(channels')] = t.n,
         t.word = "THRU" => channels' = channels,
         \A c \in Nat : c \in Range(channels') <=> Open(c)',
         Obeyed(dmxFrame)'
  PROVE  Parsed'
<1>1. /\ Len(input) \in Nat /\ Len(input') = n /\ input'[n] = t
      /\ \A i \in DOMAIN input : input'[i] = input[i]
  BY Appended
<1>2. /\ \A w : LastIs(w)' <=> t.word = w
      /\ IsChannel(n)' <=> t.word = "number" /\ ~LastIs("AT")
  BY NewToken
<1>3. LastChannel(Len(input))'
  BY <1>1, <1>2 DEF LastChannel
<1>4. LastIs("THRU")' => LastChannel(Len(input) - 1)'
  <2>1. SUFFICES ASSUME t.word = "THRU"
                 PROVE  LastChannel(Len(input) - 1)'
    BY <1>2
  <2>2. channels' = channels /\ LastChannel(Len(input))
    BY <2>1 DEF Parsed
  <2>3. PICK m : m = Len(input)
    OBVIOUS
  <2>4. Len(input') - 1 = m /\ m \in 0 .. Len(input)
    BY <1>1, <2>3
  <2>5. IsChannel(m)' <=> IsChannel(m)
    BY <2>4, Kept
  <2>6. IsChannel(m) => input'[m] = input[m]
    BY <1>1 DEF IsChannel
  <2> QED  BY <2>2, <2>3, <2>4, <2>5, <2>6 DEF LastChannel
<1> QED  BY <1>2, <1>3, <1>4 DEF Parsed

-----------------------------------------------------------------------------
(* The vector of channels.                                                 *)

LEMMA RangeAppend ==
  ASSUME NEW s \in Seq(Nat), NEW m \in Nat
  PROVE  /\ Append(s, m) # <<>> /\ Append(s, m)[Len(Append(s, m))] = m
         /\ \A c : c \in Range(Append(s, m)) <=> c \in Range(s) \/ c = m
<1> DEFINE a == Append(s, m)
<1>1. /\ Len(s) \in Nat /\ DOMAIN s = 1 .. Len(s) /\ Len(a) = Len(s) + 1
      /\ DOMAIN a = 1 .. Len(s) + 1 /\ a[Len(s) + 1] = m
      /\ \A i \in DOMAIN s : a[i] = s[i]
  OBVIOUS
<1>2. a # <<>>
  OBVIOUS
<1> HIDE DEF a
<1>3. ASSUME NEW c, c \in Range(a)
      PROVE  c \in Range(s) \/ c = m
  <2>1. PICK i \in 1 .. Len(s) + 1 : a[i] = c
    BY <1>1, <1>3 DEF Range
  <2>2. i = Len(s) + 1 \/ i \in DOMAIN s
    BY <1>1
  <2> QED  BY <1>1, <2>1, <2>2 DEF Range
<1>4. ASSUME NEW c, c \in Range(s) \/ c = m
      PROVE  c \in Range(a)
  <2>1. CASE c = m
    <3>1. Len(s) + 1 \in DOMAIN a
      BY <1>1
    <3> QED  BY <1>1, <2>1, <3>1 DEF Range
  <2>2. CASE c \in Range(s)
    <3>1. PICK i \in DOMAIN s : s[i] = c
      BY <2>2 DEF Range
    <3>2. i \in DOMAIN a
      BY <1>1
    <3> QED  BY <1>1, <3>1, <3>2 DEF Range
  <2> QED  BY <1>4, <2>1, <2>2
<1>5. a[Len(a)] = m
  BY <1>1
<1> QED  BY <1>2, <1>3, <1>4, <1>5 DEF a

(* The sequence s followed by u.                                           *)
Follows(a, s, u, ls, d) ==
  /\ Len(a) = ls + d /\ \A i \in 1 .. ls : a[i] = s[i]
  /\ \A i \in 1 .. d : a[ls + i] = u[i]

LEMMA Followed ==
  ASSUME NEW s \in Seq(Nat), NEW u \in Seq(Nat), NEW ls \in Nat, NEW d \in Nat,
         ls = Len(s), d = Len(u)
  PROVE  Follows(s \o u, s, u, ls, d)
<1>1. /\ Len(s \o u) = ls + d
      /\ \A i \in 1 .. ls : (s \o u)[i] = s[i]
      /\ \A i \in 1 .. d : (s \o u)[ls + i] = u[i]
  OBVIOUS
<1> QED  BY <1>1, Zenon DEF Follows

(* Upto(b, m) counts the d numbers from b + 1 to m = b + d.                *)
LEMMA Distance ==
  ASSUME NEW b \in Nat, NEW m \in Nat, b <= m
  PROVE  \E d \in Nat : m = b + d
<1>1. m - b \in Nat /\ m = b + (m - b)
  OBVIOUS
<1> QED  BY <1>1

LEMMA Within ==
  ASSUME NEW b \in Nat, NEW d \in Nat, NEW k \in 1 .. d
  PROVE  b <= b + k /\ b + k <= b + d
  OBVIOUS

LEMMA Counted ==
  ASSUME NEW b \in Nat, NEW d \in Nat, NEW c \in Nat, b < c, c <= b + d
  PROVE  \E k \in 1 .. d : c = b + k
<1>1. c - b \in 1 .. d /\ c = b + (c - b)
  OBVIOUS
<1> QED  BY <1>1

LEMMA UptoFacts ==
  ASSUME NEW b \in Nat, NEW d \in Nat
  PROVE  /\ Upto(b, b + d) \in Seq(Nat) /\ Len(Upto(b, b + d)) = d
         /\ DOMAIN Upto(b, b + d) = 1 .. d
         /\ \A i \in 1 .. d : Upto(b, b + d)[i] = b + i
<1>1. (IF b < b + d THEN (b + d) - b ELSE 0) = d
  OBVIOUS
<1> DEFINE u == Upto(b, b + d)
<1>2. u = [i \in 1 .. d |-> b + i]
  BY <1>1 DEF Upto
<1>3. u \in Seq(Nat)
  <2>1. b + d \in Nat
    OBVIOUS
  <2> QED  BY <2>1, UptoType
<1> HIDE DEF u
<1>4. DOMAIN u = 1 .. d /\ \A i \in 1 .. d : u[i] = b + i
  BY <1>2
<1>5. Len(u) = d
  BY <1>3, <1>4
<1> QED  BY <1>3, <1>4, <1>5 DEF u

(* A range ends with its last channel and has all from b on.               *)
LEMMA RangeUpto ==
  ASSUME NEW s \in Seq(Nat), NEW b \in Nat, NEW m \in Nat, NEW a \in Seq(Nat),
         s # <<>>, b = s[Len(s)], b <= m, a = s \o Upto(b, m)
  PROVE  /\ a # <<>> /\ a[Len(a)] = m
         /\ \A c \in Nat : c \in Range(a) <=> c \in Range(s) \/ (b <= c /\ c <= m)
<1>1. PICK ls \in Nat : ls = Len(s)
  OBVIOUS
<1>2. ls > 0 /\ DOMAIN s = 1 .. ls /\ b = s[ls]
  BY <1>1
<1>3. PICK d \in Nat : m = b + d
  BY Distance, Zenon
<1>4. PICK u \in Seq(Nat) : u = Upto(b, b + d)
  BY UptoFacts, Zenon
<1>5. Len(u) = d /\ DOMAIN u = 1 .. d /\ \A i \in 1 .. d : u[i] = b + i
  BY <1>4, UptoFacts, Zenon
<1>6. a = s \o u
  BY <1>3, <1>4, Zenon
<1>7. /\ Len(a) = ls + d /\ \A i \in 1 .. ls : a[i] = s[i]
      /\ \A i \in 1 .. d : a[ls + i] = u[i]
  <2>1. Follows(s \o u, s, u, ls, d)
    BY <1>1, <1>5, Followed, Zenon
  <2> QED  BY <1>6, <2>1, Zenon DEF Follows
<1>8. DOMAIN a = 1 .. ls + d
  BY <1>7
<1>9. ls \in 1 .. ls /\ ls \in 1 .. ls + d /\ ls + d \in 1 .. ls + d
  BY <1>2
<1>10. a[ls] = b
  BY <1>2, <1>7, <1>9, Zenon
<1>11. a # <<>>
  BY <1>2, <1>7
<1>12. \A k \in 1 .. d : ls + k \in 1 .. ls + d /\ a[ls + k] = b + k
  <2>1. \A k \in 1 .. d : ls + k \in 1 .. ls + d
    OBVIOUS
  <2> QED  BY <1>5, <1>7, <2>1, Zenon
<1>13. a[Len(a)] = m
  <2>1. CASE d = 0
    <3>1. ls + d = ls /\ m = b
      BY <1>3, <2>1
    <3> QED  BY <1>7, <1>10, <3>1, Zenon
  <2>2. CASE d # 0
    <3>1. d \in 1 .. d
      BY <2>2
    <3> QED  BY <1>3, <1>7, <1>12, <3>1, Zenon
  <2> QED  BY <2>1, <2>2, Zenon
<1>14. ASSUME NEW c \in Nat, c \in Range(a)
       PROVE  c \in Range(s) \/ (b <= c /\ c <= m)
  <2>1. PICK i \in 1 .. ls + d : a[i] = c
    BY <1>8, <1>14, Zenon DEF Range
  <2>2. CASE i \in 1 .. ls
    BY <1>2, <1>7, <2>1, <2>2, Zenon DEF Range
  <2>3. CASE i \notin 1 .. ls
    <3>1. PICK k \in 1 .. d : i = ls + k
      <4>1. i \in Nat /\ ls < i /\ i <= ls + d
        BY <2>3
      <4> QED  BY <4>1, Counted, Zenon
    <3>2. c = b + k
      BY <1>12, <2>1, <3>1, Zenon
    <3>3. b <= b + k /\ b + k <= b + d
      BY Within, Zenon
    <3> QED  BY <1>3, <3>2, <3>3, Zenon
  <2> QED  BY <2>2, <2>3, Zenon
<1>15. ASSUME NEW c \in Nat, c \in Range(s) \/ (b <= c /\ c <= m)
       PROVE  c \in Range(a)
  <2>1. CASE c \in Range(s)
    <3>1. PICK i \in 1 .. ls : s[i] = c
      BY <1>2, <2>1, Zenon DEF Range
    <3>2. i \in 1 .. ls + d
      OBVIOUS
    <3> QED  BY <1>7, <1>8, <3>1, <3>2, Zenon DEF Range
  <2>2. CASE c = b
    BY <1>8, <1>9, <1>10, <2>2, Zenon DEF Range
  <2>3. CASE b < c /\ c <= m
    <3>1. PICK k \in 1 .. d : c = b + k
      <4>1. c <= b + d
        BY <1>3, <2>3, Zenon
      <4>2. c \in Nat /\ b \in Nat /\ d \in Nat /\ b < c
        BY <2>3, Zenon
      <4> QED  BY ONLY <4>1, <4>2, Counted
    <3> QED  BY <1>8, <1>12, <3>1, Zenon DEF Range
  <2>4. c \in Range(s) \/ c = b \/ (b < c /\ c <= m)
    BY <1>15
  <2> QED  BY <2>1, <2>2, <2>3, <2>4, Zenon
<1> QED  BY <1>11, <1>13, <1>14, <1>15, Zenon

-----------------------------------------------------------------------------
(* The parser keeps up with the meaning of the string.                     *)

LEMMA NamesWord ==
  ASSUME TypeOK, NEW t \in Tokens, Token(t), NEW n, n = Len(input) + 1,
         t.word # "number"
  PROVE  /\ \A c : ~Names(n, c)'
         /\ \A c : Open(c)' <=> Open(c) /\ t.word # "FULL"
<1>1. /\ IsLevel(n)' <=> t.word = "FULL"
      /\ ~IsChannel(n)'
  BY NewToken
<1>2. \A c : ~Names(n, c)'
  BY <1>1 DEF Names
<1>3. \A c : Open(c)' <=> ~IsLevel(n)' /\ (Open(c) \/ Names(n, c)')
  BY OpenAfter
<1> QED  BY <1>1, <1>2, <1>3

(* What stands before the new token of a well-formed string.               *)
LEMMA FitsToken ==
  ASSUME TypeOK, NEW t \in Tokens, Token(t), NEW n, n = Len(input) + 1, Fits(n)'
  PROVE  /\ t.word # "release"
         /\ t.word \in {"AT", "AND", "THRU"} => LastIs("number") /\ IsChannel(Len(input))
         /\ t.word = "FULL" => LastIs("number") \/ LastIs("AT")
         /\ LastIs("AT") => t.word = "number" \/ t.word = "FULL"
         /\ LastIs("THRU") =>
              t.word = "number" /\ Len(input) > 1 /\ input[Len(input) - 1].n <= t.n
<1>1. /\ Len(input) \in Nat /\ Len(input') = n /\ n - 1 = Len(input)
      /\ DOMAIN input = 1 .. Len(input) /\ DOMAIN input' = 1 .. n
      /\ \A i \in DOMAIN input : input'[i] = input[i]
      /\ input'[n] = t
  BY Appended
<1>2. \A w : LastIs(w) <=> n > 1 /\ input[n - 1].word = w
  <2>1. input # <<>> <=> n > 1
    BY DEF TypeOK
  <2> QED  BY <1>1, <2>1 DEF LastIs
<1>3. n > 1 => n - 1 \in DOMAIN input /\ input'[n - 1] = input[n - 1]
  BY <1>1
<1>4. \A w : w # "nothing" => (Before(n)' = w <=> LastIs(w))
  BY <1>2, <1>3 DEF Before
<1>5. IsChannel(n - 1)' => IsChannel(Len(input)) /\ LastIs("number")
  <2>1. IsChannel(n - 1)' => IsChannel(n - 1)
    BY <1>1, Kept
  <2>2. IsChannel(n - 1) => LastIs("number")
    BY <1>1, <1>2 DEF IsChannel
  <2> QED  BY <1>1, <2>1, <2>2
<1>6. IsLevel(n)' => t.word = "number" \/ t.word = "FULL"
  BY NewToken
<1>7. IsChannel(n)' => t.word = "number"
  BY NewToken
<1>8. n > 2 => n - 2 \in DOMAIN input /\ n - 2 = Len(input) - 1
  BY <1>1
<1> QED  BY <1>1, <1>4, <1>5, <1>6, <1>7, <1>8 DEF Fits

LEMMA ParsedWord ==
  ASSUME TypeOK, And \/ At \/ Thru, Parsed, WellFormed'
  PROVE  Parsed'
<1>1. PICK w \in {"AND", "AT", "THRU"} : Token(Word(w)) /\ (w = "AND" => And)
                                         /\ (w = "AT" => At) /\ (w = "THRU" => Thru)
  BY DEF And, At, Thru
<1>2. PICK t \in Tokens : t = Word(w)
  BY <1>1 DEF Tokens
<1>3. PICK n : n = Len(input) + 1
  OBVIOUS
<1>4. Token(t) /\ t.word = w
  BY <1>1, <1>2 DEF Word
<1>5. LastIs("number")
  <2>1. Fits(n)'
    BY <1>3, <1>4, WellFormedBefore
  <2> QED  BY <1>1, <1>3, <1>4, <2>1, FitsToken
<1>6. ~isLEVEL /\ ~isTHRU
  BY <1>5 DEF Parsed, LastIs, TypeOK
<1>7. /\ UNCHANGED <<dmxFrame, channels>>
      /\ isLEVEL' = (w = "AT")
      /\ isTHRU' = (w = "THRU")
  BY <1>1, <1>6 DEF And, At, Thru, parseVars, TypeOK
<1>8. \A c : Open(c)' <=> Open(c)
  BY <1>1, <1>3, <1>4, NamesWord
<1>9. ~IsLevel(n)'
  BY <1>1, <1>3, <1>4, NewToken
<1>10. Obeyed(dmxFrame)'
  BY <1>3, <1>4, <1>7, <1>9, ObeyedToken DEF Parsed
<1>11. \A c \in Nat : c \in Range(channels') <=> Open(c)'
  BY <1>7, <1>8 DEF Parsed
<1> QED  BY <1>1, <1>3, <1>4, <1>7, <1>10, <1>11, ParsedToken

(* A level goes to the channels that are open, and none is open then.      *)
LEMMA ParsedLevel ==
  ASSUME TypeOK, NEW t \in Tokens, Token(t), Parsed, WellFormed', NEW l,
         \/ t.word = "FULL" /\ l = LevelSize - 1
         \/ t.word = "number" /\ isLEVEL /\ l = Truncated(t.n),
         dmxFrame' = SetLevel(l), channels' = <<>>, isLEVEL' = FALSE, isTHRU' = isTHRU
  PROVE  Parsed'
<1>1. PICK n : n = Len(input) + 1
  OBVIOUS
<1>2. LastIs("number") \/ LastIs("AT")
  <2>1. Fits(n)'
    BY <1>1, WellFormedBefore
  <2> QED  BY <1>1, <2>1, FitsToken DEF Parsed
<1>3. ~isTHRU /\ (isLEVEL <=> LastIs("AT"))
  BY <1>2 DEF Parsed, LastIs
<1>4. IsLevel(n)'
  BY <1>1, <1>3, NewToken
<1>5. LevelAt(n)' = l
  <2>1. input'[n] = t
    BY <1>1, Appended
  <2> QED  BY <2>1 DEF LevelAt
<1>6. \A c \in Slots \ {0} : dmxFrame'[c] = IF Open(c) THEN l ELSE dmxFrame[c]
  BY DEF SetLevel, Parsed, Slots
<1>7. Obeyed(dmxFrame)'
  BY <1>1, <1>4, <1>5, <1>6, ObeyedToken DEF Parsed
<1>8. \A c : ~Open(c)'
  BY <1>1, <1>4, OpenAfter
<1>9. \A c : c \notin Range(channels')
  BY DEF Range
<1>10. isTHRU' <=> t.word = "THRU"
  BY <1>3
<1>11. isLEVEL' <=> t.word = "AT"
  OBVIOUS
<1>12. ~(t.word = "number" /\ ~LastIs("AT"))
  BY <1>3
<1> QED  BY <1>1, <1>7, <1>8, <1>9, <1>10, <1>11, <1>12, ParsedToken

(* A channel or a range is open until a level follows.                     *)
LEMMA ParsedChannel ==
  ASSUME TypeOK, NEW m \in Numbers, Parsed, WellFormed',
         Channel(m) \/ RangeEnd(m) \/ RangeEndEmpty(m)
  PROVE  Parsed'
<1>1. PICK t \in Tokens : t = Num(m)
  BY DEF Tokens
<1>2. PICK n : n = Len(input) + 1
  OBVIOUS
<1>3. Token(t) /\ t.word = "number" /\ t.n = m /\ m \in Nat /\ m <= NumChannels
  BY <1>1, KeyAssumption DEF Num, Channel, RangeEnd, RangeEndEmpty
<1>4. ~isLEVEL /\ ~LastIs("AT")
  BY DEF Parsed, Channel, RangeEnd, RangeEndEmpty
<1>5. IsChannel(n)' /\ ~IsLevel(n)'
  BY <1>2, <1>3, <1>4, NewToken
<1>6. /\ Len(input) \in Nat /\ Len(input') = n /\ n - 1 = Len(input)
      /\ DOMAIN input = 1 .. Len(input) /\ input'[n] = t
      /\ \A i \in DOMAIN input : input'[i] = input[i]
  BY <1>2, <1>3, Appended
<1>7. Fits(n)' /\ WellFormed
  BY <1>2, <1>3, WellFormedBefore
<1>8. \A c : Open(c)' <=> Open(c) \/ Names(n, c)'
  BY <1>2, <1>3, <1>5, OpenAfter
<1>9. CASE LastIs("THRU")
  <2> DEFINE b == input[Len(input) - 1].n
  <2>1. Len(input) > 1 /\ b <= m
    BY <1>2, <1>3, <1>7, <1>9, FitsToken
  <2>2. Len(input) - 1 \in DOMAIN input /\ Len(input) \in DOMAIN input /\ n > 2
        /\ n - 2 = Len(input) - 1
    BY <1>6, <2>1
  <2>3. IsChannel(Len(input) - 1)
    BY <1>7, <1>9, <2>2 DEF WellFormed, Fits, LastIs
  <2>4. channels # <<>> /\ channels[Len(channels)] = b
    BY <1>9, <2>3 DEF Parsed, LastChannel
  <2>5. \A c \in Nat : Names(n, c)' <=> b <= c /\ c <= m
    <3>1. input'[n - 1].word = "THRU" /\ input'[n - 2].n = b
      BY <1>6, <1>9, <2>2 DEF LastIs
    <3>2. \A c : Names(n, c)' <=> m = c \/ (b <= c /\ c <= m)
      BY <1>3, <1>5, <1>6, <2>2, <3>1 DEF Names
    <3> QED  BY <1>3, <2>1, <3>2
  <2>6. isTHRU
    BY <1>9 DEF Parsed
  <2>7. /\ channels' = IF m >= 1 THEN channels \o Upto(b, m) ELSE channels
        /\ isTHRU' = FALSE /\ UNCHANGED <<dmxFrame, isLEVEL>>
    BY <1>3, <2>4, <2>6 DEF Channel, RangeEnd, RangeEndEmpty
  <2>8. channels \in Seq(Nat) /\ b \in Nat
    BY <2>4 DEF TypeOK
  <2> HIDE DEF b
  <2>9. /\ channels' # <<>> /\ channels'[Len(channels')] = m
        /\ \A c \in Nat : c \in Range(channels')
                            <=> c \in Range(channels) \/ (b <= c /\ c <= m)
    <3>1. CASE m >= 1
      <4>1. channels' = channels \o Upto(b, m)
        BY <2>7, <3>1
      <4>2. Upto(b, m) \in Seq(Nat)
        BY <1>3, <2>8, UptoType
      <4>3. channels' \in Seq(Nat)
        BY <2>8, <4>1, <4>2
      <4>4. PICK v \in Seq(Nat), q \in Nat, a \in Seq(Nat) :
              v = channels /\ q = b /\ a = channels'
        BY <2>8, <4>3
      <4>5. v # <<>> /\ q = v[Len(v)] /\ q <= m /\ a = v \o Upto(q, m)
        BY <2>1, <2>4, <4>1, <4>4
      <4>6. /\ a # <<>> /\ a[Len(a)] = m
            /\ \A c \in Nat : c \in Range(a) <=> c \in Range(v) \/ (q <= c /\ c <= m)
        <5>1. m \in Nat
          BY <1>3
        <5> QED  BY ONLY <4>5, <5>1, v \in Seq(Nat), q \in Nat, a \in Seq(Nat), RangeUpto
      <4> QED  BY <4>4, <4>6
    <3>2. CASE ~(m >= 1)
      <4>1. m = 0 /\ b = 0 /\ channels' = channels
        BY <1>3, <2>1, <2>7, <2>8, <3>2
      <4>2. Len(channels) \in DOMAIN channels
        BY <2>4, <2>8
      <4>3. 0 \in Range(channels)
        BY <2>4, <4>1, <4>2 DEF Range
      <4>4. \A c \in Nat : b <= c /\ c <= m => c \in Range(channels)
        <5>1. \A c \in Nat : b <= c /\ c <= m => c = 0
          BY <4>1
        <5> QED  BY <4>3, <5>1
      <4>5. channels' # <<>> /\ channels'[Len(channels')] = m
        BY <2>4, <4>1
      <4>6. Range(channels') = Range(channels)
        BY <4>1
      <4>7. \A c \in Nat : c \in Range(channels')
                             <=> c \in Range(channels) \/ (b <= c /\ c <= m)
        BY ONLY <4>4, <4>6
      <4> QED  BY <4>5, <4>7
    <3> QED  BY <3>1, <3>2
  <2>10. \A c \in Nat : c \in Range(channels') <=> Open(c)'
    BY <1>8, <2>5, <2>9 DEF Parsed
  <2>11. Obeyed(dmxFrame)'
    BY <1>2, <1>3, <1>5, <2>7, ObeyedToken DEF Parsed
  <2> QED  BY <1>2, <1>3, <1>4, <2>7, <2>9, <2>10, <2>11, ParsedToken
<1>10. CASE ~LastIs("THRU")
  <2>1. ~isTHRU
    BY <1>10 DEF Parsed
  <2>2. channels' = Append(channels, m) /\ UNCHANGED <<dmxFrame, isLEVEL, isTHRU>>
    BY <2>1 DEF Channel, RangeEnd, RangeEndEmpty
  <2>3. \A c : Names(n, c)' <=> c = m
    <3>1. n > 2 => input'[n - 1].word # "THRU"
      <4>1. n > 2 => Len(input) \in DOMAIN input /\ input # <<>>
        BY <1>6
      <4> QED  BY <1>6, <1>10, <4>1 DEF LastIs
    <3> QED  BY <1>3, <1>5, <1>6, <3>1 DEF Names
  <2>4. /\ channels' # <<>> /\ channels'[Len(channels')] = m
        /\ \A c : c \in Range(channels') <=> c \in Range(channels) \/ c = m
    BY <1>3, <2>2, RangeAppend DEF TypeOK
  <2>5. \A c \in Nat : c \in Range(channels') <=> Open(c)'
    BY <1>8, <2>3, <2>4 DEF Parsed
  <2>6. Obeyed(dmxFrame)'
    BY <1>2, <1>3, <1>5, <2>2, ObeyedToken DEF Parsed
  <2> QED  BY <1>2, <1>3, <1>4, <2>1, <2>2, <2>4, <2>5, <2>6, ParsedToken
<1> QED  BY <1>9, <1>10

LEMMA MeaningStep == TypeOK /\ MeaningInv /\ [Next]_vars => MeaningInv'
<1> SUFFICES ASSUME TypeOK, MeaningInv, [Next]_vars
             PROVE  MeaningInv'
  OBVIOUS
<1>1. CASE Start
  <2>1. pc' = "parse" /\ input' = <<>> /\ channels' = <<>>
        /\ isLEVEL' = FALSE /\ isTHRU' = FALSE
    BY <1>1 DEF Start
  <2>2. \A c \in Slots \ {0} : dmxFrame'[c] = shadow'[c]
    BY <1>1 DEF Start
  <2>3. DOMAIN input' = {} /\ \A w : ~LastIs(w)'
    BY <2>1 DEF LastIs
  <2>4. Obeyed(dmxFrame)'
    BY <2>2, <2>3 DEF Obeyed, Ungiven, Slots
  <2>5. \A c : ~Open(c)' /\ c \notin Range(channels')
    BY <2>1, <2>3 DEF Open, Range
  <2>6. LastChannel(Len(input))'
    BY <2>3 DEF LastChannel, IsChannel
  <2> QED  BY <2>1, <2>3, <2>4, <2>5, <2>6 DEF MeaningInv, Parsed
<1>2. CASE Send
  <2>1. /\ pc \in {"parse", "break"} /\ pc' = "idle"
        /\ sent' = dmxFrame /\ UNCHANGED <<input, shadow>>
    BY <1>2 DEF Send, histVars
  <2>2. WellFormed' => WellFormed
    BY <2>1 DEF WellFormed, Fits, IsChannel, IsLevel, Before
  <2>3. Obeyed(dmxFrame) => Obeyed(sent)'
    BY <2>1 DEF Obeyed, Ungiven, Given, Gives, Names, LevelAt, IsChannel, IsLevel, Before, Truncated
  <2> QED  BY <2>1, <2>2, <2>3 DEF MeaningInv, Parsed
<1>3. CASE Release
  <2>1. pc' = "break"
    BY <1>3 DEF Release
  <2>2. PICK t \in Tokens : t = Word("release")
    BY DEF Tokens
  <2>3. Token(t) /\ t.word = "release"
    BY <1>3, <2>2 DEF Release, Word
  <2>4. ~WellFormed'
    <3>1. PICK n : n = Len(input) + 1
      OBVIOUS
    <3>2. WellFormed' => Fits(n)'
      BY <2>3, <3>1, WellFormedBefore
    <3> QED  BY <2>3, <3>1, <3>2, FitsToken
  <2> QED  BY <2>1, <2>4 DEF MeaningInv
<1>4. CASE (Key /\ ~Release) \/ Number
  <2>1. pc = "parse" /\ pc' \in {"parse", "fault"}
    BY <1>4 DEF Key, Number, And, At, Full, Thru, Level, RangeEnd, RangeEndEmpty, Channel, Token
  <2>2. SUFFICES ASSUME WellFormed'
                 PROVE  Parsed'
    BY <2>1 DEF MeaningInv
  <2>3. PICK t \in Tokens : Token(t)
    BY <1>4, ReadsToken
  <2>4. Parsed
    <3>1. PICK n : n = Len(input) + 1
      OBVIOUS
    <3>2. WellFormed
      BY <2>2, <2>3, <3>1, WellFormedBefore
    <3> QED  BY <2>1, <3>2 DEF MeaningInv
  <2>5. CASE And \/ At \/ Thru
    BY <2>2, <2>4, <2>5, ParsedWord
  <2>6. CASE Full
    <3>1. PICK u \in Tokens : u = Word("FULL")
      BY DEF Tokens
    <3>2. PICK l : l = LevelSize - 1
      OBVIOUS
    <3>3. /\ Token(u) /\ u.word = "FULL" /\ dmxFrame' = SetLevel(l)
          /\ channels' = <<>> /\ isLEVEL' = FALSE /\ isTHRU' = isTHRU
      BY <2>6, <3>1, <3>2 DEF Full, Word
    <3> QED  BY <2>2, <2>4, <3>2, <3>3, ParsedLevel
  <2>7. ASSUME NEW m \in Numbers, Level(m)
        PROVE  Parsed'
    <3>1. PICK u \in Tokens : u = Num(m)
      BY DEF Tokens
    <3>2. /\ Token(u) /\ u.word = "number" /\ u.n = m /\ isLEVEL
          /\ dmxFrame' = SetLevel(Truncated(m))
          /\ channels' = <<>> /\ isLEVEL' = FALSE /\ isTHRU' = isTHRU
      BY <2>7, <3>1 DEF Level, Num
    <3> QED  BY <2>2, <2>4, <3>2, ParsedLevel
  <2>8. ASSUME NEW m \in Numbers, Channel(m) \/ RangeEnd(m) \/ RangeEndEmpty(m)
        PROVE  Parsed'
    BY <2>2, <2>4, <2>8, ParsedChannel
  <2> QED  BY <1>4, <2>5, <2>6, <2>7, <2>8 DEF Key, Number
<1>5. CASE unsafeWriteBuffer \/ UNCHANGED vars
  <2>1. UNCHANGED <<pc, dmxFrame, channels, isLEVEL, isTHRU, sent, input, shadow, commands>>
    BY <1>5 DEF unsafeWriteBuffer, vars, parseVars, pathVars, histVars
  <2>2. WellFormed' => WellFormed
    BY <2>1 DEF WellFormed, Fits, IsChannel, IsLevel, Before
  <2>3. WellFormed => WellFormed'
    BY <2>1 DEF WellFormed, Fits, IsChannel, IsLevel, Before
  <2>4. ASSUME NEW frame
        PROVE  Obeyed(frame)' <=> Obeyed(frame)
    BY <2>1 DEF Obeyed, Ungiven, Given, Gives, Names, LevelAt, IsChannel, IsLevel, Before, Truncated
  <2>5. \A c : Open(c)' <=> Open(c)
    BY <2>1 DEF Open, Names, IsChannel, IsLevel, Before
  <2>6. Parsed => Parsed'
    BY <2>1, <2>4, <2>5 DEF Parsed, LastIs, LastChannel, IsChannel, IsLevel, Before
  <2> QED  BY <2>1, <2>2, <2>3, <2>4, <2>6 DEF MeaningInv
<1> QED  BY <1>1, <1>2, <1>3, <1>4, <1>5 DEF Next, Key

(* After every well-formed command the frame put into the queue has, at    *)
(* every channel, the level the string gave it last, or the one it had.    *)
THEOREM CommandsAreObeyed == Spec => []ObeysCommand
<1>1. Init => MeaningInv
  BY DEF Init, MeaningInv
<1>2. TypeOK /\ MeaningInv => ObeysCommand
  <2>1. SUFFICES ASSUME TypeOK, MeaningInv, Done, WellFormed, NEW c \in Slots \ {0}
                 PROVE  sent[c] = Meaning(c)
    BY DEF ObeysCommand
  <2>2. Obeyed(sent)
    BY <2>1 DEF MeaningInv, Done
  <2> QED  BY <2>1, <2>2, ObeyedMeaning
<1> QED  BY <1>1, <1>2, TypeInit, TypeStep, MeaningStep, PTL DEF Spec
=============================================================================
