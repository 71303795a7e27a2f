------------------------------- MODULE Keypad -------------------------------
(***************************************************************************)
(* The keypad page (fs/keypad.js) in front of processKeys: the key string  *)
(* under the keys, solo mode, the channels and levels the page shows, and  *)
(* the requests on their way.  The page shows what it makes of a string    *)
(* itself, with a parser of its own; it never asks the unit.               *)
(*                                                                         *)
(* Either the page sends all strings, or another client does, which sends  *)
(* any: then this is KeyCommand.  Requests of the page are on their way at *)
(* the same time and may arrive in another order or not at all.            *)
(***************************************************************************)
EXTENDS KeyCommand, SequencesExt

CONSTANTS
  Short,       (* Numbers below it are padded with zeros (100).            *)
  Strings,     (* The strings an operator types, with "AT" in them.        *)
  MaxRequests, (* Bound: requests of the page.                             *)
  OtherTokens  (* Bounds: tokens of each string of the other client.       *)

(* A number of a string with or without leading zeros.                     *)
Written(n, zeros) == [word |-> "number", n |-> n, zeros |-> zeros]
Key_(w)           == [word |-> w, n |-> 0, zeros |-> FALSE]

AT == Key_("AT")

PageTokens == {Key_(w) : w \in {"AND", "AT", "FULL", "THRU", "release"}}
                \cup {Written(n, z) : n \in Numbers, z \in BOOLEAN}

(* Solo mode sends the number 0 by itself.                                 *)
ASSUME PadAssumption ==
  /\ Short \in Nat
  /\ 0 \in Numbers
  /\ MaxRequests \in 0 .. MaxCommands
  /\ OtherTokens \in Seq(Nat)
  /\ \A s \in Strings : s \in Seq(PageTokens) /\ Contains(s, AT) /\ Last(s) # AT
  /\ \A s \in Strings : Len(s) <= MaxTokens

VARIABLES
  client,       (* Who sends the strings: "page" or "other".               *)
  keyBuffer, prevBuffer, soloMode,
  channelData,  (* The channels shown, and their levels.                   *)
  flight,       (* The requests on their way, in the order of fetch.       *)
  request,      (* The string processKeys has.                             *)
  requests,     (* Number of requests so far (bounds the model).           *)
  disordered,   (* History: a request was lost, came before an earlier one *)
                (* or began when an earlier frame was on its way.          *)
  intricate,    (* History: a string was sent that the page misreads.      *)
  soloed        (* History: the last step of solo mode, if nothing was     *)
                (* under way, and nothing else was sent since.             *)

pageVars == <<keyBuffer, prevBuffer, soloMode, channelData, requests, intricate, soloed>>
padVars  == <<client, pageVars, flight, request, disordered>>

NoStep == [from |-> 0, to |-> 0, level |-> 0]

PageTypeOK ==
  /\ TypeOK
  /\ client \in {"page", "other"}
  /\ keyBuffer \in Seq(PageTokens) /\ prevBuffer \in Seq(PageTokens)
  /\ soloMode \in BOOLEAN
  /\ DOMAIN channelData \subseteq 0 .. NumChannels /\ Range(channelData) \subseteq Nat
  /\ flight \in Seq(Seq(Tokens)) /\ request \in Seq(Tokens)
  /\ requests \in 0 .. MaxRequests
  /\ disordered \in BOOLEAN /\ intricate \in BOOLEAN
  /\ soloed \in [from: 0 .. NumChannels, to: 0 .. NumChannels, level: Nat]

PadInit ==
  /\ Init
  /\ client \in {"page", "other"}
  /\ keyBuffer = <<>> /\ prevBuffer = <<>> /\ soloMode = FALSE
  /\ channelData = <<>>
  /\ flight = <<>> /\ request = <<>> /\ requests = 0
  /\ disordered = FALSE /\ intricate = FALSE
  /\ soloed = NoStep

-----------------------------------------------------------------------------
(* parseBuffer: only the first "AT" and the first "THRU" count.            *)

FirstAt(s)   == SelectInSeq(s, LAMBDA t : t = AT)
FirstThru(s) == SelectInSeq(s, LAMBDA t : t.word = "THRU")

IsNumber(s, i) == i \in DOMAIN s /\ s[i].word = "number"

(* Mutant of Shown: a range ends one channel later.                        *)
MutShown(s) ==
  LET t == FirstThru(s)
  IN  IF t = 0
      THEN {s[i].n : i \in {j \in 1 .. FirstAt(s) - 1 : IsNumber(s, j)}}
      ELSE IF IsNumber(s, t - 1) /\ IsNumber(s, t + 1) THEN s[t - 1].n .. s[t + 1].n + 1
      ELSE {}

(* The channels of a string: those before its "AT", or those of its range, *)
(* which has none unless it is between two numbers.                        *)
Shown(s) ==
  LET t == FirstThru(s)
  IN  IF t = 0
      THEN {s[i].n : i \in {j \in 1 .. FirstAt(s) - 1 : IsNumber(s, j)}}
      ELSE IF IsNumber(s, t - 1) /\ IsNumber(s, t + 1) THEN s[t - 1].n .. s[t + 1].n
      ELSE {}

(* The channels of a string that are written as the entries are: with      *)
(* three digits.                                                           *)
Exact(s) ==
  {c \in Shown(s) : \/ c >= Short
                    \/ /\ FirstThru(s) = 0
                       /\ \E i \in 1 .. FirstAt(s) - 1 : s[i] = Written(c, TRUE)}

(* The level of a string, and whether it is the one the page takes for 0.  *)
LevelToken(s) == s[FirstAt(s) + 1]
ShownLevel(s) == IF LevelToken(s).word = "FULL" THEN LevelSize - 1 ELSE LevelToken(s).n
Deletes(s)    == s # <<>> /\ LevelToken(s) = Written(0, FALSE)

(* The display after a string; an empty one leaves it alone.               *)
parseBuffer(data, s) ==
  IF Deletes(s)
  THEN Restrict(data, DOMAIN data \ Exact(s))
  ELSE [c \in DOMAIN data \cup Shown(s) |-> IF c \in Shown(s) THEN ShownLevel(s) ELSE data[c]]

(* The strings the page reads as processKeys does: one clause, with a list *)
(* or a range that ascends, and a level that is one.                       *)
Plain(s) ==
  LET a == FirstAt(s)
  IN  /\ a > 1 /\ Len(s) = a + 1
      /\ \/ /\ a = 4 /\ IsNumber(s, 1) /\ s[2].word = "THRU" /\ IsNumber(s, 3)
            /\ s[1].n <= s[3].n
         \/ /\ a % 2 = 0
            /\ \A i \in 1 .. a - 1 : s[i].word = (IF i % 2 = 1 THEN "number" ELSE "AND")
      /\ LevelToken(s).word \in {"number", "FULL"} /\ ShownLevel(s) < LevelSize

(* Nothing typed means nothing to either of them.                          *)
Alike(s) == s = <<>> \/ Plain(s)

(* A 0 removes what is shown of its channels.                              *)
Removes(data, s) == Deletes(s) => Shown(s) \cap DOMAIN data \subseteq Exact(s)

-----------------------------------------------------------------------------
(* sendKeys.                                                               *)

(* paddedBuffer, and what processKeys takes a string for.                  *)
Padded(s)  == [i \in DOMAIN s |-> IF s[i].word = "number" THEN Written(s[i].n, TRUE) ELSE s[i]]
Content(s) == [i \in DOMAIN s |-> [word |-> s[i].word, n |-> s[i].n]]

(* No request is on its way, and no frame.                                 *)
AtRest == pc = "idle" /\ flight = <<>> /\ queued = <<>>

Page == client = "page" /\ UNCHANGED <<client, vars, request, disordered>>

(* A fetch of each of some strings.                                        *)
Fetch(list) ==
  /\ requests + Len(list) <= MaxRequests
  /\ requests' = requests + Len(list)
  /\ flight' = flight \o [i \in DOMAIN list |-> Content(list[i])]

(* appendKey, until the string is complete.  The bound ends typing too.    *)
Type(s) ==
  /\ Page /\ requests < MaxRequests
  /\ keyBuffer' = s
  /\ UNCHANGED <<prevBuffer, soloMode, channelData, flight, requests, intricate, soloed>>

sendKeys ==
  /\ Page
  /\ Fetch(<<keyBuffer>>)
  /\ prevBuffer' = Padded(keyBuffer)
  /\ channelData' = parseBuffer(channelData, keyBuffer)
  /\ intricate' = (intricate \/ ~Alike(keyBuffer) \/ ~Removes(channelData, keyBuffer))
  /\ keyBuffer' = <<>> /\ soloed' = NoStep
  /\ UNCHANGED soloMode

clearDisplay ==
  /\ Page
  /\ keyBuffer' = <<>>
  /\ UNCHANGED <<prevBuffer, soloMode, channelData, flight, requests, intricate, soloed>>

(* Mutant of release: the channels stay on the page.                       *)
MutRelease ==
  /\ Page
  /\ Fetch(<< <<Key_("release")>> >>)
  /\ soloMode' = FALSE /\ keyBuffer' = <<>> /\ soloed' = NoStep
  /\ UNCHANGED <<channelData, prevBuffer, intricate>>

release ==
  /\ Page
  /\ Fetch(<< <<Key_("release")>> >>)
  /\ channelData' = <<>> /\ soloMode' = FALSE
  /\ keyBuffer' = <<>> /\ soloed' = NoStep
  /\ UNCHANGED <<prevBuffer, intricate>>

(* solo switches solo mode on, or off with a release.                      *)
soloOn ==
  /\ Page /\ ~soloMode
  /\ soloMode' = TRUE /\ keyBuffer' = prevBuffer
  /\ UNCHANGED <<prevBuffer, channelData, flight, requests, intricate, soloed>>

soloOff == soloMode /\ release

(* Mutant of Off: the channel keeps its level.                             *)
MutOff(n) == <<Written(n, TRUE), AT, Written(1, FALSE)>>

(* What solo mode sends to switch a channel off.                           *)
Off(n) == <<Written(n, TRUE), AT, Written(0, FALSE)>>

(* The numbers of a string that stand before an "AT".                      *)
BeforeAt(s) == {k \in 1 .. Len(s) - 1 : s[k].word = "number" /\ s[k + 1] = AT}

(* The first of them, off; and its neighbour with the rest of the string.  *)
(* Neighbours below 0 and above the universe are left out.                 *)
soloChange(d) ==
  /\ Page /\ soloMode
  /\ \E k \in BeforeAt(prevBuffer) :
       LET n    == prevBuffer[k].n
           next == <<Written(n + d, FALSE)>> \o SubSeq(prevBuffer, k + 1, Len(prevBuffer))
           data == parseBuffer(channelData, Off(n))
       IN  /\ \A j \in BeforeAt(prevBuffer) : k <= j
           /\ n + d \in Numbers
           /\ Fetch(<<Off(n), next>>)
           /\ keyBuffer' = next /\ prevBuffer' = Padded(next)
           /\ channelData' = parseBuffer(data, next)
           /\ intricate' = (intricate \/ ~Plain(next) \/ ~Removes(data, next))
           /\ soloed' = IF AtRest /\ Plain(next)
                          THEN [from |-> n, to |-> n + d, level |-> ShownLevel(next)]
                          ELSE NoStep
  /\ UNCHANGED soloMode

-----------------------------------------------------------------------------
(* The way to processKeys, and its steps.                                  *)

(* A request arrives, of several any, and is begun at once, with the       *)
(* buffer as it is then.                                                   *)
Arrives(i) ==
  /\ Start
  /\ request' = flight[i] /\ flight' = RemoveAt(flight, i)
  /\ disordered' = (disordered \/ i # 1 \/ queued # <<>>)
  /\ UNCHANGED <<client, pageVars>>

(* A request fails: the page writes to the console.                        *)
Fails(i) ==
  /\ flight' = RemoveAt(flight, i)
  /\ disordered' = TRUE
  /\ UNCHANGED <<client, vars, pageVars, request>>

(* processKeys has the next token, or is done with the string.             *)
Parses ==
  /\ Len(input) < Len(request)
  /\ Key \/ Number
  /\ input' = SubSeq(request, 1, Len(input) + 1)
  /\ UNCHANGED padVars

Ends ==
  /\ pc = "break" \/ input = request
  /\ Send
  /\ UNCHANGED padVars

Copies == unsafeWriteBuffer /\ UNCHANGED padVars

OtherClient ==
  /\ client = "other" /\ Next
  /\ commands' <= Len(OtherTokens)
  /\ \A k \in DOMAIN OtherTokens : commands' = k => Len(input') <= OtherTokens[k]
  /\ UNCHANGED padVars

PadNext ==
  \/ OtherClient
  \/ \E s \in Strings : Type(s)
  \/ sendKeys \/ clearDisplay \/ release \/ soloOn \/ soloOff
  \/ \E d \in {-1, 1} : soloChange(d)
  \/ \E i \in DOMAIN flight : Arrives(i) \/ Fails(i)
  \/ client = "page" /\ (Parses \/ Ends \/ Copies)

PadSpec == PadInit /\ [][PadNext]_<<vars, padVars>>

-----------------------------------------------------------------------------
(* Properties.                                                             *)

(* The page shows the levels the unit has: those of the channels it shows, *)
(* and 0 for the others.                                                   *)
Agrees ==
  \A c \in Slots \ {0} :
    dmxData[c] = (IF c \in DOMAIN channelData THEN channelData[c] ELSE 0)

(* "Display on website of captured channels and their levels" (README.md): *)
(* when all requests have come in order, none before the frame of the one  *)
(* before it was in the buffer, the page agrees with the unit.             *)
ShowsLevels == client = "page" /\ AtRest /\ ~disordered => Agrees

(* So it does as long as only strings were sent that the page can read.    *)
ShowsPlainLevels == ~intricate => ShowsLevels

(* A step of solo mode, in whichever order its two requests come: the      *)
(* channel is off or its neighbour has the level, and both unless the      *)
(* second to come began before the frame of the first was in the buffer.   *)
SoloMoves ==
  AtRest /\ soloed # NoStep /\ commands = requests =>
    LET off == soloed.from \in Slots \ {0} => dmxData[soloed.from] = 0
        on  == soloed.to \in Slots \ {0} => dmxData[soloed.to] = soloed.level
    IN  (off \/ on) /\ (overtaker # commands => off /\ on)
=============================================================================
