---------------------------- MODULE KeypadProofs ----------------------------
(***************************************************************************)
(* Theorems about Keypad: the page and the unit, for every universe, every *)
(* set of strings, and requests of any number in any order.                *)
(***************************************************************************)
EXTENDS Keypad, KeyCommandProofs, WellFoundedInduction

-----------------------------------------------------------------------------
(* Whoever sends the strings, the unit is KeyCommand.                      *)

LEMMA PageStep == Page => UNCHANGED vars
  BY DEF Page

LEMMA PadStep == [PadNext]_<<vars, padVars>> => [Next]_vars
<1> SUFFICES ASSUME PadNext
             PROVE  [Next]_vars
  BY DEF vars
<1>1. CASE OtherClient
  BY <1>1 DEF OtherClient
<1>2. CASE \/ \E s \in Strings : Type(s)
           \/ sendKeys \/ clearDisplay \/ release \/ soloOn \/ soloOff
           \/ \E d \in {-1, 1} : soloChange(d)
  BY <1>2, PageStep DEF Type, sendKeys, clearDisplay, release, soloOn, soloOff, soloChange
<1>3. CASE \E i \in DOMAIN flight : Arrives(i) \/ Fails(i)
  BY <1>3 DEF Arrives, Fails, Next
<1>4. CASE Parses \/ Ends \/ Copies
  BY <1>4 DEF Parses, Ends, Copies, Next
<1> QED  BY <1>1, <1>2, <1>3, <1>4 DEF PadNext

(* Requests overlap in KeyCommand too, so that what was proved there of    *)
(* any strings holds for those of the page.                                *)
LEMMA PadIsKeyCommand == PadSpec => Spec
<1>1. PadInit => Init
  BY DEF PadInit
<1> QED  BY <1>1, PadStep, PTL DEF PadSpec, Spec

-----------------------------------------------------------------------------
(* First elements.                                                         *)

LEMMA LeastMin ==
  ASSUME NEW S, S \subseteq Nat, S # {}
  PROVE  Min(S) \in S /\ \A y \in S : Min(S) <= y
<1>1. IsWellFoundedOn(OpToRel(<, Nat), Nat)
  BY NatLessThanWellFounded
<1>2. PICK x \in S : \A y \in S : ~ (<<y, x>> \in OpToRel(<, Nat))
  BY <1>1, WFMin
<1>3. \A y \in S : ~(y < x)
  BY <1>2 DEF OpToRel
<1>4. \A y \in S : x <= y
  BY <1>3
<1> QED  BY <1>2, <1>4 DEF Min

(* A string the page may send: it has an "AT", with something behind it.   *)
Typed(s) ==
  /\ s \in Seq(PageTokens)
  /\ \E i \in DOMAIN s : s[i] = AT
  /\ s[Len(s)] # AT

Sendable(s) == s \in Seq(PageTokens) /\ (s = <<>> \/ Typed(s))

LEMMA StringsTyped == \A s \in Strings : Typed(s)
<1> SUFFICES ASSUME NEW s \in Strings
             PROVE  Typed(s)
  OBVIOUS
<1>1. s \in Seq(PageTokens) /\ Contains(s, AT) /\ Last(s) # AT
  BY PadAssumption
<1> QED  BY <1>1 DEF Typed, Contains, Last

LEMMA FirstAtFacts ==
  ASSUME NEW s, Typed(s)
  PROVE  /\ FirstAt(s) \in 1 .. Len(s) - 1 /\ s[FirstAt(s)] = AT
         /\ \A i \in 1 .. FirstAt(s) - 1 : s[i] # AT
<1>1. s \in Seq(PageTokens) /\ Len(s) \in Nat /\ DOMAIN s = 1 .. Len(s)
      /\ s[Len(s)] # AT
  BY DEF Typed
<1> DEFINE T == {i \in 1 .. Len(s) : s[i] = AT}
<1>2. T \subseteq Nat /\ T # {}
  BY <1>1 DEF Typed
<1>3. FirstAt(s) = Min(T)
  BY <1>2 DEF FirstAt, SelectInSeq
<1>4. Min(T) \in T /\ \A i \in T : Min(T) <= i
  BY <1>2, LeastMin
<1> DEFINE a == FirstAt(s)
<1>5. a \in 1 .. Len(s) /\ s[a] = AT
  BY <1>3, <1>4
<1>6. a # Len(s)
  BY <1>1, <1>5
<1>7. ASSUME NEW i \in 1 .. a - 1
      PROVE  s[i] # AT
  <2>1. i \in 1 .. Len(s) /\ ~(a <= i)
    BY <1>1, <1>5
  <2> QED  BY <1>3, <1>4, <2>1
<1> QED  BY <1>1, <1>5, <1>6, <1>7

(* The first "AT" is the only position of that kind.                       *)
LEMMA FirstAtIs ==
  ASSUME NEW s, Typed(s), NEW a \in DOMAIN s, s[a] = AT,
         \A i \in 1 .. a - 1 : s[i] # AT
  PROVE  FirstAt(s) = a
<1>1. Len(s) \in Nat /\ DOMAIN s = 1 .. Len(s)
  BY DEF Typed
<1>2. /\ FirstAt(s) \in 1 .. Len(s) - 1 /\ s[FirstAt(s)] = AT
      /\ \A i \in 1 .. FirstAt(s) - 1 : s[i] # AT
  BY FirstAtFacts
<1>3. ~(FirstAt(s) < a)
  BY <1>1, <1>2
<1>4. ~(a < FirstAt(s))
  BY <1>1, <1>2
<1> QED  BY <1>1, <1>2, <1>3, <1>4

-----------------------------------------------------------------------------
(* What the page keeps.                                                    *)

LEMMA PageTokenFacts ==
  /\ AT \in PageTokens /\ AT.word = "AT"
  /\ \A t \in PageTokens : t.n \in 0 .. NumChannels
  /\ \A t \in PageTokens : [word |-> t.word, n |-> t.n] \in Tokens
  /\ \A t \in PageTokens : t.word = "number" => t.n \in Numbers
  /\ \A n \in Numbers : \A z \in BOOLEAN : Written(n, z) \in PageTokens /\ Written(n, z) # AT
<1>1. AT \in PageTokens /\ AT.word = "AT"
  BY DEF AT, PageTokens, Key_
<1>2. \A t \in PageTokens : \/ t.word \in {"release", "AND", "AT", "FULL", "THRU"} /\ t.n = 0
                            \/ t.word = "number" /\ t.n \in Numbers
  BY DEF PageTokens, Key_, Written
<1>3. \A t \in PageTokens : t.n \in 0 .. NumChannels
  <2>1. 0 \in 0 .. NumChannels /\ Numbers \subseteq 0 .. NumChannels
    BY KeyAssumption
  <2> QED  BY <1>2, <2>1
<1>4. ASSUME NEW t \in PageTokens
      PROVE  [word |-> t.word, n |-> t.n] \in Tokens
  BY <1>2 DEF Tokens, Word, Num
<1>5. \A t \in PageTokens : t.word = "number" => t.n \in Numbers
  BY <1>2
<1>6. ASSUME NEW n \in Numbers, NEW z \in BOOLEAN
      PROVE  Written(n, z) \in PageTokens /\ Written(n, z) # AT
  BY DEF PageTokens, Written, AT, Key_
<1> QED  BY <1>1, <1>3, <1>4, <1>5, <1>6

LEMMA WrittenFields ==
  ASSUME NEW n, NEW z, NEW t, t = Written(n, z)
  PROVE  t.word = "number" /\ t.n = n
  BY DEF Written

LEMMA LevelFacts ==
  ASSUME NEW s, Typed(s)
  PROVE  LevelToken(s) \in PageTokens /\ ShownLevel(s) \in Nat
<1>1. FirstAt(s) \in 1 .. Len(s) - 1 /\ s \in Seq(PageTokens)
  BY FirstAtFacts DEF Typed
<1>2. FirstAt(s) + 1 \in DOMAIN s
  BY <1>1
<1>3. LevelToken(s) \in PageTokens
  BY <1>1, <1>2 DEF LevelToken
<1>4. LevelSize - 1 \in Nat
  BY KeyAssumption
<1>5. LevelToken(s).n \in Nat
  BY <1>3, PageTokenFacts
<1> QED  BY <1>3, <1>4, <1>5 DEF ShownLevel

LEMMA ShownType ==
  ASSUME NEW s, Typed(s)
  PROVE  Shown(s) \subseteq 0 .. NumChannels
<1>1. \A i \in DOMAIN s : s[i].n \in 0 .. NumChannels
  BY PageTokenFacts DEF Typed
<1>2. NumChannels \in Nat
  BY KeyAssumption
<1>3. CASE FirstThru(s) = 0
  BY <1>1, <1>3 DEF Shown, IsNumber
<1>4. CASE FirstThru(s) # 0
  BY <1>1, <1>2, <1>4 DEF Shown, IsNumber
<1> QED  BY <1>3, <1>4

Display(data) == DOMAIN data \subseteq 0 .. NumChannels /\ Range(data) \subseteq Nat

(* An empty string leaves the display alone.                               *)
LEMMA parseEmpty ==
  ASSUME NEW data
  PROVE  parseBuffer(data, <<>>) = [c \in DOMAIN data |-> data[c]]
<1>1. ~Deletes(<<>>)
  BY DEF Deletes
<1>2. FirstThru(<<>>) = 0 /\ FirstAt(<<>>) = 0
  BY DEF FirstThru, FirstAt, SelectInSeq
<1>3. Shown(<<>>) = {}
  BY <1>2 DEF Shown
<1> QED  BY <1>1, <1>3 DEF parseBuffer

LEMMA parseBufferType ==
  ASSUME NEW s, Sendable(s), NEW data, Display(data)
  PROVE  Display(parseBuffer(data, s))
<1>1. \A c \in DOMAIN data : data[c] \in Nat
  BY DEF Display, Range
<1>2. CASE s = <<>>
  <2>1. parseBuffer(data, s) = [c \in DOMAIN data |-> data[c]]
    BY <1>2, parseEmpty
  <2> QED  BY <1>1, <2>1 DEF Display, Range
<1>3. CASE Typed(s) /\ Deletes(s)
  BY <1>1, <1>3 DEF parseBuffer, Display, Restrict, Range
<1>4. CASE Typed(s) /\ ~Deletes(s)
  BY <1>1, <1>4, ShownType, LevelFacts DEF parseBuffer, Display, Range
<1> QED  BY <1>2, <1>3, <1>4 DEF Sendable

LEMMA PaddedType ==
  ASSUME NEW s, Sendable(s)
  PROVE  Sendable(Padded(s))
<1> DEFINE p == Padded(s)
<1>1. s \in Seq(PageTokens) /\ Len(s) \in Nat /\ DOMAIN s = 1 .. Len(s)
  BY DEF Sendable
<1>2. p = [i \in 1 .. Len(s) |-> IF s[i].word = "number" THEN Written(s[i].n, TRUE) ELSE s[i]]
  BY <1>1 DEF Padded
<1>3. \A i \in 1 .. Len(s) : p[i] \in PageTokens /\ (p[i] = AT <=> s[i] = AT)
  <2>1. \A i \in 1 .. Len(s) : s[i] \in PageTokens
    BY <1>1
  <2> QED  BY <1>2, <2>1, PageTokenFacts DEF Written
<1> HIDE DEF p
<1>4. p \in [1 .. Len(s) -> PageTokens]
  BY <1>2, <1>3
<1>5. p \in Seq(PageTokens) /\ Len(p) = Len(s) /\ DOMAIN p = 1 .. Len(s)
  BY <1>1, <1>4
<1>6. CASE s = <<>>
  BY <1>5, <1>6 DEF Sendable, p
<1>7. CASE Typed(s)
  <2>1. Len(s) \in 1 .. Len(s)
    BY <1>1, <1>7 DEF Typed
  <2> QED  BY <1>1, <1>3, <1>5, <1>7, <2>1 DEF Sendable, Typed, p
<1> QED  BY <1>6, <1>7 DEF Sendable

(* The neighbour of an odd position is even, and the other way round.      *)
LEMMA OddBefore ==
  ASSUME NEW i \in Int, i % 2 = 1
  PROVE  (i - 1) % 2 # 1
  OBVIOUS

LEMMA EvenBefore ==
  ASSUME NEW i \in Int, i % 2 # 1
  PROVE  (i - 1) % 2 = 1
  OBVIOUS

LEMMA ContentType ==
  ASSUME NEW s \in Seq(PageTokens)
  PROVE  /\ Content(s) \in Seq(Tokens) /\ Len(Content(s)) = Len(s)
         /\ DOMAIN Content(s) = 1 .. Len(s)
         /\ \A i \in 1 .. Len(s) : Content(s)[i].word = s[i].word /\ Content(s)[i].n = s[i].n
<1> DEFINE p == Content(s)
<1>1. Len(s) \in Nat /\ DOMAIN s = 1 .. Len(s) /\ \A i \in 1 .. Len(s) : s[i] \in PageTokens
  OBVIOUS
<1>2. p = [i \in 1 .. Len(s) |-> [word |-> s[i].word, n |-> s[i].n]]
  BY <1>1 DEF Content
<1>3. \A i \in 1 .. Len(s) : p[i] \in Tokens /\ p[i].word = s[i].word /\ p[i].n = s[i].n
  BY <1>1, <1>2, PageTokenFacts
<1> HIDE DEF p
<1>4. p \in [1 .. Len(s) -> Tokens]
  BY <1>2, <1>3
<1>5. p \in Seq(Tokens) /\ Len(p) = Len(s)
  BY <1>1, <1>4
<1> QED  BY <1>3, <1>4, <1>5 DEF p

(* A number and a level, as solo mode sends them.                          *)
LEMMA StepTyped ==
  ASSUME NEW s \in Seq(PageTokens), Len(s) >= 3, s[1].word = "number", s[2] = AT,
         s[Len(s)] # AT
  PROVE  Typed(s) /\ FirstAt(s) = 2
<1>1. 1 \in DOMAIN s /\ 2 \in DOMAIN s /\ s[1] # AT
  BY PageTokenFacts
<1>2. Typed(s)
  BY <1>1 DEF Typed
<1>3. \A i \in 1 .. 2 - 1 : s[i] # AT
  BY <1>1
<1> QED  BY <1>1, <1>2, <1>3, FirstAtIs

LEMMA Triple ==
  ASSUME NEW x \in PageTokens, NEW y \in PageTokens, NEW z \in PageTokens
  PROVE  /\ <<x, y, z>> \in Seq(PageTokens) /\ Len(<<x, y, z>>) = 3
         /\ <<x, y, z>>[1] = x /\ <<x, y, z>>[2] = y /\ <<x, y, z>>[3] = z
  OBVIOUS

LEMMA Prefixed ==
  ASSUME NEW x \in PageTokens, NEW s \in Seq(PageTokens), Len(s) > 0
  PROVE  /\ <<x>> \o s \in Seq(PageTokens) /\ Len(<<x>> \o s) = Len(s) + 1
         /\ (<<x>> \o s)[1] = x /\ \A i \in 1 .. Len(s) : (<<x>> \o s)[i + 1] = s[i]
  OBVIOUS

LEMMA OffTyped ==
  ASSUME NEW n \in Numbers
  PROVE  /\ Typed(Off(n)) /\ FirstAt(Off(n)) = 2 /\ Len(Off(n)) = 3
         /\ Off(n)[1] = Written(n, TRUE) /\ Off(n)[2] = AT /\ Off(n)[3] = Written(0, FALSE)
<1>1. PICK x \in PageTokens, y \in PageTokens, z \in PageTokens :
        /\ x = Written(n, TRUE) /\ y = AT /\ z = Written(0, FALSE) /\ z # AT
        /\ x.word = "number"
  BY PageTokenFacts, PadAssumption DEF Written
<1>a. y = AT /\ z # AT /\ x.word = "number"
  BY <1>1
<1>2. PICK s \in Seq(PageTokens) : s = <<x, y, z>>
  BY Triple
<1>3. Len(s) = 3 /\ s[1] = x /\ s[2] = y /\ s[3] = z
  BY <1>2, Triple
<1>4. Typed(s) /\ FirstAt(s) = 2
  <2>1. Len(s) >= 3 /\ s[1].word = "number" /\ s[2] = AT
    BY <1>a, <1>3
  <2>2. s[Len(s)] # AT
    BY <1>a, <1>3
  <2> QED  BY ONLY s \in Seq(PageTokens), <2>1, <2>2, StepTyped
<1>5. Off(n) = s
  BY <1>1, <1>2 DEF Off
<1> QED  BY <1>1, <1>3, <1>4, <1>5

LEMMA TailFrom ==
  ASSUME NEW S, NEW s \in Seq(S), NEW k \in 1 .. Len(s) - 1, k + 1 < Len(s)
  PROVE  /\ SubSeq(s, k + 1, Len(s)) \in Seq(S)
         /\ Len(SubSeq(s, k + 1, Len(s))) = Len(s) - k
         /\ SubSeq(s, k + 1, Len(s))[1] = s[k + 1]
         /\ SubSeq(s, k + 1, Len(s))[Len(s) - k] = s[Len(s)]
<1>1. Len(s) \in Nat /\ k \in Nat /\ k + 1 \in 1 .. Len(s)
  OBVIOUS
<1>2. SubSeq(s, k + 1, Len(s)) \in Seq(S) /\ Len(SubSeq(s, k + 1, Len(s))) = Len(s) - k
  BY <1>1
<1>3. \A i \in 1 .. Len(s) - k : SubSeq(s, k + 1, Len(s))[i] = s[i + k]
  BY <1>1
<1>4. 1 \in 1 .. Len(s) - k /\ Len(s) - k \in 1 .. Len(s) - k
      /\ 1 + k = k + 1 /\ (Len(s) - k) + k = Len(s)
  BY <1>1
<1> QED  BY <1>2, <1>3, <1>4

(* The next channel of solo mode, with the rest of the string.             *)
NextOf(s, k, d) == <<Written(s[k].n + d, FALSE)>> \o SubSeq(s, k + 1, Len(s))

LEMMA NextTyped ==
  ASSUME NEW s, Sendable(s), NEW k \in BeforeAt(s), NEW d, s[k].n + d \in Numbers
  PROVE  /\ Typed(NextOf(s, k, d)) /\ FirstAt(NextOf(s, k, d)) = 2
         /\ NextOf(s, k, d)[1].n = s[k].n + d
<1> DEFINE m == s[k].n + d
<1>1. s \in Seq(PageTokens) /\ Len(s) \in Nat /\ DOMAIN s = 1 .. Len(s)
  BY DEF Sendable
<1>2. k \in 1 .. Len(s) - 1 /\ s[k + 1] = AT
  BY DEF BeforeAt
<1>3. s[Len(s)] # AT
  BY <1>1, <1>2 DEF Sendable, Typed
<1>4. k + 1 < Len(s)
  BY <1>1, <1>2, <1>3
<1> DEFINE tail == SubSeq(s, k + 1, Len(s))
<1>5. /\ tail \in Seq(PageTokens) /\ Len(tail) = Len(s) - k
      /\ tail[1] = s[k + 1] /\ tail[Len(s) - k] = s[Len(s)]
  <2>1. k \in 1 .. Len(s) - 1 /\ k + 1 < Len(s) /\ s \in Seq(PageTokens)
    BY <1>1, <1>2, <1>4
  <2> QED  BY ONLY <2>1, TailFrom
<1>6. Written(m, FALSE) \in PageTokens /\ Written(m, FALSE).word = "number"
  BY PageTokenFacts DEF Written
<1> HIDE DEF tail, m
<1>7. PICK x \in PageTokens, t \in Seq(PageTokens) : x = Written(m, FALSE) /\ t = tail
  BY <1>5, <1>6
<1>a. Len(t) = Len(s) - k
  BY <1>5, <1>7
<1>10. t[1] = AT /\ t[Len(t)] # AT /\ Len(t) > 1
  <2>1. Len(t) > 1
    BY <1>1, <1>2, <1>4, <1>a
  <2>2. t[1] = AT /\ t[Len(t)] = s[Len(s)]
    BY <1>2, <1>5, <1>7, <1>a
  <2> QED  BY <1>3, <2>1, <2>2
<1>b. x.word = "number"
  BY <1>6, <1>7, Zenon
<1>8. PICK next \in Seq(PageTokens) : next = <<x>> \o t
  <2>1. Len(t) > 0
    BY <1>10
  <2> QED  BY <2>1, Prefixed
<1>9. /\ Len(next) = 1 + Len(t) /\ next[1] = x
      /\ \A i \in 1 .. Len(t) : next[i + 1] = t[i]
  <2>1. Len(t) > 0
    BY <1>10
  <2> QED  BY <2>1, <1>8, Prefixed
<1>11. 1 \in 1 .. Len(t) /\ Len(t) \in 1 .. Len(t)
  BY <1>10
<1>12. Len(next) >= 3 /\ next[1].word = "number" /\ next[2] = AT /\ next[Len(next)] # AT
  <2>1. next[1 + 1] = t[1] /\ next[Len(t) + 1] = t[Len(t)]
    BY <1>9, <1>11
  <2>2. Len(next) >= 3 /\ Len(next) = Len(t) + 1
    BY <1>9, <1>10
  <2>3. 1 + 1 = 2
    OBVIOUS
  <2>4. next[1].word = "number"
    BY <1>b, <1>9
  <2>5. next[2] = AT
    BY <1>10, <2>1, <2>3
  <2>6. next[Len(next)] # AT
    BY <1>10, <2>1, <2>2
  <2> QED  BY <2>2, <2>4, <2>5, <2>6
<1>13. next = NextOf(s, k, d)
  BY <1>7, <1>8 DEF tail, m, NextOf
<1>14. x.n = m
  BY <1>7, WrittenFields, Zenon
<1> QED  BY <1>9, <1>12, <1>13, <1>14, StepTyped DEF m

-----------------------------------------------------------------------------
(* Requests on their way.                                                  *)

LEMMA FetchType ==
  ASSUME NEW list, DOMAIN list = 1 .. Len(list), Len(list) \in Nat,
         \A i \in DOMAIN list : list[i] \in Seq(PageTokens),
         flight \in Seq(Seq(Tokens)), requests \in 0 .. MaxRequests, Fetch(list)
  PROVE  flight' \in Seq(Seq(Tokens)) /\ requests' \in 0 .. MaxRequests
<1> DEFINE sent_ == [i \in DOMAIN list |-> Content(list[i])]
<1>1. sent_ \in [1 .. Len(list) -> Seq(Tokens)]
  BY ContentType
<1>2. sent_ \in Seq(Seq(Tokens))
  BY <1>1
<1> HIDE DEF sent_
<1>3. flight \o sent_ \in Seq(Seq(Tokens))
  BY <1>2
<1>4. requests' \in 0 .. MaxRequests
  BY PadAssumption, KeyAssumption DEF Fetch
<1> QED  BY <1>3, <1>4 DEF Fetch, sent_

LEMMA RemoveAtType ==
  ASSUME flight \in Seq(Seq(Tokens)), NEW i \in DOMAIN flight
  PROVE  RemoveAt(flight, i) \in Seq(Seq(Tokens)) /\ flight[i] \in Seq(Tokens)
<1>1. SubSeq(flight, 1, i - 1) \in Seq(Seq(Tokens))
  OBVIOUS
<1>2. SubSeq(flight, i + 1, Len(flight)) \in Seq(Seq(Tokens))
  OBVIOUS
<1> QED  BY <1>1, <1>2 DEF RemoveAt

-----------------------------------------------------------------------------
(* The types of the page.                                                  *)

Steps == [from: 0 .. NumChannels, to: 0 .. NumChannels, level: Nat]

PadInv == PageTypeOK /\ Sendable(keyBuffer) /\ Sendable(prevBuffer)

LEMMA EmptyTyped ==
  /\ <<>> \in Seq(PageTokens) /\ <<>> \in Seq(Tokens) /\ <<>> \in Seq(Seq(Tokens))
  /\ Sendable(<<>>) /\ Display(<<>>) /\ NoStep \in Steps
  /\ <<Key_("release")>> \in Seq(PageTokens)
<1>1. Sendable(<<>>)
  BY DEF Sendable
<1>2. Display(<<>>)
  BY DEF Display, Range
<1>3. NoStep \in Steps
  <2>1. 0 \in 0 .. NumChannels
    BY KeyAssumption
  <2> QED  BY <2>1 DEF NoStep, Steps
<1>4. <<Key_("release")>> \in Seq(PageTokens)
  <2>1. Key_("release") \in PageTokens
    BY DEF PageTokens
  <2> QED  BY <2>1
<1> QED  BY <1>1, <1>2, <1>3, <1>4

(* A string, or two, on their way.                                         *)
LEMMA FetchOne ==
  ASSUME PageTypeOK, NEW s \in Seq(PageTokens), Fetch(<<s>>)
  PROVE  /\ flight' \in Seq(Seq(Tokens)) /\ requests' \in 0 .. MaxRequests
<1>1. PICK list : list = <<s>>
  OBVIOUS
<1>2. /\ DOMAIN list = 1 .. Len(list) /\ Len(list) \in Nat
      /\ \A i \in DOMAIN list : list[i] \in Seq(PageTokens)
  BY <1>1
<1> QED  BY <1>1, <1>2, FetchType DEF PageTypeOK

LEMMA FetchTwo ==
  ASSUME PageTypeOK, NEW r \in Seq(PageTokens), NEW s \in Seq(PageTokens), Fetch(<<r, s>>)
  PROVE  /\ flight' \in Seq(Seq(Tokens)) /\ requests' \in 0 .. MaxRequests
<1>1. PICK list : list = <<r, s>>
  OBVIOUS
<1>2. /\ DOMAIN list = 1 .. Len(list) /\ Len(list) \in Nat
      /\ \A i \in DOMAIN list : list[i] \in Seq(PageTokens)
  BY <1>1
<1> QED  BY <1>1, <1>2, FetchType DEF PageTypeOK

LEMMA TypePage ==
  ASSUME PadInv, Page, TypeOK',
         \/ \E s \in Strings : Type(s)
         \/ sendKeys \/ clearDisplay \/ release \/ soloOn
  PROVE  PadInv'
<1> USE DEF PadInv, PageTypeOK
<1>1. UNCHANGED <<client, request, disordered>>
  BY DEF Page
<1>2. ASSUME NEW s \in Strings, Type(s)
      PROVE  PadInv'
  <2>1. Typed(s)
    BY StringsTyped
  <2>2. keyBuffer' \in Seq(PageTokens) /\ Sendable(keyBuffer')
    BY <1>2, <2>1 DEF Type, Typed, Sendable
  <2> QED  BY <1>1, <1>2, <2>2 DEF Type
<1>3. CASE sendKeys
  <2>1. keyBuffer' = <<>> /\ prevBuffer' = Padded(keyBuffer) /\ soloed' = NoStep
        /\ channelData' = parseBuffer(channelData, keyBuffer) /\ UNCHANGED soloMode
    BY <1>3 DEF sendKeys
  <2>2. keyBuffer' \in Seq(PageTokens) /\ Sendable(keyBuffer') /\ soloed' \in Steps
    BY <2>1, EmptyTyped
  <2>3. Sendable(prevBuffer') /\ prevBuffer' \in Seq(PageTokens)
    BY <2>1, PaddedType DEF Sendable
  <2>4. Display(channelData')
    BY <2>1, parseBufferType DEF Display
  <2>5. flight' \in Seq(Seq(Tokens)) /\ requests' \in 0 .. MaxRequests
    BY <1>3, FetchOne DEF sendKeys
  <2>6. intricate' \in BOOLEAN
    BY <1>3 DEF sendKeys
  <2> QED  BY <1>1, <2>1, <2>2, <2>3, <2>4, <2>5, <2>6 DEF Display, Steps
<1>4. CASE clearDisplay
  <2>1. keyBuffer' \in Seq(PageTokens) /\ Sendable(keyBuffer')
    BY <1>4, EmptyTyped DEF clearDisplay
  <2> QED  BY <1>1, <1>4, <2>1 DEF clearDisplay
<1>5. CASE release
  <2>1. keyBuffer' = <<>> /\ channelData' = <<>> /\ soloMode' = FALSE /\ soloed' = NoStep
        /\ UNCHANGED <<prevBuffer, intricate>>
    BY <1>5 DEF release
  <2>2. /\ keyBuffer' \in Seq(PageTokens) /\ Sendable(keyBuffer') /\ soloed' \in Steps
        /\ Display(channelData')
    BY <2>1, EmptyTyped
  <2>3. flight' \in Seq(Seq(Tokens)) /\ requests' \in 0 .. MaxRequests
    BY <1>5, FetchOne, EmptyTyped DEF release
  <2> QED  BY <1>1, <2>1, <2>2, <2>3 DEF Display, Steps
<1>6. CASE soloOn
  BY <1>1, <1>6 DEF soloOn
<1> QED  BY <1>2, <1>3, <1>4, <1>5, <1>6

LEMMA TypeSolo ==
  ASSUME PadInv, TypeOK', NEW d \in {-1, 1}, soloChange(d)
  PROVE  PadInv'
<1> USE DEF PadInv, PageTypeOK
<1>1. UNCHANGED <<client, request, disordered, soloMode>>
  BY DEF soloChange, Page
<1>2. PICK k \in BeforeAt(prevBuffer) :
        LET n    == prevBuffer[k].n
            next == NextOf(prevBuffer, k, d)
            data == parseBuffer(channelData, Off(n))
        IN  /\ n + d \in Numbers
            /\ Fetch(<<Off(n), next>>)
            /\ keyBuffer' = next /\ prevBuffer' = Padded(next)
            /\ channelData' = parseBuffer(data, next)
            /\ intricate' = (intricate \/ ~Plain(next) \/ ~Removes(data, next))
            /\ soloed' = IF AtRest /\ Plain(next)
                           THEN [from |-> n, to |-> n + d, level |-> ShownLevel(next)]
                           ELSE NoStep
  BY DEF soloChange, NextOf
<1> DEFINE n == prevBuffer[k].n
           next == NextOf(prevBuffer, k, d)
           data == parseBuffer(channelData, Off(n))
<1>3. n \in Numbers
  <2>1. k \in DOMAIN prevBuffer /\ prevBuffer[k].word = "number"
    BY DEF BeforeAt
  <2> QED  BY <2>1, PageTokenFacts
<1>4. Typed(Off(n)) /\ Off(n) \in Seq(PageTokens)
  BY <1>3, OffTyped DEF Typed
<1>5. Typed(next) /\ next \in Seq(PageTokens)
  <2>1. prevBuffer[k].n + d \in Numbers
    BY <1>2
  <2>2. Typed(NextOf(prevBuffer, k, d))
    BY ONLY <2>1, Sendable(prevBuffer), k \in BeforeAt(prevBuffer), NextTyped
  <2> QED  BY <2>2 DEF Typed
<1>6. Display(data)
  BY <1>4, parseBufferType DEF Display, Sendable
<1>7. ShownLevel(next) \in Nat
  BY <1>5, LevelFacts
<1> HIDE DEF n, next, data
<1>8. /\ n + d \in Numbers /\ Fetch(<<Off(n), next>>)
      /\ keyBuffer' = next /\ prevBuffer' = Padded(next)
      /\ channelData' = parseBuffer(data, next)
      /\ intricate' = (intricate \/ ~Plain(next) \/ ~Removes(data, next))
      /\ soloed' = IF AtRest /\ Plain(next)
                     THEN [from |-> n, to |-> n + d, level |-> ShownLevel(next)]
                     ELSE NoStep
  BY <1>2 DEF n, next, data
<1>9. keyBuffer' \in Seq(PageTokens) /\ Sendable(keyBuffer')
  BY <1>5, <1>8 DEF Sendable
<1>10. Sendable(prevBuffer') /\ prevBuffer' \in Seq(PageTokens)
  BY <1>5, <1>8, PaddedType DEF Sendable
<1>11. Display(channelData')
  BY <1>5, <1>6, <1>8, parseBufferType DEF Sendable
<1>12. flight' \in Seq(Seq(Tokens)) /\ requests' \in 0 .. MaxRequests
  BY <1>4, <1>5, <1>8, FetchTwo
<1>13. soloed' \in Steps
  <2>1. Numbers \subseteq 0 .. NumChannels
    BY KeyAssumption
  <2> QED  BY <1>3, <1>7, <1>8, <2>1, EmptyTyped DEF Steps
<1>14. intricate' \in BOOLEAN
  BY <1>8
<1> QED  BY <1>1, <1>9, <1>10, <1>11, <1>12, <1>13, <1>14 DEF Display, Steps

LEMMA PadTypeStep == PadInv /\ [PadNext]_<<vars, padVars>> => PadInv'
<1> SUFFICES ASSUME PadInv, [PadNext]_<<vars, padVars>>
             PROVE  PadInv'
  OBVIOUS
<1>1. TypeOK'
  BY PadStep, TypeStep DEF PadInv, PageTypeOK
<1>2. CASE \/ \E s \in Strings : Type(s)
           \/ sendKeys \/ clearDisplay \/ release \/ soloOn \/ soloOff
  BY <1>1, <1>2, TypePage DEF Type, sendKeys, clearDisplay, release, soloOn, soloOff
<1>3. CASE \E d \in {-1, 1} : soloChange(d)
  BY <1>1, <1>3, TypeSolo
<1>4. CASE OtherClient \/ Parses \/ Ends \/ Copies \/ UNCHANGED <<vars, padVars>>
  <2>1. UNCHANGED padVars
    BY <1>4 DEF OtherClient, Parses, Ends, Copies
  <2> QED  BY <1>1, <2>1 DEF PadInv, PageTypeOK, padVars, pageVars
<1>5. ASSUME NEW i \in DOMAIN flight, Arrives(i) \/ Fails(i)
      PROVE  PadInv'
  <2>1. flight' \in Seq(Seq(Tokens))
    BY <1>5, RemoveAtType DEF Arrives, Fails, PadInv, PageTypeOK
  <2>2. request' \in Seq(Tokens)
    BY <1>5, RemoveAtType DEF Arrives, Fails, PadInv, PageTypeOK
  <2>3. disordered' \in BOOLEAN
    BY <1>5 DEF Arrives, Fails, PadInv, PageTypeOK
  <2>4. UNCHANGED <<client, pageVars>>
    BY <1>5 DEF Arrives, Fails
  <2> QED  BY <1>1, <2>1, <2>2, <2>3, <2>4 DEF PadInv, PageTypeOK, pageVars
<1> QED  BY <1>2, <1>3, <1>4, <1>5 DEF PadNext

LEMMA PadTypeInit == PadInit => PadInv
<1> SUFFICES ASSUME PadInit
             PROVE  PadInv
  OBVIOUS
<1>1. TypeOK
  BY TypeInit DEF PadInit
<1>2. keyBuffer = <<>> /\ prevBuffer = <<>> /\ channelData = <<>> /\ flight = <<>>
      /\ request = <<>> /\ soloed = NoStep
  BY DEF PadInit
<1>3. /\ keyBuffer \in Seq(PageTokens) /\ prevBuffer \in Seq(PageTokens)
      /\ Sendable(keyBuffer) /\ Sendable(prevBuffer) /\ Display(channelData)
      /\ flight \in Seq(Seq(Tokens)) /\ request \in Seq(Tokens) /\ soloed \in Steps
  BY <1>2, EmptyTyped
<1>4. 0 \in 0 .. MaxRequests
  BY PadAssumption, KeyAssumption
<1> QED  BY <1>1, <1>3, <1>4 DEF PadInit, PadInv, PageTypeOK, Display, Steps

(* Whatever strings are typed and sent, the page shows channels of the     *)
(* universe only, and sends strings processKeys has tokens for.            *)
THEOREM PadTypesKept == PadSpec => []PageTypeOK
<1>1. PadInv => PageTypeOK
  BY DEF PadInv
<1> QED  BY <1>1, PadTypeInit, PadTypeStep, PTL DEF PadSpec

-----------------------------------------------------------------------------
(* What processKeys makes of a plain string.                               *)

LEMMA FirstThruFacts ==
  ASSUME NEW s \in Seq(PageTokens)
  PROVE  /\ (\A i \in DOMAIN s : s[i].word # "THRU") => FirstThru(s) = 0
         /\ (Len(s) > 1 /\ s[1].word # "THRU" /\ s[2].word = "THRU") => FirstThru(s) = 2
<1> DEFINE T == {i \in 1 .. Len(s) : s[i].word = "THRU"}
<1>1. FirstThru(s) = IF T # {} THEN Min(T) ELSE 0
  BY DEF FirstThru, SelectInSeq
<1>2. ASSUME \A i \in DOMAIN s : s[i].word # "THRU"
      PROVE  FirstThru(s) = 0
  BY <1>1, <1>2
<1>3. ASSUME Len(s) > 1, s[1].word # "THRU", s[2].word = "THRU"
      PROVE  FirstThru(s) = 2
  <2>1. 2 \in T /\ T \subseteq Nat /\ 1 \notin T
    BY <1>3
  <2>2. Min(T) \in T /\ \A y \in T : Min(T) <= y
    BY <2>1, LeastMin
  <2>3. Min(T) \in Nat /\ Min(T) <= 2 /\ Min(T) # 1 /\ Min(T) # 0
    BY <2>1, <2>2
  <2> QED  BY <1>1, <2>1, <2>3
<1> QED  BY <1>2, <1>3

(* A clause: channels, an "AT" at a, and a level.                          *)
Clause(a) ==
  /\ a \in Nat /\ a > 1 /\ DOMAIN input = 1 .. a + 1
  /\ input[a].word = "AT" /\ input[a + 1].word \in {"number", "FULL"}
  /\ \A i \in 1 .. a - 1 : input[i].word \in {"number", "AND", "THRU"}

LEMMA ClauseFacts ==
  ASSUME NEW a, Clause(a)
  PROVE  /\ IsLevel(a + 1) /\ \A i \in 1 .. a : ~IsLevel(i)
         /\ \A i \in 1 .. a - 1 : IsChannel(i) <=> input[i].word = "number"
         /\ ~IsChannel(a) /\ ~IsChannel(a + 1)
<1> USE DEF Clause
<1>1. IsLevel(a + 1)
  <2>1. Before(a + 1) = "AT"
    BY DEF Before
  <2> QED  BY <2>1 DEF IsLevel
<1>2. ASSUME NEW i \in 1 .. a
      PROVE  ~IsLevel(i)
  <2>1. Before(i) # "AT"
    BY DEF Before
  <2>2. i = a \/ i \in 1 .. a - 1
    OBVIOUS
  <2> QED  BY <2>1, <2>2 DEF IsLevel
<1>3. \A i \in 1 .. a - 1 : IsChannel(i) <=> input[i].word = "number"
  BY <1>2 DEF IsChannel
<1>4. ~IsChannel(a) /\ ~IsChannel(a + 1)
  BY <1>1 DEF IsChannel
<1> QED  BY <1>1, <1>2, <1>3, <1>4

(* The frame then, from what the clause names.                             *)
LEMMA ClauseObeyed ==
  ASSUME NEW a, Clause(a), Obeyed(dmxFrame), NEW c \in Slots \ {0}
  PROVE  dmxFrame[c] = IF \E j \in 1 .. a - 1 : Names(j, c) THEN LevelAt(a + 1) ELSE shadow[c]
<1>1. /\ IsLevel(a + 1) /\ \A i \in 1 .. a : ~IsLevel(i)
      /\ ~IsChannel(a) /\ ~IsChannel(a + 1)
  BY ClauseFacts
<1>2. DOMAIN input = 1 .. a + 1 /\ a \in Nat
  BY DEF Clause
<1>3. \A i \in DOMAIN input : Gives(i, c) => i = a + 1
  BY <1>1, <1>2 DEF Gives
<1>4. Gives(a + 1, c) => \E j \in 1 .. a - 1 : Names(j, c)
  <2>1. SUFFICES ASSUME Gives(a + 1, c)
                 PROVE  \E j \in 1 .. a - 1 : Names(j, c)
    OBVIOUS
  <2>2. PICK j \in 1 .. a + 1 : Names(j, c)
    BY <2>1 DEF Gives
  <2>3. j # a /\ j # a + 1
    BY <1>1, <2>2 DEF Names
  <2> QED  BY <1>2, <2>2, <2>3
<1>5. (\E j \in 1 .. a - 1 : Names(j, c)) => Gives(a + 1, c)
  <2>1. SUFFICES ASSUME NEW j \in 1 .. a - 1, Names(j, c)
                 PROVE  Gives(a + 1, c)
    OBVIOUS
  <2>2. j \in 1 .. a + 1 /\ \A k \in j .. (a + 1) - 1 : k \in 1 .. a
    BY <1>2
  <2> QED  BY <1>1, <2>1, <2>2 DEF Gives
<1>6. a + 1 \in DOMAIN input
  BY <1>2
<1> QED  BY <1>3, <1>4, <1>5, <1>6 DEF Obeyed, Ungiven, Given

LEMMA PlainClause ==
  ASSUME NEW s, Typed(s), Plain(s), input = Content(s)
  PROVE  /\ Clause(FirstAt(s)) /\ WellFormed
         /\ \A c \in Nat : (\E j \in 1 .. FirstAt(s) - 1 : Names(j, c)) <=> c \in Shown(s)
         /\ LevelAt(FirstAt(s) + 1) = ShownLevel(s)
<1> DEFINE a == FirstAt(s)
<1>1. /\ s \in Seq(PageTokens) /\ a \in 1 .. Len(s) - 1 /\ s[a] = AT
      /\ \A i \in 1 .. a - 1 : s[i] # AT
  BY FirstAtFacts DEF Typed
<1>2. /\ a > 1 /\ Len(s) = a + 1 /\ s[a + 1].word \in {"number", "FULL"}
      /\ ShownLevel(s) < LevelSize
  BY DEF Plain, LevelToken
<1>3. /\ DOMAIN input = 1 .. a + 1
      /\ \A i \in 1 .. a + 1 : input[i].word = s[i].word /\ input[i].n = s[i].n
  BY <1>1, <1>2, ContentType
<1>4. a \in Nat /\ DOMAIN s = 1 .. a + 1 /\ \A i \in 1 .. a + 1 : s[i].n \in 0 .. NumChannels
  BY <1>1, <1>2, PageTokenFacts
<1>5. LevelAt(a + 1) = ShownLevel(s)
  <2>1. a + 1 \in 1 .. a + 1
    BY <1>4
  <2>2. CASE s[a + 1].word = "FULL"
    BY <1>3, <2>1, <2>2 DEF LevelAt, ShownLevel, LevelToken
  <2>3. CASE s[a + 1].word # "FULL"
    <3>1. s[a + 1].n \in Nat /\ ShownLevel(s) = s[a + 1].n /\ s[a + 1].n < LevelSize
      BY <1>2, <1>4, <2>1, <2>3, KeyAssumption DEF ShownLevel, LevelToken
    <3>2. Truncated(s[a + 1].n) = s[a + 1].n
      BY <3>1, KeyAssumption DEF Truncated
    <3> QED  BY <1>3, <2>1, <2>3, <3>1, <3>2 DEF LevelAt
  <2> QED  BY <2>2, <2>3
<1>6. CASE a = 4 /\ IsNumber(s, 1) /\ s[2].word = "THRU" /\ IsNumber(s, 3) /\ s[1].n <= s[3].n
  <2> HIDE DEF a
  <2>1. /\ DOMAIN input = 1 .. 5
        /\ input[1].word = "number" /\ input[2].word = "THRU" /\ input[3].word = "number"
        /\ input[4].word = "AT" /\ input[5].word \in {"number", "FULL"}
        /\ input[1].n = s[1].n /\ input[3].n = s[3].n
    BY <1>1, <1>2, <1>3, <1>6, PageTokenFacts DEF IsNumber
  <2>2. Clause(4)
    <3>1. \A i \in 1 .. 4 - 1 : i = 1 \/ i = 2 \/ i = 3
      OBVIOUS
    <3> QED  BY <2>1, <3>1 DEF Clause
  <2>3. /\ IsLevel(5) /\ ~IsLevel(1) /\ ~IsLevel(2) /\ ~IsLevel(3) /\ ~IsLevel(4)
        /\ IsChannel(1) /\ ~IsChannel(2) /\ IsChannel(3) /\ ~IsChannel(4) /\ ~IsChannel(5)
    <3>1. 4 + 1 = 5 /\ 4 - 1 = 3
      OBVIOUS
    <3>2. /\ IsLevel(5) /\ \A i \in 1 .. 4 : ~IsLevel(i)
          /\ \A i \in 1 .. 3 : IsChannel(i) <=> input[i].word = "number"
          /\ ~IsChannel(4) /\ ~IsChannel(5)
      BY <2>2, <3>1, ClauseFacts
    <3> QED  BY <2>1, <3>2
  <2>4. WellFormed
    <3>1. Fits(1)
      BY <2>1, <2>3 DEF Fits, Before
    <3>2. Fits(2)
      BY <2>1, <2>3 DEF Fits, Before
    <3>3. Fits(3)
      BY <1>6, <2>1, <2>3 DEF Fits, Before
    <3>4. Fits(4)
      BY <2>1, <2>3 DEF Fits, Before
    <3>5. Fits(5)
      BY <2>1, <2>3 DEF Fits, Before
    <3>6. \A i \in DOMAIN input : i \in {1, 2, 3, 4, 5}
      BY <2>1
    <3> QED  BY <3>1, <3>2, <3>3, <3>4, <3>5, <3>6 DEF WellFormed
  <2>5. FirstThru(s) = 2
    <3>1. Len(s) > 1 /\ s[1].word # "THRU" /\ s[2].word = "THRU"
      BY <1>1, <1>2, <1>6 DEF IsNumber
    <3> QED  BY ONLY <1>1, <3>1, FirstThruFacts
  <2>6. Shown(s) = s[1].n .. s[3].n
    BY <1>6, <2>5 DEF Shown
  <2>7. ASSUME NEW c \in Nat
        PROVE  (\E j \in 1 .. 4 - 1 : Names(j, c)) <=> c \in Shown(s)
    <3>1. s[1].n \in Nat /\ s[3].n \in Nat
      BY <1>4, <1>6
    <3>2. Names(1, c) <=> s[1].n = c
      BY <2>1, <2>3 DEF Names
    <3>3. ~Names(2, c)
      BY <2>3 DEF Names
    <3>4. Names(3, c) <=> s[3].n = c \/ (s[1].n <= c /\ c <= s[3].n)
      BY <2>1, <2>3 DEF Names
    <3>5. \A j \in 1 .. 4 - 1 : j = 1 \/ j = 2 \/ j = 3
      OBVIOUS
    <3>6. c \in Shown(s) <=> s[1].n <= c /\ c <= s[3].n
      BY <2>6, <3>1
    <3>7. 1 \in 1 .. 4 - 1 /\ 3 \in 1 .. 4 - 1
      OBVIOUS
    <3> QED  BY <1>6, <3>1, <3>2, <3>3, <3>4, <3>5, <3>6, <3>7
  <2> QED  BY <1>5, <1>6, <2>2, <2>4, <2>7 DEF a
<1>7. CASE a % 2 = 0 /\ \A i \in 1 .. a - 1 : s[i].word = (IF i % 2 = 1 THEN "number" ELSE "AND")
  <2> HIDE DEF a
  <2>1. \A i \in 1 .. a - 1 : input[i].word = (IF i % 2 = 1 THEN "number" ELSE "AND")
    BY <1>3, <1>4, <1>7
  <2>2. Clause(a)
    <3>1. input[a].word = "AT" /\ input[a + 1].word \in {"number", "FULL"}
      BY <1>1, <1>2, <1>3, <1>4, PageTokenFacts
    <3>2. \A i \in 1 .. a - 1 : input[i].word \in {"number", "AND", "THRU"}
      BY <2>1
    <3> QED  BY <1>2, <1>3, <1>4, <3>1, <3>2 DEF Clause
  <2>3. /\ IsLevel(a + 1) /\ \A i \in 1 .. a - 1 : IsChannel(i) <=> input[i].word = "number"
    BY <2>2, ClauseFacts
  <2>4. ASSUME NEW i \in DOMAIN input
        PROVE  Fits(i)
    <3>1. i \in 1 .. a - 1 \/ i = a \/ i = a + 1
      BY <1>3, <1>4
    <3>2. CASE i \in 1 .. a - 1
      <4>1. CASE i % 2 = 1
        <5>1. IsChannel(i) /\ input[i].word = "number"
          BY <2>1, <2>3, <3>2, <4>1
        <5>2. i > 1 => input[i - 1].word = "AND"
          <6>1. i \in Int /\ (i > 1 => i - 1 \in 1 .. a - 1)
            BY <1>4, <3>2
          <6>2. (i - 1) % 2 # 1
            BY <4>1, <6>1, OddBefore
          <6> QED  BY <2>1, <6>1, <6>2
        <5>3. Before(i) \in {"nothing", "AND"}
          BY <5>2 DEF Before
        <5> QED  BY <5>1, <5>3 DEF Fits
      <4>2. CASE i % 2 # 1
        <5>1. i - 1 \in 1 .. a - 1 /\ (i - 1) % 2 = 1 /\ i > 1
          <6>1. i \in Int /\ i >= 1 /\ i <= a - 1
            BY <1>4, <3>2
          <6>2. (i - 1) % 2 = 1
            BY <4>2, <6>1, EvenBefore
          <6>3. i # 1
            BY <4>2
          <6> QED  BY <1>4, <6>1, <6>2, <6>3
        <5>2. input[i].word = "AND" /\ input[i - 1].word = "number" /\ IsChannel(i - 1)
          BY <2>1, <2>3, <3>2, <4>2, <5>1
        <5>3. Before(i) = "number"
          BY <5>1, <5>2 DEF Before
        <5> QED  BY <5>2, <5>3 DEF Fits
      <4> QED  BY <4>1, <4>2
    <3>3. CASE i = a
      <4>1. i - 1 \in 1 .. a - 1 /\ (i - 1) % 2 = 1 /\ i > 1
        <5>1. a \in Nat /\ a > 1 /\ a % 2 = 0
          BY <1>2, <1>4, <1>7, Zenon
        <5>2. PICK b \in Nat : b = a /\ b > 1 /\ b % 2 = 0
          BY <5>1, Zenon
        <5>3. b \in Int /\ b % 2 # 1
          BY <5>2
        <5>4. (b - 1) % 2 = 1
          BY <5>3, EvenBefore
        <5>5. b - 1 \in 1 .. b - 1
          BY <5>2
        <5> QED  BY <3>3, <5>2, <5>4, <5>5, Zenon
      <4>2. input[i].word = "AT" /\ input[i - 1].word = "number" /\ IsChannel(i - 1)
        BY <2>1, <2>2, <2>3, <3>3, <4>1 DEF Clause
      <4>3. Before(i) = "number"
        BY <4>1, <4>2 DEF Before
      <4> QED  BY <4>2, <4>3 DEF Fits
    <3>4. CASE i = a + 1
      <4>1. Before(i) = "AT" /\ IsLevel(i) /\ input[i].word \in {"number", "FULL"}
        BY <1>4, <2>2, <2>3, <3>4 DEF Before, Clause
      <4> QED  BY <4>1 DEF Fits
    <3> QED  BY <3>1, <3>2, <3>3, <3>4
  <2>5. \A i \in DOMAIN s : s[i].word # "THRU"
    <3>1. \A i \in DOMAIN s : i \in 1 .. a - 1 \/ i = a \/ i = a + 1
      BY <1>4
    <3>2. s[a].word = "AT"
      BY <1>1, PageTokenFacts
    <3> QED  BY <1>2, <1>7, <3>1, <3>2
  <2>6. Shown(s) = {s[i].n : i \in {j \in 1 .. a - 1 : IsNumber(s, j)}}
    BY <1>1, <2>5, FirstThruFacts DEF Shown, a
  <2>7. ASSUME NEW c \in Nat
        PROVE  (\E j \in 1 .. a - 1 : Names(j, c)) <=> c \in Shown(s)
    <3>1. \A j \in 1 .. a - 1 : IsNumber(s, j) <=> IsChannel(j)
      BY <1>3, <1>4, <2>3 DEF IsNumber
    <3>2. \A j \in 1 .. a - 1 : j > 2 => input[j - 1].word # "THRU"
      <4>1. \A j \in 1 .. a - 1 : j > 2 => j - 1 \in 1 .. a - 1
        BY <1>4
      <4> QED  BY <2>1, <4>1
    <3>3. \A j \in 1 .. a - 1 : Names(j, c) <=> IsChannel(j) /\ s[j].n = c
      BY <1>3, <1>4, <3>2 DEF Names
    <3> QED  BY <2>6, <3>1, <3>3
  <2> QED  BY <1>5, <2>2, <2>4, <2>7 DEF WellFormed, a
<1> QED  BY <1>6, <1>7 DEF Plain

-----------------------------------------------------------------------------
(* What a request does, when processKeys is through with it.               *)

(* The tokens read are those the request begins with, and the loop ends    *)
(* early only at a "release".                                              *)
WalkInv ==
  client = "page" =>
    /\ pc \in {"parse", "break"} =>
         Len(input) <= Len(request) /\ \A i \in DOMAIN input : input[i] = request[i]
    /\ pc = "break" => Released

LEMMA WalkStep == PadInv /\ WalkInv /\ [PadNext]_<<vars, padVars>> => WalkInv'
<1> SUFFICES ASSUME PadInv, WalkInv, [PadNext]_<<vars, padVars>>, client = "page"
             PROVE  WalkInv'
  BY DEF PadNext, WalkInv, OtherClient, Type, sendKeys, clearDisplay, release, soloOn, soloOff,
         soloChange, Page, Arrives, Fails, Parses, Ends, Copies, padVars
<1>1. CASE UNCHANGED <<pc, input, request>>
  BY <1>1 DEF WalkInv, Released
<1>2. ASSUME NEW i \in DOMAIN flight, Arrives(i)
      PROVE  WalkInv'
  <2>1. request' \in Seq(Tokens)
    BY <1>2, RemoveAtType DEF Arrives, PadInv, PageTypeOK
  <2>2. pc' = "parse" /\ input' = <<>>
    BY <1>2 DEF Arrives, Start
  <2> QED  BY <2>1, <2>2 DEF WalkInv
<1>3. CASE Parses
  <2>1. /\ request \in Seq(Tokens) /\ input \in Seq(Tokens) /\ Len(input) < Len(request)
        /\ input' = SubSeq(request, 1, Len(input) + 1) /\ request' = request /\ client' = client
    BY <1>3 DEF Parses, PadInv, PageTypeOK, TypeOK, padVars
  <2>2. Len(input') <= Len(request') /\ \A j \in DOMAIN input' : input'[j] = request'[j]
    BY <2>1
  <2>3. pc' = "break" => Released'
    <3>1. CASE Release
      <4>1. input' = Append(input, Word("release"))
        BY <3>1 DEF Release, Token
      <4>2. Len(input) + 1 \in DOMAIN input' /\ input'[Len(input) + 1] = Word("release")
        BY <2>1, <4>1
      <4>3. Word("release").word = "release"
        BY DEF Word
      <4> QED  BY <4>2, <4>3 DEF Released
    <3>2. CASE ~Release
      BY <1>3, <3>2 DEF Parses, Key, Number, And, At, Full, Thru, Level, RangeEnd, RangeEndEmpty,
                        Channel, Token
    <3> QED  BY <3>1, <3>2
  <2> QED  BY <2>2, <2>3 DEF WalkInv
<1>4. CASE Ends
  BY <1>4 DEF Ends, Send, WalkInv
<1>5. CASE \/ \E s \in Strings : Type(s)
           \/ sendKeys \/ clearDisplay \/ release \/ soloOn \/ soloOff
           \/ \E d \in {-1, 1} : soloChange(d)
           \/ \E i \in DOMAIN flight : Fails(i)
           \/ Copies \/ UNCHANGED <<vars, padVars>>
  <2>1. UNCHANGED <<pc, input, request>>
    BY <1>5 DEF Type, sendKeys, clearDisplay, release, soloOn, soloOff, soloChange, Page, Fails,
                Copies, unsafeWriteBuffer, vars, padVars
  <2> QED  BY <1>1, <2>1
<1> QED  BY <1>2, <1>3, <1>4, <1>5 DEF PadNext, OtherClient

LEMMA WalkInit == PadInit => WalkInv
  BY DEF PadInit, Init, WalkInv

(* What is known of the unit while the page sends.                         *)
Rules == PadInv /\ PathInv /\ WalkInv /\ MeaningInv /\ ReleaseInv

LEMMA PlainNoRelease ==
  ASSUME NEW s \in Seq(PageTokens), Typed(s), Plain(s)
  PROVE  \A i \in 1 .. Len(s) : s[i].word # "release"
<1> DEFINE a == FirstAt(s)
<1>1. /\ a \in 1 .. Len(s) - 1 /\ s[a] = AT /\ Len(s) = a + 1
      /\ s[a + 1].word \in {"number", "FULL"}
  BY FirstAtFacts DEF Plain, LevelToken
<1>2. s[a].word = "AT"
  BY <1>1, PageTokenFacts
<1>3. \A i \in 1 .. a - 1 : s[i].word # "release"
  <2>1. CASE a = 4 /\ IsNumber(s, 1) /\ s[2].word = "THRU" /\ IsNumber(s, 3)
    <3>1. \A i \in 1 .. a - 1 : i = 1 \/ i = 2 \/ i = 3
      BY <2>1
    <3> QED  BY <2>1, <3>1 DEF IsNumber
  <2>2. CASE \A i \in 1 .. a - 1 : s[i].word = (IF i % 2 = 1 THEN "number" ELSE "AND")
    BY <2>2
  <2> QED  BY <2>1, <2>2 DEF Plain
<1>4. \A i \in 1 .. Len(s) : i \in 1 .. a - 1 \/ i = a \/ i = a + 1
  BY <1>1
<1> QED  BY <1>1, <1>2, <1>3, <1>4

LEMMA EndsPlain ==
  ASSUME Rules, client = "page", Ends, NEW s \in Seq(PageTokens), Typed(s), Plain(s),
         request = Content(s), NEW c \in Slots \ {0}
  PROVE  sent'[c] = IF c \in Shown(s) THEN ShownLevel(s) ELSE shadow[c]
<1>1. pc \in {"parse", "break"} /\ sent' = dmxFrame /\ (pc = "break" \/ input = request)
  BY DEF Ends, Send
<1>2. ~Released
  <2>1. \A i \in 1 .. Len(s) : s[i].word # "release"
    BY PlainNoRelease
  <2>2. \A i \in DOMAIN input : i \in 1 .. Len(s) /\ input[i] = Content(s)[i]
    <3>1. Len(input) <= Len(s) /\ \A i \in DOMAIN input : input[i] = request[i]
      BY <1>1, ContentType DEF Rules, WalkInv
    <3>2. DOMAIN input = 1 .. Len(input) /\ Len(input) \in Nat
      BY DEF Rules, PadInv, PageTypeOK, TypeOK
    <3> QED  BY <3>1, <3>2
  <2> QED  BY <2>1, <2>2, ContentType DEF Released
<1>3. pc = "parse" /\ input = Content(s)
  BY <1>1, <1>2 DEF Rules, WalkInv
<1>4. /\ Clause(FirstAt(s)) /\ WellFormed
      /\ (\E j \in 1 .. FirstAt(s) - 1 : Names(j, c)) <=> c \in Shown(s)
      /\ LevelAt(FirstAt(s) + 1) = ShownLevel(s)
  <2>1. c \in Nat
    BY KeyAssumption DEF Slots
  <2> QED  BY <1>3, <2>1, PlainClause
<1>5. Obeyed(dmxFrame)
  BY <1>3, <1>4 DEF Rules, MeaningInv, Parsed
<1> QED  BY <1>1, <1>4, <1>5, ClauseObeyed

LEMMA EndsRelease ==
  ASSUME Rules, client = "page", Ends, request = <<Word("release")>>
  PROVE  sent' = Zero
<1>1. pc \in {"parse", "break"} /\ sent' = dmxFrame /\ (pc = "break" \/ input = request)
  BY DEF Ends, Send
<1>2. CASE pc = "break"
  BY <1>1, <1>2 DEF Rules, ReleaseInv
<1>3. CASE pc = "parse"
  <2>1. 1 \in DOMAIN input /\ input[1].word = "release"
    BY <1>1, <1>3 DEF Word
  <2>2. Released
    BY <2>1 DEF Released
  <2> QED  BY <1>3, <2>2 DEF Rules, ReleaseInv
<1> QED  BY <1>1, <1>2, <1>3

(* An empty string puts the frame it started from into the queue.          *)
LEMMA EndsEmpty ==
  ASSUME Rules, client = "page", Ends, request = <<>>, NEW c \in Slots \ {0}
  PROVE  sent'[c] = shadow[c]
<1>1. pc \in {"parse", "break"} /\ sent' = dmxFrame
  BY DEF Ends, Send
<1>2. Len(input) <= Len(request) /\ input \in Seq(Tokens)
  BY <1>1 DEF Rules, WalkInv, PadInv, PageTypeOK, TypeOK
<1>3. DOMAIN input = {}
  <2>1. Len(request) = 0
    OBVIOUS
  <2> QED  BY <1>2, <2>1
<1>4. pc = "parse" /\ WellFormed
  BY <1>1, <1>3 DEF Rules, WalkInv, Released, WellFormed
<1>5. Obeyed(dmxFrame)
  BY <1>4 DEF Rules, MeaningInv, Parsed
<1>6. ~Given(c, dmxFrame)
  BY <1>3 DEF Given
<1> QED  BY <1>1, <1>5, <1>6 DEF Obeyed, Ungiven

-----------------------------------------------------------------------------
(* Requests on their way, one after the other.                             *)

Same(d, e) == \A c \in Slots \ {0} : d[c] = e[c]

PlainDoes(r, d, e) ==
  \E s \in Seq(PageTokens) :
    /\ Typed(s) /\ Plain(s) /\ r = Content(s)
    /\ \A c \in Slots \ {0} : e[c] = IF c \in Shown(s) THEN ShownLevel(s) ELSE d[c]

ReleaseDoes(r, e) == r = <<Word("release")>> /\ \A c \in Slots \ {0} : e[c] = 0

EmptyDoes(r, d, e) == r = <<>> /\ Same(d, e)

(* Request r makes frame e of frame d.                                     *)
Does(r, d, e) == PlainDoes(r, d, e) \/ ReleaseDoes(r, e) \/ EmptyDoes(r, d, e)

(* Requests fl, in this order, make frame y of frame x.                    *)
ChainFrom(fl, x, y) ==
  \E D : /\ D[0] = x /\ D[Len(fl)] = y
         /\ \A k \in 1 .. Len(fl) : Does(fl[k], D[k - 1], D[k])

(* What the page shows, as a frame.                                        *)
Levels(data) == [c \in Slots |-> IF c \in DOMAIN data THEN data[c] ELSE 0]

LEMMA DoesSame ==
  ASSUME NEW r, NEW d, NEW e, NEW f, Does(r, d, e), Same(d, f)
  PROVE  Does(r, f, e)
  BY DEF Does, PlainDoes, EmptyDoes, Same

LEMMA EndsDoes ==
  ASSUME Rules, client = "page", Ends, NEW e, Does(request, shadow, e)
  PROVE  Same(e, sent')
<1>1. CASE PlainDoes(request, shadow, e)
  <2>1. PICK s \in Seq(PageTokens) :
          /\ Typed(s) /\ Plain(s) /\ request = Content(s)
          /\ \A c \in Slots \ {0} : e[c] = IF c \in Shown(s) THEN ShownLevel(s) ELSE shadow[c]
    BY <1>1 DEF PlainDoes
  <2>2. \A c \in Slots \ {0} : sent'[c] = IF c \in Shown(s) THEN ShownLevel(s) ELSE shadow[c]
    BY <2>1, EndsPlain
  <2> QED  BY <2>1, <2>2 DEF Same
<1>2. CASE ReleaseDoes(request, e)
  BY <1>2, EndsRelease DEF ReleaseDoes, Same, Zero
<1>3. CASE EmptyDoes(request, shadow, e)
  BY <1>3, EndsEmpty DEF EmptyDoes, Same
<1> QED  BY <1>1, <1>2, <1>3 DEF Does

LEMMA ChainEmpty ==
  ASSUME NEW x
  PROVE  ChainFrom(<<>>, x, x)
<1> DEFINE D == [k \in {0} |-> x]
<1>1. D[0] = x /\ D[Len(<<>>)] = x /\ \A k \in 1 .. Len(<<>>) : Does(<<>>[k], D[k - 1], D[k])
  OBVIOUS
<1> HIDE DEF D
<1> QED  BY <1>1 DEF ChainFrom

LEMMA ChainOfNone ==
  ASSUME NEW x, NEW y, ChainFrom(<<>>, x, y)
  PROVE  x = y
  BY DEF ChainFrom

LEMMA ChainAppend ==
  ASSUME NEW fl \in Seq(Seq(Tokens)), NEW x, NEW y, NEW z, NEW r \in Seq(Tokens),
         ChainFrom(fl, x, y), Does(r, y, z)
  PROVE  ChainFrom(Append(fl, r), x, z)
<1>1. PICK D : /\ D[0] = x /\ D[Len(fl)] = y
               /\ \A k \in 1 .. Len(fl) : Does(fl[k], D[k - 1], D[k])
  BY DEF ChainFrom
<1>2. PICK n \in Nat : n = Len(fl)
  OBVIOUS
<1>3. PICK gl \in Seq(Seq(Tokens)) : gl = Append(fl, r)
  <2>1. Append(fl, r) \in Seq(Seq(Tokens))
    OBVIOUS
  <2> QED  BY <2>1, Zenon
<1>4. /\ Len(gl) = n + 1 /\ gl[n + 1] = r
      /\ \A k \in 1 .. n : gl[k] = fl[k]
  BY <1>2, <1>3
<1>5. PICK E : E = [k \in 0 .. n + 1 |-> IF k = n + 1 THEN z ELSE D[k]]
  OBVIOUS
<1>6. E[0] = x /\ E[n + 1] = z /\ E[n] = y /\ \A k \in 0 .. n : E[k] = D[k]
  BY <1>1, <1>2, <1>5
<1>7. ASSUME NEW k \in 1 .. n + 1
      PROVE  Does(gl[k], E[k - 1], E[k])
  <2>1. CASE k = n + 1
    <3>1. k - 1 = n
      BY <2>1
    <3> QED  BY <1>4, <1>6, <2>1, <3>1
  <2>2. CASE k # n + 1
    <3>1. k \in 1 .. n /\ k \in 0 .. n /\ k - 1 \in 0 .. n
      BY <2>2
    <3>2. Does(fl[k], D[k - 1], D[k])
      BY <1>1, <1>2, <3>1
    <3> QED  BY <1>4, <1>6, <3>1, <3>2
  <2> QED  BY <2>1, <2>2
<1>8. /\ E[0] = x /\ E[Len(gl)] = z
      /\ \A k \in 1 .. Len(gl) : Does(gl[k], E[k - 1], E[k])
  BY <1>4, <1>6, <1>7
<1> QED  BY <1>3, <1>8 DEF ChainFrom

LEMMA ChainHead ==
  ASSUME NEW fl \in Seq(Seq(Tokens)), 1 \in DOMAIN fl, NEW x, NEW y, ChainFrom(fl, x, y)
  PROVE  \E w : Does(fl[1], x, w) /\ ChainFrom(RemoveAt(fl, 1), w, y)
<1>1. PICK D : /\ D[0] = x /\ D[Len(fl)] = y
               /\ \A k \in 1 .. Len(fl) : Does(fl[k], D[k - 1], D[k])
  BY DEF ChainFrom
<1>2. PICK n \in Nat : n + 1 = Len(fl)
  <2>1. Len(fl) - 1 \in Nat
    OBVIOUS
  <2> QED  BY <2>1
<1>3. PICK gl \in Seq(Seq(Tokens)) : gl = RemoveAt(fl, 1)
  <2>1. RemoveAt(fl, 1) \in Seq(Seq(Tokens))
    BY DEF RemoveAt
  <2> QED  BY <2>1, Zenon
<1>4. Len(gl) = n /\ \A k \in 1 .. n : gl[k] = fl[k + 1]
  <2>1. 1 - 1 = 0 /\ 1 + 1 = 2 /\ SubSeq(fl, 1, 0) = <<>>
    OBVIOUS
  <2>2. gl = <<>> \o SubSeq(fl, 2, n + 1)
    BY <1>2, <1>3, <2>1 DEF RemoveAt
  <2>3. /\ SubSeq(fl, 2, n + 1) \in Seq(Seq(Tokens)) /\ Len(SubSeq(fl, 2, n + 1)) = n
        /\ \A k \in 1 .. n : SubSeq(fl, 2, n + 1)[k] = fl[k + 1]
    BY <1>2
  <2> QED  BY <2>2, <2>3
<1>5. PICK E : E = [k \in 0 .. n |-> D[k + 1]]
  OBVIOUS
<1>6. ASSUME NEW k \in 1 .. n
      PROVE  Does(gl[k], E[k - 1], E[k])
  <2>1. k - 1 \in 0 .. n /\ k \in 0 .. n /\ (k - 1) + 1 = k /\ k + 1 \in 1 .. n + 1 /\ (k + 1) - 1 = k
    OBVIOUS
  <2>2. Does(fl[k + 1], D[(k + 1) - 1], D[k + 1])
    BY <1>1, <1>2, <2>1
  <2>3. E[k - 1] = D[k] /\ E[k] = D[k + 1]
    BY <1>5, <2>1
  <2> QED  BY <1>4, <2>1, <2>2, <2>3
<1>7. E[0] = D[1] /\ E[n] = y
  BY <1>1, <1>2, <1>5
<1>8. Does(fl[1], x, D[1])
  <2>1. 1 \in 1 .. Len(fl) /\ 1 - 1 = 0
    BY <1>2
  <2>2. Does(fl[1], D[1 - 1], D[1])
    BY <1>1, <2>1
  <2> QED  BY <1>1, <2>1, <2>2
<1>9. ChainFrom(gl, D[1], y)
  BY <1>4, <1>6, <1>7 DEF ChainFrom
<1> QED  BY <1>3, <1>8, <1>9

-----------------------------------------------------------------------------
(* What the page shows, and what the unit makes of it.                     *)

LEMMA ParseDoes ==
  ASSUME NEW s \in Seq(PageTokens), Typed(s), Plain(s), NEW data, Removes(data, s)
  PROVE  Does(Content(s), Levels(data), Levels(parseBuffer(data, s)))
<1> DEFINE after == parseBuffer(data, s)
<1>1. ASSUME NEW c \in Slots \ {0}
      PROVE  Levels(after)[c] = IF c \in Shown(s) THEN ShownLevel(s) ELSE Levels(data)[c]
  <2>1. CASE Deletes(s)
    <3>1. LevelToken(s).word = "number" /\ LevelToken(s).n = 0
      BY <2>1, WrittenFields, Zenon DEF Deletes
    <3>2. ShownLevel(s) = 0
      BY <3>1 DEF ShownLevel
    <3>3. after = [x \in DOMAIN data \cap (DOMAIN data \ Exact(s)) |-> data[x]]
      BY <2>1 DEF parseBuffer, Restrict
    <3>4. Exact(s) \subseteq Shown(s) /\ (c \in Shown(s) /\ c \in DOMAIN data => c \in Exact(s))
      <4>1. Exact(s) \subseteq Shown(s)
        BY DEF Exact
      <4> QED  BY <2>1, <4>1 DEF Removes
    <3> HIDE DEF after
    <3> QED  BY <3>2, <3>3, <3>4 DEF Levels
  <2>2. CASE ~Deletes(s)
    <3>1. after = [x \in DOMAIN data \cup Shown(s) |->
                     IF x \in Shown(s) THEN ShownLevel(s) ELSE data[x]]
      BY <2>2 DEF parseBuffer
    <3> HIDE DEF after
    <3> QED  BY <3>1 DEF Levels
  <2> QED  BY <2>1, <2>2
<1> HIDE DEF after
<1>2. PlainDoes(Content(s), Levels(data), Levels(after))
  BY <1>1 DEF PlainDoes
<1> QED  BY <1>2 DEF Does, after

LEMMA EmptyParse ==
  ASSUME NEW data
  PROVE  Does(Content(<<>>), Levels(data), Levels(parseBuffer(data, <<>>)))
<1>1. Content(<<>>) = <<>>
  BY DEF Content
<1>2. Levels(parseBuffer(data, <<>>)) = Levels(data)
  BY parseEmpty DEF Levels
<1> QED  BY <1>1, <1>2 DEF Does, EmptyDoes, Same

(* Switching a channel off is as plain as a string can be.                 *)
LEMMA OffPlain ==
  ASSUME NEW n \in Numbers
  PROVE  /\ Plain(Off(n)) /\ Shown(Off(n)) = {n} /\ ShownLevel(Off(n)) = 0
         /\ \A data : Removes(data, Off(n))
<1>1. /\ Typed(Off(n)) /\ FirstAt(Off(n)) = 2 /\ Len(Off(n)) = 3
      /\ Off(n)[1] = Written(n, TRUE) /\ Off(n)[2] = AT /\ Off(n)[3] = Written(0, FALSE)
  BY OffTyped
<1>2. PICK s \in Seq(PageTokens) : s = Off(n)
  BY <1>1, Zenon DEF Typed
<1>3. FirstAt(s) = 2 /\ Len(s) = 3 /\ Typed(s)
  BY <1>1, <1>2
<1>4. /\ s[1].word = "number" /\ s[1].n = n /\ s[2].word = "AT"
      /\ s[3].word = "number" /\ s[3].n = 0
  <2>0. s[1] = Written(n, TRUE) /\ s[3] = Written(0, FALSE)
    BY <1>1, <1>2, Zenon
  <2>1. s[1].word = "number" /\ s[1].n = n
    BY <2>0, WrittenFields, Zenon
  <2>2. s[3].word = "number" /\ s[3].n = 0
    BY <2>0, WrittenFields, Zenon
  <2>3. s[2].word = "AT"
    BY <1>1, <1>2, PageTokenFacts, Zenon
  <2> QED  BY <2>1, <2>2, <2>3
<1>5. DOMAIN s = {1, 2, 3}
  BY <1>3
<1>6. LevelToken(s) = s[3]
  <2>1. 2 + 1 = 3
    OBVIOUS
  <2> QED  BY <1>3, <2>1 DEF LevelToken
<1>7. ShownLevel(s) = 0
  BY <1>4, <1>6 DEF ShownLevel
<1>8. Plain(s)
  <2>1. 2 > 1 /\ 3 = 2 + 1 /\ 2 % 2 = 0 /\ 0 < LevelSize
    BY KeyAssumption
  <2>2. \A i \in 1 .. 2 - 1 : s[i].word = (IF i % 2 = 1 THEN "number" ELSE "AND")
    <3>1. \A i \in 1 .. 2 - 1 : i = 1 /\ i % 2 = 1
      OBVIOUS
    <3> QED  BY <1>4, <3>1
  <2> QED  BY <1>3, <1>4, <1>6, <1>7, <2>1, <2>2 DEF Plain
<1>9. FirstThru(s) = 0
  <2>1. \A i \in DOMAIN s : s[i].word # "THRU"
    BY <1>4, <1>5
  <2> QED  BY <2>1, FirstThruFacts
<1>10. Shown(s) = {n}
  <2>1. {j \in 1 .. 2 - 1 : IsNumber(s, j)} = {1}
    BY <1>4, <1>5 DEF IsNumber
  <2>2. Shown(s) = {s[i].n : i \in {1}}
    BY <1>3, <1>9, <2>1 DEF Shown
  <2> QED  BY <1>4, <2>2
<1>11. n \in Exact(s)
  <2>1. 1 \in 1 .. FirstAt(s) - 1
    BY <1>3
  <2>2. s[1] = Written(n, TRUE)
    BY <1>1, <1>2
  <2>3. n \in Shown(s)
    BY <1>10
  <2> QED  BY <1>9, <2>1, <2>2, <2>3, Zenon DEF Exact
<1>12. \A data : Removes(data, s)
  BY <1>10, <1>11, Zenon DEF Removes
<1> QED  BY <1>2, <1>7, <1>8, <1>10, <1>12

LEMMA ReleaseContent == Content(<<Key_("release")>>) = <<Word("release")>>
  BY DEF Content, Key_, Word

LEMMA FetchOneIs ==
  ASSUME PageTypeOK, NEW s \in Seq(PageTokens), Fetch(<<s>>)
  PROVE  flight' = Append(flight, Content(s)) /\ requests' = requests + 1
<1>1. [i \in DOMAIN <<s>> |-> Content(<<s>>[i])] = <<Content(s)>>
  OBVIOUS
<1>2. PICK c \in Seq(Tokens) : c = Content(s)
  BY ContentType, Zenon
<1>3. flight' = flight \o <<c>>
  BY <1>1, <1>2, Zenon DEF Fetch
<1>4. requests' = requests + Len(<<s>>) /\ Len(<<s>>) = 1
  BY DEF Fetch
<1>5. flight \in Seq(Seq(Tokens))
  BY DEF PageTypeOK
<1>6. flight \o <<c>> = Append(flight, c)
  BY <1>5
<1> QED  BY <1>2, <1>3, <1>4, <1>6

LEMMA FetchTwoIs ==
  ASSUME PageTypeOK, NEW r \in Seq(PageTokens), NEW s \in Seq(PageTokens), Fetch(<<r, s>>)
  PROVE  /\ flight' = Append(Append(flight, Content(r)), Content(s))
         /\ requests' = requests + 2
<1>1. [i \in DOMAIN <<r, s>> |-> Content(<<r, s>>[i])] = <<Content(r), Content(s)>>
  OBVIOUS
<1>2. PICK b \in Seq(Tokens), c \in Seq(Tokens) : b = Content(r) /\ c = Content(s)
  BY ContentType, Zenon
<1>3. flight' = flight \o <<b, c>>
  BY <1>1, <1>2, Zenon DEF Fetch
<1>4. requests' = requests + Len(<<r, s>>) /\ Len(<<r, s>>) = 2
  BY DEF Fetch
<1>5. flight \in Seq(Seq(Tokens))
  BY DEF PageTypeOK
<1>6. flight \o <<b, c>> = Append(Append(flight, b), c)
  BY <1>5
<1> QED  BY <1>2, <1>3, <1>4, <1>6

(* From the frame queued last, or the one the string under way will make,  *)
(* the requests on their way lead to what the page shows.                  *)
Leads(x) ==
  /\ pc = "idle" => Same(x, sent)
  /\ pc \in {"parse", "break"} => Does(request, shadow, x)

ChainInv ==
  client = "page" /\ ~disordered /\ ~intricate =>
    \E x : Leads(x) /\ ChainFrom(flight, x, Levels(channelData))

LEMMA LeadsStays ==
  ASSUME NEW x, Leads(x), UNCHANGED <<pc, sent, shadow, request>>
  PROVE  Leads(x)'
  BY DEF Leads, Same, Does, PlainDoes, ReleaseDoes, EmptyDoes

LEMMA UnitStays ==
  ASSUME UNCHANGED vars
  PROVE  UNCHANGED <<pc, sent, shadow, commands, queued, overtaker>>
  BY DEF vars, pathVars, histVars

(* A request that does to the frame what the page does to its display.     *)
LEMMA ChainGrows ==
  ASSUME PadInv, NEW r \in Seq(Tokens), NEW x, Leads(x), UNCHANGED <<vars, request>>,
         ChainFrom(flight, x, Levels(channelData)), flight' = Append(flight, r),
         NEW y, y = Levels(channelData'), Does(r, Levels(channelData), y)
  PROVE  ChainInv'
<1>1. flight \in Seq(Seq(Tokens))
  BY DEF PadInv, PageTypeOK
<1>2. ChainFrom(flight', x, y)
  BY <1>1, ChainAppend
<1>3. Leads(x)'
  BY LeadsStays, UnitStays
<1> QED  BY <1>2, <1>3 DEF ChainInv, Levels

LEMMA ChainSolo ==
  ASSUME PadInv, ChainInv, NEW d \in {-1, 1}, soloChange(d), client = "page", ~disordered,
         ~intricate'
  PROVE  ChainInv'
<1>1. UNCHANGED <<vars, request>>
  BY DEF soloChange, Page
<1>2. PICK k \in BeforeAt(prevBuffer) :
        LET n    == prevBuffer[k].n
            next == NextOf(prevBuffer, k, d)
            data == parseBuffer(channelData, Off(n))
        IN  /\ n + d \in Numbers
            /\ Fetch(<<Off(n), next>>)
            /\ channelData' = parseBuffer(data, next)
            /\ intricate' = (intricate \/ ~Plain(next) \/ ~Removes(data, next))
  BY DEF soloChange, NextOf
<1> DEFINE n == prevBuffer[k].n
           next == NextOf(prevBuffer, k, d)
           data == parseBuffer(channelData, Off(n))
<1>3. n \in Numbers
  <2>1. k \in DOMAIN prevBuffer /\ prevBuffer[k].word = "number"
    BY DEF BeforeAt, PadInv, PageTypeOK
  <2> QED  BY <2>1, PageTokenFacts DEF PadInv, PageTypeOK
<1>4. Typed(Off(n)) /\ Off(n) \in Seq(PageTokens)
  BY <1>3, OffTyped DEF Typed
<1>5. Typed(next) /\ next \in Seq(PageTokens)
  <2>1. prevBuffer[k].n + d \in Numbers /\ Sendable(prevBuffer)
    BY <1>2 DEF PadInv
  <2>2. Typed(NextOf(prevBuffer, k, d))
    BY ONLY <2>1, k \in BeforeAt(prevBuffer), NextTyped
  <2> QED  BY <2>2 DEF Typed
<1>6. Plain(Off(n)) /\ Removes(channelData, Off(n))
  BY <1>3, OffPlain
<1> HIDE DEF n, next, data
<1>7. /\ Fetch(<<Off(n), next>>) /\ channelData' = parseBuffer(data, next)
      /\ ~intricate /\ Plain(next) /\ Removes(data, next)
  BY <1>2 DEF n, next, data
<1>8. flight' = Append(Append(flight, Content(Off(n))), Content(next))
  BY <1>4, <1>5, <1>7, FetchTwoIs DEF PadInv
<1>9. Does(Content(Off(n)), Levels(channelData), Levels(data))
  BY <1>4, <1>6, ParseDoes DEF data
<1>10. Does(Content(next), Levels(data), Levels(channelData'))
  BY <1>5, <1>7, ParseDoes
<1>11. PICK x : Leads(x) /\ ChainFrom(flight, x, Levels(channelData))
  BY <1>7 DEF ChainInv
<1>12. PICK A \in Seq(Tokens), B \in Seq(Tokens) : A = Content(Off(n)) /\ B = Content(next)
  BY <1>4, <1>5, ContentType
<1>13. flight \in Seq(Seq(Tokens)) /\ Append(flight, A) \in Seq(Seq(Tokens))
  BY DEF PadInv, PageTypeOK
<1>14. ChainFrom(Append(flight, A), x, Levels(data))
  BY <1>9, <1>11, <1>12, <1>13, ChainAppend
<1>15. ChainFrom(Append(Append(flight, A), B), x, Levels(channelData'))
  BY <1>10, <1>12, <1>13, <1>14, ChainAppend
<1>16. ChainFrom(flight', x, Levels(channelData'))
  BY <1>8, <1>12, <1>15
<1>17. Leads(x)'
  BY <1>1, <1>11, LeadsStays, UnitStays
<1> QED  BY <1>16, <1>17 DEF ChainInv, Levels

LEMMA ChainStep ==
  Rules /\ Rules' /\ ChainInv /\ [PadNext]_<<vars, padVars>> => ChainInv'
<1> SUFFICES ASSUME Rules, Rules', ChainInv, [PadNext]_<<vars, padVars>>,
                    client' = "page", ~disordered', ~intricate'
             PROVE  ChainInv'
  BY DEF ChainInv
<1>0. client = "page" /\ ~disordered /\ ~intricate /\ PadInv
  <2>1. client' = client
    BY DEF PadNext, OtherClient, Type, sendKeys, clearDisplay, release, soloOn, soloOff,
           soloChange, Page, Arrives, Fails, Parses, Ends, Copies, padVars
  <2>2. \/ UNCHANGED <<disordered, intricate>>
        \/ disordered' = TRUE /\ UNCHANGED intricate
        \/ (\E P : disordered' = (disordered \/ P)) /\ UNCHANGED intricate
        \/ (\E P : intricate' = (intricate \/ P)) /\ UNCHANGED disordered
    <3>1. CASE sendKeys
      BY <3>1, Zenon DEF sendKeys, Page
    <3>2. CASE \E d \in {-1, 1} : soloChange(d)
      BY <3>2, Zenon DEF soloChange, Page
    <3>3. CASE \E i \in DOMAIN flight : Arrives(i) \/ Fails(i)
      BY <3>3, Zenon DEF Arrives, Fails, pageVars
    <3>4. CASE \/ \E s \in Strings : Type(s)
               \/ clearDisplay \/ release \/ soloOn \/ soloOff
      BY <3>4 DEF Type, clearDisplay, release, soloOn, soloOff, Page
    <3>5. CASE OtherClient \/ Parses \/ Ends \/ Copies \/ UNCHANGED <<vars, padVars>>
      BY <3>5 DEF OtherClient, Parses, Ends, Copies, padVars, pageVars
    <3> QED  BY <3>1, <3>2, <3>3, <3>4, <3>5 DEF PadNext
  <2>3. ~disordered /\ ~intricate
    <3>1. CASE disordered
      BY <2>2, <3>1, Zenon
    <3>2. CASE intricate
      BY <2>2, <3>2, Zenon
    <3> QED  BY <3>1, <3>2, Zenon
  <2> QED  BY <2>1, <2>3 DEF Rules
<1>1. PICK x : Leads(x) /\ ChainFrom(flight, x, Levels(channelData))
  BY <1>0 DEF ChainInv
<1>2. CASE \/ \E s \in Strings : Type(s)
           \/ clearDisplay \/ soloOn \/ Copies \/ UNCHANGED <<vars, padVars>>
  <2>1. UNCHANGED <<pc, sent, shadow, request, flight, channelData>>
    BY <1>2, UnitStays DEF Type, clearDisplay, soloOn, Page, Copies, unsafeWriteBuffer, histVars,
                           padVars, pageVars
  <2>2. Leads(x)'
    BY <1>1, <2>1, LeadsStays
  <2> QED  BY <1>1, <2>1, <2>2 DEF ChainInv, ChainFrom, Levels
<1>3. CASE sendKeys
  <2>1. /\ UNCHANGED <<vars, request>> /\ Fetch(<<keyBuffer>>) /\ Sendable(keyBuffer)
        /\ channelData' = parseBuffer(channelData, keyBuffer)
        /\ Alike(keyBuffer) /\ Removes(channelData, keyBuffer)
    BY <1>0, <1>3 DEF sendKeys, Page, PadInv
  <2>2. keyBuffer \in Seq(PageTokens) /\ PageTypeOK
    BY <1>0 DEF PadInv, PageTypeOK
  <2>3. flight' = Append(flight, Content(keyBuffer)) /\ Content(keyBuffer) \in Seq(Tokens)
    BY <2>1, <2>2, FetchOneIs, ContentType
  <2>4. Does(Content(keyBuffer), Levels(channelData), Levels(channelData'))
    <3>1. CASE keyBuffer = <<>>
      BY <2>1, <3>1, EmptyParse
    <3>2. CASE Typed(keyBuffer) /\ Plain(keyBuffer)
      BY <2>1, <2>2, <3>2, ParseDoes
    <3>3. CASE Typed(keyBuffer) /\ keyBuffer = <<>>
      BY <3>1, <3>3
    <3> QED  BY <2>1, <3>1, <3>2, <3>3 DEF Sendable, Alike
  <2>5. PICK y : y = Levels(channelData')
    OBVIOUS
  <2> QED  BY <1>0, <1>1, <2>1, <2>3, <2>4, <2>5, ChainGrows
<1>4. CASE release \/ soloOff
  <2>1. /\ UNCHANGED <<vars, request>> /\ Fetch(<< <<Key_("release")>> >>) /\ channelData' = <<>>
    BY <1>4 DEF release, soloOff, Page
  <2>2. flight' = Append(flight, <<Word("release")>>) /\ <<Word("release")>> \in Seq(Tokens)
    BY <1>0, <2>1, FetchOneIs, EmptyTyped, ReleaseContent, ContentType DEF PadInv
  <2>3. PICK y : y = Levels(channelData')
    OBVIOUS
  <2>4. Does(<<Word("release")>>, Levels(channelData), y)
    BY <2>1, <2>3 DEF Does, ReleaseDoes, Levels
  <2> QED  BY <1>0, <1>1, <2>1, <2>2, <2>3, <2>4, ChainGrows
<1>5. CASE \E d \in {-1, 1} : soloChange(d)
  BY <1>0, <1>5, ChainSolo
<1>6. ASSUME NEW i \in DOMAIN flight, Arrives(i) \/ Fails(i)
      PROVE  ChainInv'
  <2>1. /\ Start /\ i = 1 /\ queued = <<>>
        /\ request' = flight[1] /\ flight' = RemoveAt(flight, 1)
        /\ channelData' = channelData
    BY <1>6 DEF Arrives, Fails, pageVars
  <2>2. flight \in Seq(Seq(Tokens)) /\ 1 \in DOMAIN flight
    BY <1>0, <2>1 DEF PadInv, PageTypeOK
  <2>3. PICK w : Does(flight[1], x, w) /\ ChainFrom(RemoveAt(flight, 1), w, Levels(channelData))
    BY <1>1, <2>2, ChainHead
  <2>4. Same(x, shadow') /\ pc' = "parse"
    <3>1. Same(x, sent) /\ pc' = "parse" /\ shadow' = dmxFrame'
      BY <1>1, <2>1 DEF Leads, Start
    <3>2. \A c \in Slots \ {0} : dmxFrame'[c] = sent[c]
      BY <2>1, StartDrained DEF Rules
    <3> QED  BY <3>1, <3>2 DEF Same
  <2>5. Does(flight[1], shadow', w)
    BY <2>3, <2>4, DoesSame
  <2>6. Does(request', shadow', w)
    BY <2>1, <2>4, <2>5
  <2>7. Leads(w)'
    BY <2>4, <2>6 DEF Leads, Does, PlainDoes, ReleaseDoes, EmptyDoes, Same
  <2>8. ChainFrom(flight', w, Levels(channelData'))
    BY <2>1, <2>3
  <2> QED  BY <2>7, <2>8 DEF ChainInv, Levels
<1>7. CASE Parses \/ Ends
  <2>1. UNCHANGED <<request, flight, channelData>>
    BY <1>7 DEF Parses, Ends, padVars, pageVars
  <2>2. Leads(x)'
    <3>1. CASE Parses
      <4>1. pc = "parse" /\ shadow' = shadow /\ pc' # "idle"
        BY <3>1 DEF Parses, Key, Number, Release, And, At, Full, Thru, Level, RangeEnd,
                    RangeEndEmpty, Channel, Token, histVars
      <4> QED  BY <1>1, <2>1, <4>1 DEF Leads, Does, PlainDoes, ReleaseDoes, EmptyDoes, Same
    <3>2. CASE Ends
      <4>1. pc' = "idle" /\ pc \in {"parse", "break"}
        BY <3>2 DEF Ends, Send
      <4>2. Same(x, sent')
        BY <1>0, <1>1, <3>2, <4>1, EndsDoes DEF Leads
      <4> QED  BY <4>1, <4>2 DEF Leads, Same
    <3> QED  BY <1>7, <3>1, <3>2
  <2>3. ChainFrom(flight', x, Levels(channelData'))
    BY <1>1, <2>1
  <2> QED  BY <2>2, <2>3 DEF ChainInv, Levels
<1> QED  BY <1>0, <1>2, <1>3, <1>4, <1>5, <1>6, <1>7 DEF PadNext, OtherClient

LEMMA ChainInit == PadInit => ChainInv
<1> SUFFICES ASSUME PadInit
             PROVE  ChainInv
  OBVIOUS
<1>1. pc = "idle" /\ sent = Zero /\ flight = <<>> /\ channelData = <<>>
  BY DEF PadInit, Init
<1>2. Levels(channelData) = Zero
  BY <1>1 DEF Levels, Zero
<1>3. Leads(Zero)
  BY <1>1 DEF Leads, Same
<1>4. ChainFrom(flight, Zero, Levels(channelData))
  BY <1>1, <1>2, ChainEmpty
<1> QED  BY <1>3, <1>4 DEF ChainInv

LEMMA RulesInit == PadInit => Rules
<1>1. PadInit => MeaningInv /\ ReleaseInv
  BY DEF PadInit, Init, MeaningInv, ReleaseInv, Released
<1>2. PadInit => PathInv
  BY PathInit DEF PadInit
<1> QED  BY <1>1, <1>2, PadTypeInit, WalkInit DEF Rules

LEMMA RulesStep == Rules /\ [PadNext]_<<vars, padVars>> => Rules'
<1> SUFFICES ASSUME Rules, [PadNext]_<<vars, padVars>>
             PROVE  Rules'
  OBVIOUS
<1>1. TypeOK /\ [Next]_vars
  BY PadStep DEF Rules, PadInv, PageTypeOK
<1>2. MeaningInv' /\ ReleaseInv' /\ PathInv'
  BY <1>1, MeaningStep, ReleaseStep, PathStep DEF Rules
<1>3. PadInv' /\ WalkInv'
  BY PadTypeStep, WalkStep DEF Rules
<1> QED  BY <1>2, <1>3 DEF Rules

(* When all requests have come in their order, each with the frame of the  *)
(* one before it in the buffer, and all strings were ones the page can     *)
(* read, it shows the levels of the unit: whatever was typed, in solo mode *)
(* or not.                                                                 *)
THEOREM PlainLevelsShown == PadSpec => []ShowsPlainLevels
<1>1. Rules /\ ChainInv => ShowsPlainLevels
  <2>1. SUFFICES ASSUME Rules, ChainInv, ~intricate, client = "page", AtRest, ~disordered
                 PROVE  Agrees
    BY DEF ShowsPlainLevels, ShowsLevels
  <2>2. pc = "idle" /\ flight = <<>> /\ Same(dmxData, sent)
    BY <2>1 DEF AtRest, Rules, PathInv, Same
  <2>3. PICK x : Same(x, sent) /\ ChainFrom(<<>>, x, Levels(channelData))
    BY <2>1, <2>2 DEF ChainInv, Leads
  <2>4. x = Levels(channelData)
    BY <2>3, ChainOfNone
  <2> QED  BY <2>2, <2>3, <2>4 DEF Same, Levels, Agrees
<1> QED  BY <1>1, RulesInit, RulesStep, ChainInit, ChainStep, PTL DEF PadSpec

-----------------------------------------------------------------------------
(* A step of solo mode.                                                    *)

OffAt(f) == soloed.from \in Slots \ {0} => f[soloed.from] = 0
OnAt(f)  == soloed.to \in Slots \ {0} => f[soloed.to] = soloed.level

(* String s gives the neighbour its level.                                 *)
StepTo(s) ==
  /\ Typed(s) /\ Plain(s) /\ Shown(s) = {soloed.to} /\ ShownLevel(s) = soloed.level
  /\ soloed.from # soloed.to /\ soloed.from \in Numbers

(* The frame that the string under way started from, or the one queued     *)
(* last.                                                                   *)
Base == IF pc = "idle" THEN sent ELSE shadow

Waiting(r) == (pc # "idle" /\ request = r) \/ \E i \in DOMAIN flight : flight[i] = r

(* Each of the two requests is waiting, or has had its effect and the      *)
(* other one leaves it alone, unless the second one to come began before   *)
(* the frame of the first was in the buffer: then it has had its own.      *)
SoloRuns(off, on) ==
  /\ \A i \in DOMAIN flight : flight[i] = off \/ flight[i] = on
  /\ pc # "idle" => request = off \/ request = on
  /\ Len(flight) > 1 => Len(flight) = 2 /\ pc = "idle" /\ queued = <<>>
  /\ flight # <<>> \/ overtaker # commands =>
       (Waiting(off) \/ OffAt(Base)) /\ (Waiting(on) \/ OnAt(Base))
  /\ flight = <<>> /\ pc = "idle" => OffAt(sent) \/ OnAt(sent)

(* Requests that were lost are those that are neither counted nor on their *)
(* way.                                                                    *)
SoloInv ==
  /\ client # "page" => soloed = NoStep
  /\ client = "page" => commands + Len(flight) <= requests
  /\ client = "page" /\ soloed # NoStep /\ commands + Len(flight) = requests =>
       \E s \in Seq(PageTokens) :
         StepTo(s) /\ SoloRuns(Content(Off(soloed.from)), Content(s))

(* A sequence without its element i.                                       *)
Parts(a, b, fl, n, i) ==
  /\ Len(a) = i - 1 /\ \A j \in 1 .. i - 1 : a[j] = fl[j]
  /\ Len(b) = (n + 1) - i /\ \A j \in 1 .. (n + 1) - i : b[j] = fl[j + i]

LEMMA Parted ==
  ASSUME NEW S, NEW fl \in Seq(S), NEW n \in Nat, n + 1 = Len(fl), NEW i \in 1 .. n + 1
  PROVE  \E a, b \in Seq(S) :
           /\ a = SubSeq(fl, 1, i - 1) /\ b = SubSeq(fl, i + 1, n + 1)
           /\ Parts(a, b, fl, n, i)
<1>1. /\ SubSeq(fl, 1, i - 1) \in Seq(S) /\ Len(SubSeq(fl, 1, i - 1)) = i - 1
      /\ \A j \in 1 .. i - 1 : SubSeq(fl, 1, i - 1)[j] = fl[j]
  OBVIOUS
<1>2. /\ SubSeq(fl, i + 1, n + 1) \in Seq(S) /\ Len(SubSeq(fl, i + 1, n + 1)) = (n + 1) - i
      /\ \A j \in 1 .. (n + 1) - i : SubSeq(fl, i + 1, n + 1)[j] = fl[j + i]
  OBVIOUS
<1>3. Parts(SubSeq(fl, 1, i - 1), SubSeq(fl, i + 1, n + 1), fl, n, i)
  BY <1>1, <1>2, Zenon DEF Parts
<1> QED  BY <1>1, <1>2, <1>3, Zenon

LEMMA RemoveAtFacts ==
  ASSUME NEW fl \in Seq(Seq(Tokens)), NEW i \in DOMAIN fl
  PROVE  /\ Len(RemoveAt(fl, i)) = Len(fl) - 1
         /\ \A j \in DOMAIN RemoveAt(fl, i) : \E m \in DOMAIN fl : RemoveAt(fl, i)[j] = fl[m]
         /\ \A m \in DOMAIN fl \ {i} : \E j \in DOMAIN RemoveAt(fl, i) : RemoveAt(fl, i)[j] = fl[m]
<1>1. PICK n \in Nat : n + 1 = Len(fl)
  <2>1. Len(fl) - 1 \in Nat
    OBVIOUS
  <2> QED  BY <2>1
<1>2. i \in 1 .. n + 1 /\ DOMAIN fl = 1 .. n + 1
  BY <1>1
<1>3. RemoveAt(fl, i) \in Seq(Seq(Tokens))
  BY DEF RemoveAt
<1>4. PICK gl \in Seq(Seq(Tokens)) : gl = RemoveAt(fl, i)
  BY <1>3, Zenon
<1>5. PICK a \in Seq(Seq(Tokens)), b \in Seq(Seq(Tokens)) :
        /\ a = SubSeq(fl, 1, i - 1) /\ b = SubSeq(fl, i + 1, n + 1)
        /\ Parts(a, b, fl, n, i)
  BY <1>1, <1>2, Parted, Zenon
<1>7. gl = SubSeq(fl, 1, i - 1) \o SubSeq(fl, i + 1, n + 1)
  BY <1>1, <1>4 DEF RemoveAt
<1>8. /\ Len(gl) = n /\ DOMAIN gl = 1 .. n
      /\ \A j \in 1 .. n : gl[j] = fl[IF j < i THEN j ELSE j + 1]
  <2>2. Len(a) = i - 1 /\ \A j \in 1 .. i - 1 : a[j] = fl[j]
    BY <1>5, Zenon DEF Parts
  <2>3. Len(b) = (n + 1) - i /\ \A j \in 1 .. (n + 1) - i : b[j] = fl[j + i]
    BY <1>5, Zenon DEF Parts
  <2>4. gl = a \o b
    BY <1>5, <1>7, Zenon
  <2>5. Len(gl) = n /\ DOMAIN gl = 1 .. n
    <3>1. Len(gl) = Len(a) + Len(b)
      BY <2>4
    <3>2. (i - 1) + ((n + 1) - i) = n
      BY <1>2
    <3>3. Len(gl) = n
      BY <2>2, <2>3, <3>1, <3>2, Zenon
    <3>4. DOMAIN gl = 1 .. Len(gl)
      OBVIOUS
    <3> QED  BY <3>3, <3>4, Zenon
  <2>6. ASSUME NEW j \in 1 .. n
        PROVE  gl[j] = fl[IF j < i THEN j ELSE j + 1]
    <3>1. CASE j < i
      BY <1>2, <2>2, <2>3, <2>4, <3>1
    <3>2. CASE ~(j < i)
      <4>1. j - (i - 1) \in 1 .. (n + 1) - i /\ (j - (i - 1)) + i = j + 1
        BY <1>2, <3>2
      <4>2. j \in 1 .. Len(a) + Len(b) /\ ~(j <= Len(a))
        BY <1>2, <2>2, <2>3, <3>2
      <4>3. (a \o b)[j] = b[j - Len(a)]
        BY <4>2
      <4> QED  BY <2>2, <2>3, <2>4, <3>2, <4>1, <4>3
    <3> QED  BY <3>1, <3>2
  <2> QED  BY <2>5, <2>6
<1>9. \A j \in DOMAIN gl : \E m \in DOMAIN fl : gl[j] = fl[m]
  <2>1. \A j \in 1 .. n : (IF j < i THEN j ELSE j + 1) \in 1 .. n + 1
    BY <1>2
  <2> QED  BY <1>2, <1>8, <2>1
<1>10. ASSUME NEW m \in DOMAIN fl \ {i}
       PROVE  \E j \in DOMAIN gl : gl[j] = fl[m]
  <2>1. CASE m < i
    <3>1. m \in 1 .. n /\ gl[m] = fl[m]
      BY <1>2, <1>8, <2>1
    <3> QED  BY <1>8, <3>1
  <2>2. CASE ~(m < i)
    <3>m. m \in 1 .. n + 1 /\ i \in 1 .. n + 1 /\ m # i
      BY <1>2, Zenon
    <3>1. m - 1 \in 1 .. n /\ ~(m - 1 < i) /\ (m - 1) + 1 = m
      BY ONLY n \in Nat, <2>2, <3>m
    <3>2. gl[m - 1] = fl[m]
      BY <1>8, <3>1
    <3> QED  BY <1>8, <3>1, <3>2
  <2> QED  BY <2>1, <2>2
<1> QED  BY <1>1, <1>4, <1>8, <1>9, <1>10

LEMMA StepShown ==
  ASSUME NEW s \in Seq(PageTokens), Typed(s), Plain(s), FirstAt(s) = 2
  PROVE  Shown(s) = {s[1].n}
<1>1. /\ s[2] = AT /\ Len(s) = 3 /\ s[1].word = "number" /\ s[3].word \in {"number", "FULL"}
  <2>1. /\ 2 + 1 = 3 /\ 1 % 2 = 1 /\ 1 \in 1 .. 2 - 1 /\ 2 # 4
    OBVIOUS
  <2>2. s[2] = AT
    BY FirstAtFacts
  <2> QED  BY <2>1, <2>2 DEF Plain, LevelToken
<1>2. DOMAIN s = {1, 2, 3}
  BY <1>1
<1>3. FirstThru(s) = 0
  <2>1. s[2].word = "AT"
    BY <1>1, PageTokenFacts
  <2>2. \A i \in DOMAIN s : s[i].word # "THRU"
    BY <1>1, <1>2, <2>1
  <2> QED  BY <2>2, FirstThruFacts
<1>4. {j \in 1 .. 2 - 1 : IsNumber(s, j)} = {1}
  BY <1>1, <1>2 DEF IsNumber
<1>5. Shown(s) = {s[i].n : i \in {1}}
  BY <1>3, <1>4 DEF Shown
<1> QED  BY <1>5

(* Both requests of a step are on their way.                               *)
LEMMA SoloBegins ==
  ASSUME PadInv, SoloInv, NEW d \in {-1, 1}, soloChange(d)
  PROVE  SoloInv'
<1>1. UNCHANGED <<vars, request, client>> /\ client = "page" /\ PageTypeOK
  BY DEF soloChange, Page, PadInv
<1>2. PICK k \in BeforeAt(prevBuffer) :
        LET n    == prevBuffer[k].n
            next == NextOf(prevBuffer, k, d)
        IN  /\ n + d \in Numbers
            /\ Fetch(<<Off(n), next>>)
            /\ soloed' = IF AtRest /\ Plain(next)
                           THEN [from |-> n, to |-> n + d, level |-> ShownLevel(next)]
                           ELSE NoStep
  BY DEF soloChange, NextOf
<1> DEFINE n == prevBuffer[k].n
           next == NextOf(prevBuffer, k, d)
<1>3. n \in Numbers
  <2>1. k \in DOMAIN prevBuffer /\ prevBuffer[k].word = "number"
    BY DEF BeforeAt, PadInv, PageTypeOK
  <2> QED  BY <2>1, PageTokenFacts DEF PadInv, PageTypeOK
<1>4. Typed(Off(n)) /\ Off(n) \in Seq(PageTokens)
  BY <1>3, OffTyped DEF Typed
<1>5. /\ Typed(next) /\ next \in Seq(PageTokens) /\ FirstAt(next) = 2
      /\ next[1].n = n + d
  <2>1. prevBuffer[k].n + d \in Numbers /\ Sendable(prevBuffer)
    BY <1>2 DEF PadInv
  <2>2. /\ Typed(NextOf(prevBuffer, k, d)) /\ FirstAt(NextOf(prevBuffer, k, d)) = 2
        /\ NextOf(prevBuffer, k, d)[1].n = prevBuffer[k].n + d
    BY ONLY <2>1, k \in BeforeAt(prevBuffer), NextTyped
  <2> QED  BY <2>2 DEF Typed
<1> HIDE DEF n, next
<1>6. /\ n + d \in Numbers /\ Fetch(<<Off(n), next>>)
      /\ soloed' = IF AtRest /\ Plain(next)
                     THEN [from |-> n, to |-> n + d, level |-> ShownLevel(next)]
                     ELSE NoStep
  BY <1>2 DEF n, next
<1>7. PICK A \in Seq(Tokens), B \in Seq(Tokens) : A = Content(Off(n)) /\ B = Content(next)
  BY <1>4, <1>5, ContentType
<1>8. flight' = Append(Append(flight, A), B) /\ requests' = requests + 2
  BY <1>1, <1>4, <1>5, <1>6, <1>7, FetchTwoIs
<1>9. Len(flight') = Len(flight) + 2 /\ Len(flight) \in Nat
  BY <1>1, <1>8 DEF PageTypeOK
<1>10. commands' + Len(flight') <= requests'
  <2>1. commands \in Nat /\ requests \in Nat /\ commands + Len(flight) <= requests
    BY <1>1 DEF SoloInv, PageTypeOK, TypeOK
  <2> QED  BY <1>1, <1>8, <1>9, <2>1 DEF vars, histVars
<1>11. ASSUME soloed' # NoStep
       PROVE  \E s \in Seq(PageTokens) :
                (StepTo(s) /\ SoloRuns(Content(Off(soloed.from)), Content(s)))'
  <2>1. /\ pc = "idle" /\ flight = <<>> /\ queued = <<>> /\ Plain(next)
        /\ soloed' = [from |-> n, to |-> n + d, level |-> ShownLevel(next)]
    BY <1>6, <1>11 DEF AtRest
  <2>2. soloed'.from = n /\ soloed'.to = n + d /\ soloed'.level = ShownLevel(next)
    BY <2>1
  <2>3. Shown(next) = {n + d}
    BY <1>5, <2>1, StepShown
  <2>4. n # n + d
    <3>1. n \in Nat
      BY <1>3, FrameFacts
    <3> QED  BY <3>1
  <2>5. PICK s \in Seq(PageTokens) : s = next
    BY <1>5, Zenon
  <2>6. StepTo(s)'
    BY <1>3, <1>5, <2>1, <2>2, <2>3, <2>4, <2>5 DEF StepTo
  <2>7. /\ DOMAIN flight' = {1, 2} /\ flight'[1] = A /\ flight'[2] = B
        /\ Len(flight') = 2 /\ flight' # <<>> /\ pc' = "idle" /\ queued' = <<>>
    BY <1>1, <1>8, <2>1, UnitStays
  <2>8. SoloRuns(A, B)'
    BY <2>7 DEF SoloRuns, Waiting
  <2>9. Content(Off(soloed'.from)) = A
    BY <1>7, <2>2
  <2>10. SoloRuns(Content(Off(soloed.from)), Content(s))'
    BY <1>7, <2>5, <2>8, <2>9
  <2> QED  BY <2>6, <2>10
<1> QED  BY <1>1, <1>10, <1>11 DEF SoloInv

(* The end of one of the two leaves the channel of the other alone.        *)
LEMMA SoloEnds ==
  ASSUME Rules, client = "page", Ends, NEW s \in Seq(PageTokens), StepTo(s),
         NEW off, off = Content(Off(soloed.from)), NEW on, on = Content(s), SoloRuns(off, on)
  PROVE  SoloRuns(off, on)'
<1>1. /\ pc \in {"parse", "break"} /\ pc' = "idle"
      /\ UNCHANGED <<flight, soloed, overtaker, commands>>
      /\ request = off \/ request = on
  BY DEF Ends, Send, padVars, pageVars, histVars, SoloRuns
<1>2. /\ Typed(Off(soloed.from)) /\ Plain(Off(soloed.from))
      /\ Shown(Off(soloed.from)) = {soloed.from} /\ ShownLevel(Off(soloed.from)) = 0
  BY OffTyped, OffPlain DEF StepTo
<1>3. Off(soloed.from) \in Seq(PageTokens)
  BY <1>2 DEF Typed
<1>4. request = off => OffAt(sent') /\ (OnAt(Base) => OnAt(sent'))
  <2>1. SUFFICES ASSUME request = off
                 PROVE  OffAt(sent') /\ (OnAt(Base) => OnAt(sent'))
    OBVIOUS
  <2>2. \A c \in Slots \ {0} : sent'[c] = IF c = soloed.from THEN 0 ELSE shadow[c]
    BY <1>2, <1>3, <2>1, EndsPlain
  <2> QED  BY <1>1, <2>2 DEF OffAt, OnAt, Base, StepTo
<1>5. request = on => OnAt(sent') /\ (OffAt(Base) => OffAt(sent'))
  <2>1. SUFFICES ASSUME request = on
                 PROVE  OnAt(sent') /\ (OffAt(Base) => OffAt(sent'))
    OBVIOUS
  <2>2. \A c \in Slots \ {0} : sent'[c] = IF c = soloed.to THEN soloed.level ELSE shadow[c]
    BY <2>1, EndsPlain DEF StepTo
  <2> QED  BY <1>1, <2>2 DEF OffAt, OnAt, Base, StepTo
<1>6. /\ OffAt(Base)' <=> OffAt(sent')
      /\ OnAt(Base)' <=> OnAt(sent')
      /\ OffAt(sent)' <=> OffAt(sent')
      /\ OnAt(sent)' <=> OnAt(sent')
  BY <1>1 DEF OffAt, OnAt, Base
<1>7. ASSUME NEW r, Waiting(r)
      PROVE  Waiting(r)' \/ request = r
  BY <1>1, <1>7 DEF Waiting
<1>8. (Waiting(off) \/ OffAt(Base)) => (Waiting(off)' \/ OffAt(Base)')
  BY <1>1, <1>4, <1>5, <1>6, <1>7
<1>9. (Waiting(on) \/ OnAt(Base)) => (Waiting(on)' \/ OnAt(Base)')
  BY <1>1, <1>4, <1>5, <1>6, <1>7
<1>10. ~(Len(flight') > 1)
  BY <1>1 DEF SoloRuns
<1>11. OffAt(sent)' \/ OnAt(sent)'
  BY <1>1, <1>4, <1>5, <1>6
<1> QED  BY <1>1, <1>8, <1>9, <1>10, <1>11 DEF SoloRuns

(* One of the two arrives.                                                 *)
LEMMA SoloArrives ==
  ASSUME Rules, NEW i \in DOMAIN flight, Arrives(i), NEW off, NEW on, SoloRuns(off, on)
  PROVE  SoloRuns(off, on)'
<1>1. /\ pc = "idle" /\ pc' = "parse" /\ shadow' = dmxFrame' /\ soloed' = soloed
      /\ request' = flight[i] /\ flight' = RemoveAt(flight, i) /\ queued' = queued
      /\ commands' = commands + 1
      /\ overtaker' = IF queued = <<>> THEN overtaker ELSE commands + 1
  BY DEF Arrives, Start, pageVars, pathVars
<1>2. flight \in Seq(Seq(Tokens))
  BY DEF Rules, PadInv, PageTypeOK
<1>3. /\ \A j \in DOMAIN flight' : \E m \in DOMAIN flight : flight'[j] = flight[m]
      /\ \A m \in DOMAIN flight \ {i} : \E j \in DOMAIN flight' : flight'[j] = flight[m]
      /\ Len(flight') = Len(flight) - 1
  BY <1>1, <1>2, RemoveAtFacts
<1>4. ASSUME NEW r, Waiting(r)
      PROVE  Waiting(r)'
  <2>1. PICK m \in DOMAIN flight : flight[m] = r
    BY <1>1, <1>4 DEF Waiting
  <2> QED  BY <1>1, <1>3, <2>1 DEF Waiting
<1>5. request' = off \/ request' = on
  BY <1>1 DEF SoloRuns
<1>6. \A j \in DOMAIN flight' : flight'[j] = off \/ flight'[j] = on
  BY <1>3 DEF SoloRuns
<1>7. Len(flight) \in 1 .. 2 /\ ~(Len(flight') > 1)
  <2>1. PICK n \in Nat : n = Len(flight) /\ n > 0
    BY <1>2
  <2>2. (n > 1 => n = 2) /\ Len(flight') = n - 1
    BY <1>3, <2>1 DEF SoloRuns
  <2> QED  BY <2>1, <2>2
<1>8. CASE queued = <<>>
  <2>1. \A c \in Slots \ {0} : shadow'[c] = sent[c]
    BY <1>1, <1>8, StartDrained DEF Rules, Arrives
  <2>2. (OffAt(Base) => OffAt(Base)') /\ (OnAt(Base) => OnAt(Base)')
    BY <1>1, <2>1 DEF OffAt, OnAt, Base
  <2>3. (Waiting(off) \/ OffAt(Base)) /\ (Waiting(on) \/ OnAt(Base))
    BY <1>7 DEF SoloRuns
  <2>4. (Waiting(off)' \/ OffAt(Base)') /\ (Waiting(on)' \/ OnAt(Base)')
    BY <1>4, <2>2, <2>3
  <2> QED  BY <1>1, <1>5, <1>6, <1>7, <2>4 DEF SoloRuns
<1>9. CASE queued # <<>>
  <2>1. flight' = <<>>
    <3>1. Len(flight) = 1
      BY <1>7, <1>9 DEF SoloRuns
    <3>2. PICK gl \in Seq(Seq(Tokens)) : gl = flight'
      BY <1>1, <1>2, RemoveAtType
    <3>3. Len(gl) = 0
      BY <1>3, <3>1, <3>2
    <3> QED  BY <3>2, <3>3
  <2>2. overtaker' = commands'
    BY <1>1, <1>9
  <2> QED  BY <1>1, <1>5, <1>6, <1>7, <2>1, <2>2 DEF SoloRuns
<1> QED  BY <1>8, <1>9

(* A step that changes nothing of what a step of solo mode is about.       *)
LEMMA SoloKept ==
  ASSUME SoloInv, UNCHANGED <<client, flight, request, requests, soloed, commands, shadow>>,
         (pc = "idle" /\ pc' = "idle" /\ sent' = sent) \/ (pc # "idle" /\ pc' # "idle"),
         queued' = queued \/ queued # <<>>,
         overtaker' = overtaker
  PROVE  SoloInv'
<1>1. Base' = Base
  BY DEF Base
<1>2. /\ (OffAt(Base) <=> OffAt(Base)') /\ (OnAt(Base) <=> OnAt(Base)')
      /\ pc' = "idle" => (OffAt(sent) <=> OffAt(sent)') /\ (OnAt(sent) <=> OnAt(sent)')
  BY <1>1 DEF OffAt, OnAt
<1>3. ASSUME NEW r
      PROVE  Waiting(r) <=> Waiting(r)'
  BY DEF Waiting
<1>4. ASSUME NEW off, NEW on, SoloRuns(off, on)
      PROVE  SoloRuns(off, on)'
  BY <1>2, <1>3, <1>4 DEF SoloRuns
<1>5. ASSUME NEW s \in Seq(PageTokens), StepTo(s),
             NEW off, off = Content(Off(soloed.from)), NEW on, on = Content(s), SoloRuns(off, on)
      PROVE  (StepTo(s) /\ SoloRuns(Content(Off(soloed.from)), Content(s)))'
  <2>1. SoloRuns(off, on)' /\ StepTo(s)'
    BY <1>4, <1>5 DEF StepTo
  <2> QED  BY <1>5, <2>1
<1> QED  BY <1>5 DEF SoloInv

(* Neither of the two has a "release" in it.                               *)
LEMMA SoloParses ==
  ASSUME Rules, SoloInv, client = "page", Parses
  PROVE  SoloInv'
<1>1. pc # "idle" /\ pc' # "idle"
      /\ UNCHANGED <<commands, shadow, queued, client, flight, request, requests, soloed>>
  BY DEF Parses, Key, Number, Release, And, At, Full, Thru, Level, RangeEnd,
         RangeEndEmpty, Channel, Token, pathVars, histVars, padVars, pageVars
<1>2. CASE overtaker' = overtaker
  BY <1>1, <1>2, SoloKept
<1>3. CASE overtaker' # overtaker
  <2>1. \E m \in DOMAIN request : request[m].word = "release"
    <3>1. PICK t \in Tokens : Token(t)
      BY ReadsToken DEF Parses
    <3>2. t.word = "release" /\ input' = Append(input, t)
      BY <1>3, <3>1 DEF Token
    <3>3. /\ input \in Seq(Tokens) /\ request \in Seq(Tokens) /\ Len(input) < Len(request)
          /\ input' = SubSeq(request, 1, Len(input) + 1)
      BY DEF Parses, Rules, PadInv, PageTypeOK, TypeOK
    <3>4. PICK p \in Seq(Tokens), q \in Seq(Tokens), n \in Nat :
            p = input /\ q = request /\ n = Len(p)
      BY <3>3
    <3>5. n < Len(q) /\ Append(p, t) = SubSeq(q, 1, n + 1)
      BY <3>2, <3>3, <3>4
    <3>6. Append(p, t)[n + 1] = t /\ SubSeq(q, 1, n + 1)[n + 1] = q[n + 1] /\ n + 1 \in DOMAIN q
      BY <3>4, <3>5
    <3> QED  BY <3>2, <3>4, <3>5, <3>6, Zenon
  <2>2. ASSUME NEW s \in Seq(PageTokens), StepTo(s),
               NEW off, off = Content(Off(soloed.from)), NEW on, on = Content(s),
               SoloRuns(off, on)
        PROVE  FALSE
    <3>1. request = off \/ request = on
      BY <1>1, <2>2 DEF SoloRuns
    <3>2. /\ Off(soloed.from) \in Seq(PageTokens)
          /\ Typed(Off(soloed.from)) /\ Plain(Off(soloed.from))
      BY <2>2, OffTyped, OffPlain DEF StepTo, Typed
    <3>3. /\ \A i \in 1 .. Len(Off(soloed.from)) : Off(soloed.from)[i].word # "release"
          /\ \A i \in 1 .. Len(s) : s[i].word # "release"
      BY <2>2, <3>2, PlainNoRelease DEF StepTo
    <3>4. (\A m \in DOMAIN off : off[m].word # "release")
          /\ (\A m \in DOMAIN on : on[m].word # "release")
      BY <2>2, <3>2, <3>3, ContentType
    <3> QED  BY <2>1, <3>1, <3>4
  <2> QED  BY <1>1, <2>2 DEF SoloInv
<1> QED  BY <1>2, <1>3

LEMMA SoloStep ==
  Rules /\ Rules' /\ SoloInv /\ [PadNext]_<<vars, padVars>> => SoloInv'
<1> SUFFICES ASSUME Rules, Rules', SoloInv, [PadNext]_<<vars, padVars>>
             PROVE  SoloInv'
  OBVIOUS
<1>1. /\ PadInv /\ commands \in Nat /\ requests \in Nat /\ Len(flight) \in Nat
      /\ flight \in Seq(Seq(Tokens))
  <2>1. /\ PadInv /\ commands \in 0 .. MaxCommands /\ requests \in 0 .. MaxRequests
        /\ flight \in Seq(Seq(Tokens))
    BY DEF Rules, PadInv, PageTypeOK, TypeOK
  <2>2. Len(flight) \in Nat
    BY <2>1
  <2> QED  BY <2>1, <2>2
<1>2. CASE OtherClient
  BY <1>2 DEF OtherClient, SoloInv, padVars, pageVars
<1>3. CASE \/ \E s \in Strings : Type(s)
           \/ clearDisplay \/ soloOn \/ UNCHANGED <<vars, padVars>>
  <2>1. UNCHANGED <<vars, client, flight, request, requests, soloed>>
    BY <1>3 DEF Type, clearDisplay, soloOn, Page, padVars, pageVars
  <2> QED  BY <2>1, SoloKept, UnitStays
<1>4. CASE sendKeys \/ release \/ soloOff
  <2>1. /\ UNCHANGED <<vars, client>> /\ client = "page" /\ soloed' = NoStep
        /\ \E s \in Seq(PageTokens) : Fetch(<<s>>)
    <3>1. CASE sendKeys
      BY <1>1, <3>1 DEF sendKeys, Page, PadInv, PageTypeOK
    <3>2. CASE release \/ soloOff
      BY <3>2, EmptyTyped DEF release, soloOff, Page
    <3> QED  BY <1>4, <3>1, <3>2
  <2>2. PICK r \in Seq(Tokens) : flight' = Append(flight, r) /\ requests' = requests + 1
    BY <1>1, <2>1, FetchOneIs, ContentType DEF PadInv
  <2>3. Len(flight') = Len(flight) + 1
    BY <1>1, <2>2
  <2>4. commands' + Len(flight') <= requests'
    BY <1>1, <2>1, <2>2, <2>3 DEF SoloInv, vars, histVars
  <2> QED  BY <2>1, <2>4 DEF SoloInv
<1>5. CASE \E d \in {-1, 1} : soloChange(d)
  BY <1>1, <1>5, SoloBegins
<1>6. ASSUME NEW i \in DOMAIN flight, Arrives(i)
      PROVE  SoloInv'
  <2>1. /\ commands' = commands + 1 /\ UNCHANGED <<client, requests, soloed>>
        /\ flight' = RemoveAt(flight, i)
    BY <1>6 DEF Arrives, Start, pageVars
  <2>2. Len(flight') = Len(flight) - 1
    BY <1>1, <2>1, RemoveAtFacts
  <2>3. commands' + Len(flight') = commands + Len(flight)
    BY <1>1, <2>1, <2>2
  <2>4. ASSUME NEW s \in Seq(PageTokens), StepTo(s),
               NEW off, off = Content(Off(soloed.from)), NEW on, on = Content(s),
               SoloRuns(off, on)
        PROVE  (StepTo(s) /\ SoloRuns(Content(Off(soloed.from)), Content(s)))'
    <3>1. SoloRuns(off, on)' /\ StepTo(s)'
      BY <1>6, <2>1, <2>4, SoloArrives DEF StepTo
    <3> QED  BY <2>1, <2>4, <3>1
  <2> QED  BY <2>1, <2>3, <2>4 DEF SoloInv
<1>7. ASSUME NEW i \in DOMAIN flight, Fails(i)
      PROVE  SoloInv'
  <2>1. UNCHANGED <<commands, client, requests, soloed>> /\ flight' = RemoveAt(flight, i)
    BY <1>7 DEF Fails, pageVars, vars, histVars
  <2>2. Len(flight') = Len(flight) - 1
    BY <1>1, <2>1, RemoveAtFacts
  <2>3. client = "page" => commands' + Len(flight') < requests'
    BY <1>1, <2>1, <2>2 DEF SoloInv
  <2> QED  BY <1>1, <2>1, <2>2, <2>3 DEF SoloInv
<1>8. CASE client = "page" /\ (Parses \/ Copies)
  <2>1. CASE Parses
    BY <1>8, <2>1, SoloParses
  <2>2. CASE Copies
    <3>1. UNCHANGED <<client, flight, request, requests, soloed, commands, shadow, pc, sent, overtaker>>
          /\ queued # <<>>
      BY <2>2 DEF Copies, unsafeWriteBuffer, histVars, padVars, pageVars
    <3> QED  BY <3>1, SoloKept
  <2> QED  BY <1>8, <2>1, <2>2
<1>9. CASE client = "page" /\ Ends
  <2>1. UNCHANGED <<client, flight, requests, soloed, commands>>
    BY <1>9 DEF Ends, Send, padVars, pageVars, histVars
  <2>2. ASSUME NEW s \in Seq(PageTokens), StepTo(s),
               NEW off, off = Content(Off(soloed.from)), NEW on, on = Content(s),
               SoloRuns(off, on)
        PROVE  (StepTo(s) /\ SoloRuns(Content(Off(soloed.from)), Content(s)))'
    <3>1. SoloRuns(off, on)' /\ StepTo(s)'
      BY <1>9, <2>1, <2>2, SoloEnds DEF StepTo
    <3> QED  BY <2>1, <2>2, <3>1
  <2> QED  BY <2>1, <2>2 DEF SoloInv
<1> QED  BY <1>2, <1>3, <1>4, <1>5, <1>6, <1>7, <1>8, <1>9 DEF PadNext

(* After a step of solo mode whose two requests came, in whichever order,  *)
(* the channel is off or its neighbour has the level; both are, unless the *)
(* second to come began before the frame of the first was in the buffer.   *)
THEOREM SoloStepMoves == PadSpec => []SoloMoves
<1>1. PadInit => SoloInv
  <2>1. SUFFICES ASSUME PadInit
                 PROVE  SoloInv
    OBVIOUS
  <2>2. soloed = NoStep /\ commands = 0 /\ flight = <<>> /\ requests = 0
    BY <2>1 DEF PadInit, Init
  <2>3. Len(flight) = 0
    BY <2>2
  <2> QED  BY <2>2, <2>3 DEF SoloInv
<1>2. Rules /\ SoloInv => SoloMoves
  <2>1. SUFFICES ASSUME Rules, SoloInv, AtRest, soloed # NoStep, commands = requests
                 PROVE  /\ OffAt(dmxData) \/ OnAt(dmxData)
                        /\ overtaker # commands => OffAt(dmxData) /\ OnAt(dmxData)
    BY DEF SoloMoves, OffAt, OnAt
  <2>2. pc = "idle" /\ flight = <<>> /\ commands \in Nat /\ client = "page"
    BY <2>1 DEF AtRest, SoloInv, Rules, PadInv, PageTypeOK, TypeOK
  <2>3. commands + Len(flight) = requests
    BY <2>1, <2>2
  <2>4. PICK s \in Seq(PageTokens) : SoloRuns(Content(Off(soloed.from)), Content(s))
    BY <2>1, <2>2, <2>3 DEF SoloInv
  <2>5. PICK off, on : SoloRuns(off, on)
    BY <2>4
  <2>6. Base = sent /\ \A r : ~Waiting(r)
    BY <2>2 DEF Base, Waiting
  <2>7. \A c \in Slots \ {0} : dmxData[c] = sent[c]
    BY <2>1 DEF AtRest, Rules, PathInv
  <2>8. (OffAt(sent) => OffAt(dmxData)) /\ (OnAt(sent) => OnAt(dmxData))
    BY <2>7 DEF OffAt, OnAt
  <2>9. /\ OffAt(sent) \/ OnAt(sent)
        /\ overtaker # commands => OffAt(sent) /\ OnAt(sent)
    BY <2>2, <2>5, <2>6 DEF SoloRuns
  <2> QED  BY <2>8, <2>9
<1> QED  BY <1>1, <1>2, RulesInit, RulesStep, SoloStep, PTL DEF PadSpec
=============================================================================
