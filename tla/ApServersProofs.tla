--------------------------- MODULE ApServersProofs ---------------------------
(***************************************************************************)
(* Proofs about ApServers, for every size of messages, every set of labels *)
(* and options, and every order of the start of the servers and messages.  *)
(***************************************************************************)
EXTENDS ApServers, WellFoundedInduction, TLAPS

(* What OwnAddress needs: how far the start must be when a message is      *)
(* handled, and the answers given so far.                                  *)
Started ==
  /\ dhcpStart # "ip" => dhcpIp = Our
  /\ dnsStart = "up" => dnsIp = Our
  /\ pc # "idle" /\ ~early => dnsStart = "up"

AnswerEnds ==
  outcome \in {"answered", "dropped"} => answer.at <= Header + MaxName + 4

IInv == DnsTypeOK /\ Started /\ AnswerEnds /\ OwnAddress

(* A message fits into dns_msg.                                            *)
LEMMA MessageTypes ==
  /\ Messages \subseteq [size: 0 .. MaxMsg, query: BOOLEAN, questions: 0 .. 1]
  /\ NoMessage \in [size: 0 .. MaxMsg, query: BOOLEAN, questions: 0 .. 1]
  /\ NoAnswer \in [at: Nat, ip: {Our, Unset}]
BY DnsAssumption DEF Messages, Copied, NoMessage, NoAnswer

(* The invariant holds at first.                                           *)
LEMMA InitInv == Init => IInv
<1>1. NoMessage \in [size: 0 .. MaxMsg, query: BOOLEAN, questions: 0 .. 1]
  BY MessageTypes
<1>2. NoAnswer \in [at: Nat, ip: {Our, Unset}]
  BY MessageTypes
<1>. <<>> \in Seq(Nat)
  OBVIOUS
<1>3. Init => DnsTypeOK
  <2> SUFFICES ASSUME Init PROVE DnsTypeOK
    OBVIOUS
  <2>1. msg = NoMessage /\ answer = NoAnswer /\ labels = <<>>
    BY DEF Init, DnsInit
  <2>2. /\ msg \in [size: 0 .. MaxMsg, query: BOOLEAN, questions: 0 .. 1]
        /\ answer \in [at: Nat, ip: {Our, Unset}]
        /\ labels \in Seq(Nat)
    BY <2>1, <1>1, <1>2
  <2>. QED
    BY <2>2 DEF Init, DnsInit, DnsTypeOK
<1>4. Init => Started /\ AnswerEnds /\ OwnAddress
  BY DEF Init, DnsInit, Started, AnswerEnds, OwnAddress, Ignored
<1>. QED
  BY <1>3, <1>4 DEF IInv

(* A new record of a message keeps the types.                              *)
LEMMA FreshTypes ==
  ASSUME NEW p \in {"idle", "check"}, NEW m \in Messages \cup {NoMessage}, NEW e \in BOOLEAN,
         DnsTypeOK, Fresh(p, m, e)
  PROVE  DnsTypeOK' /\ outcome' = "none"
BY MessageTypes DEF DnsTypeOK, Fresh

(* Each step of the DNS server keeps the invariant.                        *)
LEMMA DnsKeeps ==
  ASSUME IInv, DnsStep
  PROVE  IInv'
<1> USE DnsAssumption
<1> SUFFICES ASSUME DnsNext, UNCHANGED dhcpVars PROVE IInv'
  BY DEF DnsStep
<1>t. DnsTypeOK /\ Started /\ AnswerEnds /\ OwnAddress
  BY DEF IInv
<1>1. CASE DnsNew \/ DnsBind \/ DnsCopy
  BY <1>1, <1>t DEF DnsNew, DnsBind, DnsCopy, handlerVars, dhcpVars, IInv, DnsTypeOK, Started, AnswerEnds, OwnAddress
<1>2. CASE \E m \in Messages : Receive(m)
  <2>1. PICK m \in Messages : Receive(m)
    BY <1>2
  <2>2. DnsTypeOK' /\ outcome' = "none"
    BY <2>1, <1>t, FreshTypes DEF Receive
  <2>. QED
    BY <2>1, <2>2, <1>t DEF Receive, Fresh, dhcpVars, IInv, Started, AnswerEnds, OwnAddress
<1>3. CASE Check
  BY <1>3, <1>t DEF Check, Ignore, dhcpVars, IInv, DnsTypeOK, Started, AnswerEnds, OwnAddress
<1>4. CASE NameEnds
  <2>1. ptr' \in Nat
    BY <1>4, <1>t DEF NameEnds, DnsTypeOK
  <2>a. labels \in Seq(Nat) /\ Append(labels, 0) \in Seq(Nat)
    BY <1>t DEF DnsTypeOK
  <2>2. labels' \in Seq(Nat)
    BY <1>4, <2>a DEF NameEnds
  <2>3. DnsTypeOK'
    BY <1>4, <2>1, <2>2, <1>t DEF NameEnds, DnsTypeOK
  <2>. QED
    BY <1>4, <2>3, <1>t DEF NameEnds, dhcpVars, IInv, Started, AnswerEnds, OwnAddress
<1>5. CASE NameTooLong
  BY <1>5, <1>t DEF NameTooLong, Ignore, dhcpVars, IInv, DnsTypeOK, Started, AnswerEnds, OwnAddress
<1>6. CASE Reply
  <2>1. ptr + 4 <= Header + MaxName + 4
    BY <1>6, <1>t DEF Reply, TooLong, DnsTypeOK
  <2>2. DnsTypeOK'
    BY <1>6, <1>t DEF Reply, DnsTypeOK
  <2>. QED
    BY <1>6, <1>t, <2>1, <2>2 DEF Reply, dhcpVars, IInv, Started, AnswerEnds, OwnAddress
<1>7. CASE \E l \in Labels : Label(l)
  <2>1. PICK l \in Labels : Label(l)
    BY <1>7
  <2>2. l \in Nat
    OBVIOUS
  <2>. QED
    BY <2>1, <2>2, <1>t DEF Label, Ignore, dhcpVars, IInv, DnsTypeOK, Started, AnswerEnds, OwnAddress
<1>. QED
  BY <1>1, <1>2, <1>3, <1>4, <1>5, <1>6, <1>7 DEF DnsNext

(* Each step of the DHCP server keeps the invariant.                       *)
LEMMA DhcpKeeps ==
  ASSUME IInv,
         NEW list,
         DhcpCopy \/ DhcpNew \/ DhcpBind \/ Offer(list) \/ Ack(list) \/ NoAck(list)
  PROVE  IInv'
<1>t. DnsTypeOK /\ Started /\ AnswerEnds /\ OwnAddress
  BY DEF IInv
<1>1. UNCHANGED dnsVars
  BY DEF DhcpCopy, DhcpNew, DhcpBind, Offer, Ack, NoAck, Listening
<1>2. DnsTypeOK' /\ AnswerEnds'
  BY <1>1, <1>t DEF dnsVars, handlerVars, DnsTypeOK, AnswerEnds
<1>3. Started'
  BY <1>1, <1>t DEF dnsVars, handlerVars, Started, DhcpCopy, DhcpNew, DhcpBind, Offer, Ack, NoAck, Listening
<1>4. OwnAddress'
  <2>1. CASE DhcpCopy \/ DhcpNew \/ DhcpBind
    BY <2>1, <1>1, <1>t DEF dnsVars, handlerVars, OwnAddress, DhcpCopy, DhcpNew, DhcpBind
  <2>2. CASE Offer(list) \/ Ack(list) \/ NoAck(list)
    <3>1. dhcpIp = Our
      BY <2>2, <1>t DEF Offer, Ack, NoAck, Listening, Started
    <3>2. dhcpAnswer'.kind # "ignored" => dhcpAnswer'.server = Our
      BY <2>2, <3>1 DEF Offer, Ack, NoAck, Ignored
    <3>. QED
      BY <3>2, <1>1, <1>t DEF dnsVars, handlerVars, OwnAddress
  <2>. QED
    BY <2>1, <2>2
<1>. QED
  BY <1>2, <1>3, <1>4 DEF IInv

(* Dropping the record of a message keeps the invariant.                   *)
LEMMA OverKeeps ==
  ASSUME IInv, Over
  PROVE  IInv'
<1>1. DnsTypeOK' /\ outcome' = "none"
  BY FreshTypes DEF IInv, Over, Forget
<1>. QED
  BY <1>1 DEF IInv, Over, Forget, Fresh, Ignored, Started, AnswerEnds, OwnAddress

(* Every step keeps the invariant.                                         *)
LEMMA StepInv == IInv /\ [Next]_vars => IInv'
<1> SUFFICES ASSUME IInv, [Next]_vars PROVE IInv'
  OBVIOUS
<1>1. CASE DnsStep
  BY <1>1, DnsKeeps
<1>2. CASE DhcpCopy \/ DhcpNew \/ DhcpBind
  BY <1>2, DhcpKeeps
<1>3. CASE \E list \in Lists : Offer(list) \/ Ack(list) \/ NoAck(list)
  BY <1>3, DhcpKeeps
<1>4. CASE Over
  BY <1>4, OverKeeps
<1>5. CASE UNCHANGED vars
  BY <1>5 DEF vars, dnsVars, handlerVars, dhcpVars, IInv, DnsTypeOK, Started, AnswerEnds, OwnAddress
<1>. QED
  BY <1>1, <1>2, <1>3, <1>4, <1>5 DEF Next

(* The answer of the DNS server fits into the buffer the question was read *)
(* into, whatever labels and however many of them were sent.               *)
THEOREM AnswersFit == Spec => []AnswerFits
<1>1. IInv => AnswerFits
  BY DnsAssumption DEF IInv, DnsTypeOK, AnswerEnds, AnswerFits
<1>. QED
  BY <1>1, InitInv, StepInv, PTL DEF Spec

(* Clients learn the unit's own address from both servers, unless a        *)
(* question came before dns_server_init had copied it.                     *)
THEOREM AnswersWithOwnAddress == Spec => []OwnAddress
<1>1. IInv => OwnAddress
  BY DEF IInv
<1>. QED
  BY <1>1, InitInv, StepInv, PTL DEF Spec

(* The DNS server keeps its types: no more than MAX_DNS_MSG_SIZE bytes of  *)
(* a message are ever held.                                                *)
THEOREM DnsTypesKept == Spec => []DnsTypeOK
<1>1. IInv => DnsTypeOK
  BY DEF IInv
<1>. QED
  BY <1>1, InitInv, StepInv, PTL DEF Spec
-----------------------------------------------------------------------------
(* The state of both servers.                                              *)

LEMMA TypeInit == Init => TypeOK
<1> SUFFICES ASSUME Init PROVE TypeOK
  OBVIOUS
<1>1. DnsTypeOK
  BY InitInv DEF IInv
<1>2. opts \in Seq(Options)
  BY DEF Init
<1>3. dhcpAnswer \in [kind: {"ignored", "offer", "ack"}, server: {Our, Unset}, yiaddr: 0 .. 255]
  BY DEF Init, Ignored
<1>. QED
  BY <1>1, <1>2, <1>3 DEF Init, TypeOK

(* The numbers among the constants, apart from what is said of options.    *)
LEMMA SizeFacts ==
  /\ OptSize \in Nat \ {0} /\ OptSize \in Nat /\ 1 <= OptSize
  /\ MaxOptions \in Nat
<1>1. OptSize \in Nat \ {0} /\ MaxOptions \in Nat
  BY ApAssumption, Zenon
<1> QED  BY <1>1

(* A list of options is a sequence, and an address of the pool a byte.     *)
LEMMA MessageStep ==
  ASSUME TypeOK, NEW list \in Lists, Offer(list) \/ Ack(list) \/ NoAck(list)
  PROVE  /\ opts' \in Seq(Options)
         /\ dhcpAnswer' \in [kind: {"ignored", "offer", "ack"}, server: {Our, Unset}, yiaddr: 0 .. 255]
<1>1. opts' = list /\ dhcpIp \in {Our, Unset}
  BY DEF Offer, Ack, NoAck, Listening, TypeOK
<1>2. list \in Seq(Options)
  BY SizeFacts DEF Lists
<1>3. \A yi \in 0 .. DHCPS_MAX_IP - 1 : DHCPS_BASE_IP + yi \in 0 .. 255
  BY DEF DHCPS_MAX_IP, DHCPS_BASE_IP
<1>4. CASE Offer(list)
  BY <1>1, <1>2, <1>3, <1>4 DEF Offer
<1>5. CASE Ack(list)
  <2>1. PICK yi \in 0 .. DHCPS_MAX_IP - 1 :
          dhcpAnswer' = [kind |-> "ack", server |-> dhcpIp, yiaddr |-> DHCPS_BASE_IP + yi]
    BY <1>5 DEF Ack
  <2>. QED
    BY <1>1, <1>2, <1>3, <2>1
<1>6. CASE NoAck(list)
  BY <1>1, <1>2, <1>6 DEF NoAck, Ignored
<1>. QED
  BY <1>1, <1>2, <1>4, <1>5, <1>6

LEMMA TypeStep == IInv /\ TypeOK /\ [Next]_vars => TypeOK'
<1> SUFFICES ASSUME IInv, TypeOK, [Next]_vars PROVE TypeOK'
  OBVIOUS
<1>1. DnsTypeOK'
  BY StepInv DEF IInv
<1>2. CASE DhcpCopy \/ DhcpNew \/ DhcpBind
  BY <1>1, <1>2 DEF TypeOK, DhcpCopy, DhcpNew, DhcpBind
<1>3. CASE DnsStep \/ UNCHANGED vars
  BY <1>1, <1>3 DEF TypeOK, DnsStep, vars, dhcpVars
<1>4. CASE \E list \in Lists : Offer(list) \/ Ack(list) \/ NoAck(list)
  <2>1. PICK list \in Lists : Offer(list) \/ Ack(list) \/ NoAck(list)
    BY <1>4
  <2>2. UNCHANGED <<dhcpStart, dhcpIp>>
    BY <2>1 DEF Offer, Ack, NoAck, Listening
  <2>. QED
    BY <1>1, <2>1, <2>2, MessageStep DEF TypeOK
<1>5. CASE Over
  <2>1. opts' \in Seq(Options)
    BY <1>5 DEF Over
  <2>. QED
    BY <1>1, <1>5, <2>1 DEF Over, TypeOK, Ignored
<1>. QED
  BY <1>2, <1>3, <1>4, <1>5 DEF Next

(* Whatever options are sent, the address of an answer is a byte, and the  *)
(* servers are in a step of their start.                                   *)
THEOREM ApTypeOK == Spec => []TypeOK
<1>. QED
  BY InitInv, StepInv, TypeInit, TypeStep, PTL DEF Spec

-----------------------------------------------------------------------------
(* Sums.                                                                   *)

(* A set of numbers with 0 and the successor of each has them all.         *)
LEMMA AllNumbers ==
  ASSUME NEW S, 0 \in S, \A k \in Nat : k \in S => k + 1 \in S
  PROVE  \A k \in Nat : k \in S
<1> DEFINE T == {k \in Nat : k \notin S}
<1>1. SUFFICES ASSUME T # {}
               PROVE  FALSE
  OBVIOUS
<1>2. IsWellFoundedOn(OpToRel(<, Nat), Nat)
  BY NatLessThanWellFounded
<1>3. PICK x \in T : \A y \in T : ~ (<<y, x>> \in OpToRel(<, Nat))
  BY <1>1, <1>2, WFMin
<1>4. \A y \in T : ~(y < x)
  BY <1>3 DEF OpToRel
<1>5. x \in Nat /\ x \notin S /\ x # 0
  BY <1>3
<1>6. x - 1 \in Nat /\ x - 1 < x /\ (x - 1) + 1 = x
  BY <1>5
<1>7. x - 1 \in S
  BY <1>4, <1>6
<1> QED  BY <1>5, <1>6, <1>7

(* Function f has the sums of the first numbers of s.                      *)
IsSum(f, s) == f = [k \in 0 .. Len(s) |-> IF k = 0 THEN 0 ELSE f[k - 1] + s[k]]

(* The recursion of Total has a solution, and all solutions agree.         *)
Sums(s, n) == (\E f : IsSum(f, s)) /\ \A f : IsSum(f, s) => f[Len(s)] = n

LEMMA SumsTotal ==
  ASSUME NEW s, NEW n, Sums(s, n)
  PROVE  Total(s) = n
<1> DEFINE F == CHOOSE f : IsSum(f, s)
<1>1. IsSum(F, s)
  BY DEF Sums
<1>2. Total(s) = F[Len(s)]
  BY DEF Total, IsSum
<1> HIDE DEF F
<1> QED  BY <1>1, <1>2 DEF Sums

LEMMA SumsEmpty == Sums(<<>>, 0)
<1> DEFINE f == [k \in {0} |-> 0]
<1>1. 0 .. Len(<<>>) = {0}
  OBVIOUS
<1>2. IsSum(f, <<>>)
  BY <1>1 DEF IsSum
<1>3. \A g : IsSum(g, <<>>) => g[Len(<<>>)] = 0
  BY <1>1 DEF IsSum
<1> HIDE DEF f
<1> QED  BY <1>2, <1>3 DEF Sums

LEMMA SumsAppend ==
  ASSUME NEW s \in Seq(Nat), NEW x \in Nat, NEW n \in Nat, Sums(s, n)
  PROVE  Sums(Append(s, x), n + x)
<1>1. PICK m \in Nat : m = Len(s)
  OBVIOUS
<1>2. PICK t \in Seq(Nat) : t = Append(s, x)
  <2>1. Append(s, x) \in Seq(Nat)
    OBVIOUS
  <2> QED  BY <2>1, Zenon
<1>3. Len(t) = m + 1 /\ t[m + 1] = x /\ \A k \in 1 .. m : t[k] = s[k]
  BY <1>1, <1>2
<1>4. \E f : IsSum(f, t)
  <2>1. PICK f : f = [k \in 0 .. m |-> IF k = 0 THEN 0 ELSE f[k - 1] + s[k]]
    BY <1>1 DEF Sums, IsSum
  <2> DEFINE g == [k \in 0 .. m + 1 |-> IF k = m + 1 THEN f[m] + x ELSE f[k]]
  <2>2. ASSUME NEW k \in 0 .. m + 1
        PROVE  g[k] = IF k = 0 THEN 0 ELSE g[k - 1] + t[k]
    <3>1. CASE k = m + 1
      <4>1. k - 1 = m /\ m \in 0 .. m + 1 /\ m # m + 1 /\ k # 0
        BY <3>1
      <4> QED  BY <1>3, <3>1, <4>1
    <3>2. CASE k # m + 1 /\ k # 0
      <4>1. k \in 0 .. m /\ k \in 1 .. m /\ k - 1 \in 0 .. m + 1 /\ k - 1 # m + 1
        BY <3>2
      <4>2. f[k] = f[k - 1] + s[k]
        BY <2>1, <3>2, <4>1
      <4> QED  BY <1>3, <3>2, <4>1, <4>2
    <3>3. CASE k = 0
      <4>1. 0 \in 0 .. m /\ 0 # m + 1
        OBVIOUS
      <4>2. f[0] = 0
        BY <2>1, <4>1
      <4> QED  BY <3>3, <4>1, <4>2
    <3> QED  BY <3>1, <3>2, <3>3
  <2>3. g = [k \in 0 .. m + 1 |-> IF k = 0 THEN 0 ELSE g[k - 1] + t[k]]
    <3>1. g = [k \in 0 .. m + 1 |-> g[k]]
      OBVIOUS
    <3> HIDE DEF g
    <3> QED  BY <2>2, <3>1
  <2> HIDE DEF g
  <2> QED  BY <1>3, <2>3 DEF IsSum
<1>5. ASSUME NEW g, IsSum(g, t)
      PROVE  g[Len(t)] = n + x
  <2>1. \A k \in 0 .. m + 1 : g[k] = IF k = 0 THEN 0 ELSE g[k - 1] + t[k]
    BY <1>3, <1>5 DEF IsSum
  <2> DEFINE f == [k \in 0 .. m |-> g[k]]
  <2>2. \A k \in 0 .. m : f[k] = IF k = 0 THEN 0 ELSE f[k - 1] + s[k]
    <3>1. ASSUME NEW k \in 0 .. m, k # 0
          PROVE  f[k] = f[k - 1] + s[k]
      <4>1. k \in 0 .. m + 1 /\ k \in 1 .. m /\ k - 1 \in 0 .. m
        BY <3>1
      <4> QED  BY <1>3, <2>1, <3>1, <4>1
    <3>2. f[0] = 0
      <4>1. 0 \in 0 .. m /\ 0 \in 0 .. m + 1
        OBVIOUS
      <4> QED  BY <2>1, <4>1
    <3> HIDE DEF f
    <3> QED  BY <3>1, <3>2
  <2>3. IsSum(f, s)
    <3>1. f = [k \in 0 .. m |-> f[k]]
      OBVIOUS
    <3> HIDE DEF f
    <3> QED  BY <1>1, <2>2, <3>1 DEF IsSum
  <2>4. f[m] = n
    <3> HIDE DEF f
    <3> QED  BY <1>1, <2>3 DEF Sums
  <2>5. g[m] = n
    <3>1. m \in 0 .. m
      OBVIOUS
    <3> QED  BY <2>4, <3>1
  <2>6. m + 1 \in 0 .. m + 1 /\ m + 1 # 0 /\ (m + 1) - 1 = m
    OBVIOUS
  <2> QED  BY <1>3, <2>1, <2>5, <2>6
<1> QED  BY <1>2, <1>4, <1>5 DEF Sums

LEMMA SumsExist == \A s \in Seq(Nat) : \E n \in Nat : Sums(s, n)
<1> DEFINE S == {k \in Nat : \A s \in Seq(Nat) : Len(s) = k => \E n \in Nat : Sums(s, n)}
<1>1. 0 \in S
  <2>1. \A s \in Seq(Nat) : Len(s) = 0 => s = <<>>
    OBVIOUS
  <2> QED  BY <2>1, SumsEmpty
<1>2. ASSUME NEW k \in Nat, k \in S
      PROVE  k + 1 \in S
  <2>1. ASSUME NEW s \in Seq(Nat), Len(s) = k + 1
        PROVE  \E n \in Nat : Sums(s, n)
    <3>1. PICK f \in Seq(Nat), x \in Nat : f = SubSeq(s, 1, k) /\ x = s[k + 1]
      <4>1. SubSeq(s, 1, k) \in Seq(Nat) /\ s[k + 1] \in Nat
        BY <2>1
      <4> QED  BY <4>1, Zenon
    <3>2. Len(f) = k /\ s = Append(f, x)
      BY <2>1, <3>1
    <3>3. PICK n \in Nat : Sums(f, n)
      BY <1>2, <3>2
    <3>4. Sums(s, n + x) /\ n + x \in Nat
      BY <3>2, <3>3, SumsAppend
    <3> QED  BY <3>4
  <2> QED  BY <2>1
<1> HIDE DEF S
<1>3. \A k \in Nat : k \in S
  BY <1>1, <1>2, AllNumbers
<1>4. \A s \in Seq(Nat) : Len(s) \in S
  BY <1>3
<1> QED  BY <1>4 DEF S

LEMMA TotalFacts ==
  /\ Total(<<>>) = 0
  /\ \A s \in Seq(Nat) : Total(s) \in Nat
  /\ \A s \in Seq(Nat) : \A x \in Nat : Total(Append(s, x)) = Total(s) + x
<1>1. Total(<<>>) = 0
  BY SumsEmpty, SumsTotal
<1>2. ASSUME NEW s \in Seq(Nat)
      PROVE  \E n \in Nat : Sums(s, n) /\ Total(s) = n
  BY SumsExist, SumsTotal
<1>3. ASSUME NEW s \in Seq(Nat), NEW x \in Nat
      PROVE  Total(Append(s, x)) = Total(s) + x
  <2>1. PICK n \in Nat : Sums(s, n) /\ Total(s) = n
    BY <1>2
  <2>2. Sums(Append(s, x), n + x)
    BY <2>1, SumsAppend
  <2> QED  BY <2>1, <2>2, SumsTotal
<1> QED  BY <1>1, <1>2, <1>3

-----------------------------------------------------------------------------
(* What a question is answered with.                                       *)

(* The walk stands behind the labels it has read, and none of them was too *)
(* long.  A question is ignored because of its name, or answered behind    *)
(* it.                                                                     *)
NameInv ==
  /\ pc = "check" => labels = <<>>
  /\ pc \in {"walk", "length"} =>
       ptr = Header + NameSize /\ \A k \in DOMAIN labels : labels[k] <= MaxLabel
  /\ pc = "idle" /\ outcome # "none" /\ Question(msg) =>
       /\ outcome = "ignored" => ~Valid
       /\ outcome # "ignored" => Valid /\ answer.at = Header + NameSize + 4

LEMMA NameSizes ==
  ASSUME NEW s \in Seq(Nat), NEW l \in Nat
  PROVE  /\ Total([k \in DOMAIN s |-> 1 + s[k]]) \in Nat
         /\ Total([k \in DOMAIN Append(s, l) |-> 1 + Append(s, l)[k]])
              = Total([k \in DOMAIN s |-> 1 + s[k]]) + 1 + l
<1> DEFINE d == [k \in DOMAIN s |-> 1 + s[k]]
           e == [k \in DOMAIN Append(s, l) |-> 1 + Append(s, l)[k]]
<1>1. PICK n \in Nat : n = Len(s)
  OBVIOUS
<1>2. DOMAIN s = 1 .. n /\ DOMAIN Append(s, l) = 1 .. n + 1
      /\ Append(s, l)[n + 1] = l /\ \A k \in 1 .. n : Append(s, l)[k] = s[k] /\ s[k] \in Nat
  BY <1>1
<1>3. d = [k \in 1 .. n |-> 1 + s[k]]
  BY <1>2
<1>4. e = [k \in 1 .. n + 1 |-> IF k = n + 1 THEN 1 + l ELSE 1 + s[k]]
  BY <1>2
<1> HIDE DEF d, e
<1>5. d \in [1 .. n -> Nat] /\ e \in [1 .. n + 1 -> Nat]
  BY <1>2, <1>3, <1>4
<1>6. d \in Seq(Nat) /\ e \in Seq(Nat) /\ Len(d) = n /\ Len(e) = n + 1
  BY <1>5
<1>7. e = Append(d, 1 + l)
  BY <1>3, <1>4, <1>6
<1>8. Total(d) \in Nat /\ Total(e) = Total(d) + (1 + l)
  BY <1>6, <1>7, TotalFacts
<1>9. Total(e) = Total(d) + 1 + l
  BY <1>8
<1> QED  BY <1>8, <1>9 DEF d, e

(* One more label.                                                         *)
LEMMA NameGrows ==
  ASSUME DnsTypeOK, NEW l \in Nat, labels' = Append(labels, l)
  PROVE  /\ NameSize \in Nat /\ NameSize' = NameSize + 1 + l
         /\ DOMAIN labels' = DOMAIN labels \cup {Len(labels) + 1}
         /\ labels'[Len(labels) + 1] = l /\ \A k \in DOMAIN labels : labels'[k] = labels[k]
<1>1. labels \in Seq(Nat)
  BY DEF DnsTypeOK
<1>2. NameSize \in Nat /\ NameSize' = NameSize + 1 + l
  BY <1>1, NameSizes DEF NameSize
<1>3. /\ DOMAIN labels' = DOMAIN labels \cup {Len(labels) + 1}
      /\ labels'[Len(labels) + 1] = l /\ \A k \in DOMAIN labels : labels'[k] = labels[k]
  BY <1>1
<1> QED  BY <1>2, <1>3

LEMMA NameInit == Init => NameInv
  BY DEF Init, DnsInit, NameInv

LEMMA NameStep == IInv /\ NameInv /\ [Next]_vars => NameInv'
<1> SUFFICES ASSUME IInv, NameInv, [Next]_vars
             PROVE  NameInv'
  OBVIOUS
<1>t. DnsTypeOK /\ DnsTypeOK'
  BY StepInv DEF IInv
<1>1. CASE UNCHANGED dnsVars
  BY <1>1 DEF dnsVars, handlerVars, NameInv, NameSize, Valid
<1>2. CASE DnsStep
  <2>1. CASE DnsNew \/ DnsBind \/ DnsCopy
    BY <2>1 DEF DnsNew, DnsBind, DnsCopy, handlerVars, NameInv, NameSize, Valid
  <2>2. ASSUME NEW m \in Messages, Receive(m)
        PROVE  NameInv'
    BY <2>2 DEF Receive, Fresh, NameInv
  <2>3. CASE Check
    <3>1. CASE ~Question(msg)
      BY <2>3, <3>1 DEF Check, Ignore, NameInv, Question
    <3>2. CASE Question(msg)
      <4>1. pc' = "walk" /\ ptr' = Header /\ labels' = <<>>
        BY <2>3, <3>2 DEF Check, NameInv
      <4>2. NameSize' = 0
        <5>1. [k \in DOMAIN labels |-> 1 + labels[k]]' = <<>>
          BY <4>1
        <5> QED  BY <5>1, TotalFacts DEF NameSize
      <4> QED  BY <4>1, <4>2, DnsAssumption DEF NameInv
    <3> QED  BY <3>1, <3>2
  <2>4. CASE NameEnds
    <3>1. pc = "walk" /\ pc' = "length" /\ ptr = Header + NameSize
          /\ \A k \in DOMAIN labels : labels[k] <= MaxLabel
      BY <2>4 DEF NameEnds, NameInv
    <3>2. CASE ptr' = ptr + 1 /\ labels' = Append(labels, 0)
      <4>1. /\ NameSize \in Nat /\ NameSize' = NameSize + 1 + 0
            /\ DOMAIN labels' = DOMAIN labels \cup {Len(labels) + 1}
            /\ labels'[Len(labels) + 1] = 0 /\ \A k \in DOMAIN labels : labels'[k] = labels[k]
        BY <1>t, <3>2, NameGrows
      <4>2. ptr' = Header + NameSize'
        BY <3>1, <3>2, <4>1, DnsAssumption
      <4>3. \A k \in DOMAIN labels' : labels'[k] <= MaxLabel
        BY <3>1, <4>1, DnsAssumption
      <4> QED  BY <3>1, <4>2, <4>3 DEF NameInv
    <3>3. CASE UNCHANGED <<ptr, labels>>
      BY <3>1, <3>3 DEF NameInv, NameSize
    <3> QED  BY <2>4, <3>2, <3>3 DEF NameEnds
  <2>5. CASE NameTooLong
    <3>1. /\ ptr = Header + NameSize /\ TooLong /\ UNCHANGED <<labels, msg>>
          /\ pc' = "idle" /\ outcome' = "ignored"
      BY <2>5 DEF NameTooLong, Ignore, NameInv
    <3>2. NameSize \in Nat /\ NameSize' = NameSize
      BY <1>t, <3>1, NameSizes DEF DnsTypeOK, NameSize
    <3>3. NameSize > MaxName
      BY <3>1, <3>2, DnsAssumption DEF TooLong
    <3>4. ~Valid'
      BY <3>2, <3>3, DnsAssumption DEF Valid
    <3> QED  BY <3>1, <3>4 DEF NameInv
  <2>6. CASE Reply
    <3>1. /\ ptr = Header + NameSize /\ ~TooLong /\ UNCHANGED <<labels, msg, ptr>>
          /\ pc' = "idle" /\ outcome' # "ignored" /\ answer'.at = ptr + 4
          /\ \A k \in DOMAIN labels : labels[k] <= MaxLabel
      BY <2>6 DEF Reply, NameInv
    <3>2. NameSize \in Nat /\ NameSize' = NameSize
      BY <1>t, <3>1, NameSizes DEF DnsTypeOK, NameSize
    <3>3. NameSize <= MaxName
      BY <3>1, <3>2, DnsAssumption DEF TooLong
    <3>4. Valid'
      BY <3>1, <3>2, <3>3 DEF Valid
    <3> QED  BY <3>1, <3>2, <3>4 DEF NameInv
  <2>7. ASSUME NEW l \in Labels, Label(l)
        PROVE  NameInv'
    <3>1. pc = "walk" /\ labels' = Append(labels, l) /\ l \in Nat /\ ptr = Header + NameSize
          /\ \A k \in DOMAIN labels : labels[k] <= MaxLabel
      BY <2>7, DnsAssumption DEF Label, NameInv
    <3>2. /\ NameSize \in Nat /\ NameSize' = NameSize + 1 + l
          /\ DOMAIN labels' = DOMAIN labels \cup {Len(labels) + 1}
          /\ labels'[Len(labels) + 1] = l /\ \A k \in DOMAIN labels : labels'[k] = labels[k]
      BY <1>t, <3>1, NameGrows
    <3>3. CASE l > MaxLabel
      <4>1. pc' = "idle" /\ outcome' = "ignored"
        BY <2>7, <3>1, <3>3, DnsAssumption DEF Label, Ignore
      <4>2. ~Valid'
        BY <3>1, <3>2, <3>3, DnsAssumption DEF Valid
      <4> QED  BY <4>1, <4>2 DEF NameInv
    <3>4. CASE ~(l > MaxLabel)
      <4>1. ptr' = ptr + 1 + l /\ pc' = "walk"
        BY <2>7, <3>1, <3>4 DEF Label
      <4>2. ptr' = Header + NameSize'
        BY <3>1, <3>2, <4>1, DnsAssumption
      <4>3. \A k \in DOMAIN labels' : labels'[k] <= MaxLabel
        BY <3>1, <3>2, <3>4, DnsAssumption
      <4> QED  BY <4>1, <4>2, <4>3 DEF NameInv
    <3> QED  BY <3>3, <3>4
  <2> QED  BY <1>2, <2>1, <2>2, <2>3, <2>4, <2>5, <2>6, <2>7 DEF DnsStep, DnsNext
<1>3. CASE Over
  BY <1>3 DEF Over, Forget, Fresh, NameInv
<1>4. CASE \/ DhcpCopy \/ DhcpNew \/ DhcpBind \/ UNCHANGED vars
           \/ \E list \in Lists : Offer(list) \/ Ack(list) \/ NoAck(list)
  <2>1. UNCHANGED dnsVars
    BY <1>4 DEF DhcpCopy, DhcpNew, DhcpBind, Offer, Ack, NoAck, Listening, vars
  <2> QED  BY <1>1, <2>1
<1> QED  BY <1>2, <1>3, <1>4 DEF Next

(* A question with a name that is valid, however many labels it has, is    *)
(* answered right behind itself, and no other one is.                      *)
THEOREM QuestionsAnswered == Spec => []AnswersValid
<1>1. NameInv => AnswersValid
  BY DEF NameInv, AnswersValid
<1> QED  BY <1>1, InitInv, StepInv, NameInit, NameStep, PTL DEF Spec

-----------------------------------------------------------------------------
(* The bytes of a list of options.                                         *)

Byte == 0 .. 255

(* Function f has the first sequences of s, joined.                        *)
IsFlat(f, s) == f = [i \in 1 .. Len(s) |-> IF i = 1 THEN s[i] ELSE f[i - 1] \o s[i]]

Flattens(s, b) == (\E f : IsFlat(f, s)) /\ \A f : IsFlat(f, s) => f[Len(s)] = b

LEMMA FlattensIs ==
  ASSUME NEW s, NEW b, Len(s) # 0, Flattens(s, b)
  PROVE  FlattenSeq(s) = b
<1> DEFINE F == CHOOSE f : IsFlat(f, s)
<1>1. IsFlat(F, s)
  BY DEF Flattens
<1>2. FlattenSeq(s) = F[Len(s)]
  BY DEF FlattenSeq, IsFlat
<1> HIDE DEF F
<1> QED  BY <1>1, <1>2 DEF Flattens

LEMMA FlattensOne ==
  ASSUME NEW x \in Seq(Byte), NEW s \in Seq(Seq(Byte)), Len(s) = 1, s[1] = x
  PROVE  Flattens(s, x)
<1> DEFINE f == [i \in 1 .. 1 |-> x]
<1>1. \A i \in 1 .. 1 : i = 1
  OBVIOUS
<1>2. f = [i \in 1 .. Len(s) |-> IF i = 1 THEN s[i] ELSE f[i - 1] \o s[i]]
  <2>1. f = [i \in 1 .. 1 |-> f[i]] /\ \A i \in 1 .. 1 : f[i] = s[i]
    BY <1>1
  <2> HIDE DEF f
  <2> QED  BY <1>1, <2>1
<1>3. \A g : IsFlat(g, s) => g[1] = x
  <2>1. 1 \in 1 .. Len(s)
    OBVIOUS
  <2> QED  BY <2>1 DEF IsFlat
<1> HIDE DEF f
<1> QED  BY <1>2, <1>3 DEF Flattens, IsFlat

LEMMA FlattensAppend ==
  ASSUME NEW s \in Seq(Seq(Byte)), NEW b \in Seq(Byte), Len(s) # 0, Flattens(s, b),
         NEW t \in Seq(Seq(Byte)), NEW x \in Seq(Byte), t = Append(s, x)
  PROVE  Flattens(t, b \o x)
<1>1. PICK m \in Nat \ {0} : m = Len(s)
  OBVIOUS
<1>2. Len(t) = m + 1 /\ t[m + 1] = x /\ \A k \in 1 .. m : t[k] = s[k]
  BY <1>1
<1>3. ASSUME NEW k \in 1 .. m + 1
      PROVE  /\ k # m + 1 => k \in 1 .. m
             /\ k # 1 => k - 1 \in 1 .. m /\ k - 1 # m + 1 /\ k - 1 \in 1 .. m + 1
  OBVIOUS
<1>4. \E f : IsFlat(f, t)
  <2>1. PICK f : f = [i \in 1 .. m |-> IF i = 1 THEN s[i] ELSE f[i - 1] \o s[i]]
    BY <1>1 DEF Flattens, IsFlat
  <2> DEFINE g == [i \in 1 .. m + 1 |-> IF i = m + 1 THEN f[m] \o x ELSE f[i]]
  <2>2. ASSUME NEW i \in 1 .. m + 1
        PROVE  g[i] = IF i = 1 THEN t[i] ELSE g[i - 1] \o t[i]
    <3>1. CASE i = m + 1
      <4>1. i # 1 /\ i - 1 = m /\ m # m + 1 /\ m \in 1 .. m + 1
        BY <3>1
      <4>2. g[m] = f[m] /\ g[i] = f[m] \o x
        BY <3>1, <4>1
      <4> HIDE DEF g
      <4> QED  BY <1>2, <3>1, <4>1, <4>2
    <3>2. CASE i # m + 1
      <4>1. i \in 1 .. m /\ g[i] = f[i] /\ t[i] = s[i]
        BY <1>2, <1>3, <3>2
      <4>2. i # 1 => g[i - 1] = f[i - 1]
        BY <1>3
      <4> HIDE DEF g
      <4> QED  BY <2>1, <4>1, <4>2
    <3> QED  BY <3>1, <3>2
  <2>3. g = [i \in 1 .. m + 1 |-> IF i = 1 THEN t[i] ELSE g[i - 1] \o t[i]]
    <3>1. g = [i \in 1 .. m + 1 |-> g[i]]
      OBVIOUS
    <3> HIDE DEF g
    <3> QED  BY <2>2, <3>1
  <2> HIDE DEF g
  <2> QED  BY <1>2, <2>3 DEF IsFlat
<1>5. ASSUME NEW g, IsFlat(g, t)
      PROVE  g[Len(t)] = b \o x
  <2>1. \A i \in 1 .. m + 1 : g[i] = IF i = 1 THEN t[i] ELSE g[i - 1] \o t[i]
    BY <1>2, <1>5 DEF IsFlat
  <2> DEFINE f == [i \in 1 .. m |-> g[i]]
  <2>2. ASSUME NEW i \in 1 .. m
        PROVE  f[i] = IF i = 1 THEN s[i] ELSE f[i - 1] \o s[i]
    <3>1. i \in 1 .. m + 1 /\ (i # 1 => i - 1 \in 1 .. m) /\ f[i] = g[i] /\ t[i] = s[i]
      BY <1>2
    <3>2. i # 1 => f[i - 1] = g[i - 1]
      BY <3>1
    <3> HIDE DEF f
    <3> QED  BY <2>1, <3>1, <3>2
  <2>3. f = [i \in 1 .. m |-> f[i]]
    OBVIOUS
  <2>4. f[m] = g[m]
    BY <1>1
  <2> HIDE DEF f
  <2>5. IsFlat(f, s)
    BY <1>1, <2>2, <2>3 DEF IsFlat
  <2>6. g[m] = b
    BY <1>1, <2>4, <2>5 DEF Flattens
  <2>7. m + 1 \in 1 .. m + 1 /\ m + 1 # 1 /\ (m + 1) - 1 = m
    BY <1>1
  <2> QED  BY <1>2, <2>1, <2>6, <2>7
<1> QED  BY <1>4, <1>5 DEF Flattens

LEMMA FlattensExist ==
  \A s \in Seq(Seq(Byte)) : Len(s) # 0 => \E b \in Seq(Byte) : Flattens(s, b)
<1> DEFINE S == {k \in Nat : \A s \in Seq(Seq(Byte)) :
                               Len(s) = k + 1 => \E b \in Seq(Byte) : Flattens(s, b)}
<1>1. 0 \in S
  <2>1. ASSUME NEW s \in Seq(Seq(Byte)), Len(s) = 1
        PROVE  \E b \in Seq(Byte) : Flattens(s, b)
    <3>1. s[1] \in Seq(Byte)
      BY <2>1
    <3> QED  BY <2>1, <3>1, FlattensOne
  <2> QED  BY <2>1
<1>2. ASSUME NEW k \in Nat, k \in S
      PROVE  k + 1 \in S
  <2>1. ASSUME NEW s \in Seq(Seq(Byte)), Len(s) = (k + 1) + 1
        PROVE  \E b \in Seq(Byte) : Flattens(s, b)
    <3>1. PICK f \in Seq(Seq(Byte)), x \in Seq(Byte) : f = SubSeq(s, 1, k + 1) /\ x = s[k + 2]
      <4>1. SubSeq(s, 1, k + 1) \in Seq(Seq(Byte)) /\ s[k + 2] \in Seq(Byte)
        BY <2>1
      <4> QED  BY <4>1, Zenon
    <3>2. Len(f) = k + 1 /\ s = Append(f, x)
      BY <2>1, <3>1
    <3>3. PICK b \in Seq(Byte) : Flattens(f, b)
      BY <1>2, <3>2
    <3>4. b \o x \in Seq(Byte) /\ Len(f) # 0
      BY <3>2
    <3> QED  BY <3>2, <3>3, <3>4, FlattensAppend
  <2> QED  BY <2>1
<1> HIDE DEF S
<1>3. \A k \in Nat : k \in S
  BY <1>1, <1>2, AllNumbers
<1>4. \A s \in Seq(Seq(Byte)) : Len(s) # 0 => Len(s) - 1 \in S
  BY <1>3
<1>5. \A s \in Seq(Seq(Byte)) : Len(s) # 0 => Len(s) = (Len(s) - 1) + 1
  OBVIOUS
<1> QED  BY <1>4, <1>5 DEF S

LEMMA FlattenFacts ==
  ASSUME NEW s \in Seq(Seq(Byte)), NEW x \in Seq(Byte), NEW t \in Seq(Seq(Byte)), t = Append(s, x)
  PROVE  FlattenSeq(s) \in Seq(Byte) /\ FlattenSeq(t) = FlattenSeq(s) \o x
<1>1. CASE Len(s) = 0
  <2>1. s = <<>>
    BY <1>1
  <2>2. FlattenSeq(s) = <<>>
    BY <1>1, <2>1 DEF FlattenSeq
  <2>3. Len(t) = 1 /\ t[1] = x /\ Len(t) # 0
    BY <2>1
  <2>4. Flattens(t, x)
    BY <2>3, FlattensOne
  <2>5. FlattenSeq(t) = x
    BY <2>3, <2>4, FlattensIs
  <2>6. <<>> \in Seq(Byte) /\ <<>> \o x = x
    OBVIOUS
  <2> QED  BY <2>2, <2>5, <2>6
<1>2. CASE Len(s) # 0
  <2>1. PICK b \in Seq(Byte) : Flattens(s, b)
    BY <1>2, FlattensExist
  <2>2. Len(t) # 0
    OBVIOUS
  <2>3. Flattens(t, b \o x)
    BY <1>2, <2>1, FlattensAppend
  <2>4. FlattenSeq(s) = b
    BY <1>2, <2>1, FlattensIs
  <2>5. FlattenSeq(t) = b \o x
    BY <2>2, <2>3, FlattensIs
  <2> QED  BY <2>4, <2>5
<1> QED  BY <1>1, <1>2

-----------------------------------------------------------------------------
(* Where an option is in the bytes.                                        *)

Joined(list, n) == FlattenSeq([k \in 1 .. n |-> Block(list[k])])

(* Option o is in the bytes B behind the first off ones.                   *)
LiesAt(B, off, o) ==
  /\ off + 2 + Len(o.data) <= Len(B)
  /\ B[off + 1] = o.code /\ B[off + 2] = Len(o.data)
  /\ \A j \in 1 .. Len(o.data) : B[off + 2 + j] = o.data[j]

LEMMA OptionTypes ==
  ASSUME NEW o \in Options
  PROVE  /\ o.code \in 1 .. 254 /\ o.code \in Byte /\ o.data \in Seq(Byte)
         /\ Len(o.data) \in 1 .. 255 /\ Len(o.data) \in Byte
<1>1. o.code \in 1 .. 254
  BY ApAssumption, Zenon
<1>2. o.data \in Seq(Byte)
  BY ApAssumption, Zenon DEF Byte
<1>3. Len(o.data) \in 1 .. 255
  BY ApAssumption, Zenon
<1>4. \A n \in 1 .. 255 : n \in Byte
  BY DEF Byte
<1>5. \A n \in 1 .. 254 : n \in Byte
  BY DEF Byte
<1>6. Len(o.data) \in Byte
  BY <1>3, <1>4, Zenon
<1>7. o.code \in Byte
  BY <1>1, <1>5, Zenon
<1> QED  BY <1>1, <1>2, <1>3, <1>6, <1>7, Zenon

LEMMA OptionLength ==
  ASSUME NEW o \in Options
  PROVE  Len(o.data) \in Nat
<1>1. Byte \subseteq Nat
  BY DEF Byte
<1> QED  BY <1>1, OptionTypes, Zenon

LEMMA BlockFacts ==
  ASSUME NEW o \in Options
  PROVE  /\ Block(o) \in Seq(Byte) /\ Len(Block(o)) = 2 + Len(o.data)
         /\ LiesAt(Block(o), 0, o)
<1>1. PICK d \in Seq(Byte), c \in Byte, n \in Byte : d = o.data /\ c = o.code /\ n = Len(d)
  <2>1. o.data \in Seq(Byte) /\ o.code \in Byte /\ Len(o.data) \in Byte
    BY OptionTypes, Zenon
  <2> QED  BY <2>1, Zenon
<1>2. <<c, n>> \in Seq(Byte)
  OBVIOUS
<1>3. Block(o) = <<c, n>> \o d
  BY <1>1 DEF Block
<1>4. Block(o) \in Seq(Byte) /\ Len(Block(o)) = 2 + Len(d)
  BY <1>2, <1>3
<1>5. Block(o)[1] = c /\ Block(o)[2] = n /\ \A j \in 1 .. Len(d) : Block(o)[2 + j] = d[j]
  BY <1>2, <1>3
<1> QED  BY <1>1, <1>4, <1>5 DEF LiesAt

LEMMA LiesStill ==
  ASSUME NEW o \in Options, NEW B \in Seq(Byte), NEW c \in Seq(Byte), NEW off \in Nat,
         LiesAt(B, off, o)
  PROVE  LiesAt(B \o c, off, o)
<1>1. PICK d \in Seq(Byte) : d = o.data
  BY OptionTypes, Zenon
<1>2. off + 2 + Len(d) <= Len(B)
  BY <1>1 DEF LiesAt
<1>3. \A i \in 1 .. Len(B) : (B \o c)[i] = B[i]
  OBVIOUS
<1>4. off + 1 \in 1 .. Len(B) /\ off + 2 \in 1 .. Len(B)
      /\ \A j \in 1 .. Len(d) : off + 2 + j \in 1 .. Len(B)
  BY <1>2
<1>5. off + 2 + Len(d) <= Len(B \o c)
  BY <1>2
<1> QED  BY <1>1, <1>3, <1>4, <1>5 DEF LiesAt

LEMMA LiesBehind ==
  ASSUME NEW o \in Options, NEW B \in Seq(Byte)
  PROVE  LiesAt(B \o Block(o), Len(B), o)
<1>1. PICK c \in Seq(Byte) : c = Block(o)
  BY BlockFacts, Zenon
<1>2. PICK d \in Seq(Byte), n \in Nat, q \in 1 .. 254 : d = o.data /\ n = Len(B) /\ q = o.code
  <2>1. o.data \in Seq(Byte) /\ o.code \in 1 .. 254
    BY OptionTypes
  <2>2. Len(B) \in Nat
    OBVIOUS
  <2> QED  BY <2>1, <2>2, Zenon
<1>3. /\ Len(c) = 2 + Len(d) /\ c[1] = q /\ c[2] = Len(d)
      /\ \A j \in 1 .. Len(d) : c[0 + 2 + j] = d[j]
  BY <1>1, <1>2, BlockFacts DEF LiesAt
<1>4. \A j \in 1 .. Len(c) : (B \o c)[n + j] = c[j]
  BY <1>2
<1>5. Len(d) \in Nat /\ Len(c) = 2 + Len(d) /\ Len(B \o c) = n + Len(c)
  <2>1. Len(B \o c) = Len(B) + Len(c) /\ Len(d) \in Nat
    OBVIOUS
  <2>2. Len(c) = 2 + Len(d)
    BY <1>3
  <2>3. Len(B) + Len(c) = n + Len(c)
    BY <1>2
  <2> QED  BY <2>1, <2>2, <2>3
<1>6. 1 \in 1 .. Len(c) /\ 2 \in 1 .. Len(c) /\ n + 2 + Len(d) <= Len(B \o c)
  BY <1>5
<1>7. ASSUME NEW j \in 1 .. Len(d)
      PROVE  (B \o c)[n + 2 + j] = d[j]
  <2>1. 2 + j \in 1 .. Len(c) /\ n + (2 + j) = n + 2 + j /\ 0 + 2 + j = 2 + j
    BY <1>3
  <2> QED  BY <1>3, <1>4, <2>1
<1>8. (B \o c)[n + 1] = q /\ (B \o c)[n + 2] = Len(d)
  BY <1>3, <1>4, <1>6
<1> QED  BY <1>1, <1>2, <1>6, <1>7, <1>8 DEF LiesAt

(* The first n options are laid out one behind the other.                  *)
LaidOut(list, n) ==
  /\ Joined(list, n) \in Seq(Byte)
  /\ Offset(list, n) \in Nat /\ Len(Joined(list, n)) = Offset(list, n)
  /\ \A k \in 1 .. n :
       /\ Offset(list, k - 1) \in Nat
       /\ Offset(list, k) = Offset(list, k - 1) + 2 + Len(list[k].data)
       /\ LiesAt(Joined(list, n), Offset(list, k - 1), list[k])

LEMMA LaidOutNone ==
  ASSUME NEW list \in Seq(Options)
  PROVE  LaidOut(list, 0)
<1>1. [k \in 1 .. 0 |-> Block(list[k])] = <<>> /\ [k \in 1 .. 0 |-> 2 + Len(list[k].data)] = <<>>
  OBVIOUS
<1>2. Joined(list, 0) = <<>>
  BY <1>1 DEF Joined, FlattenSeq
<1>3. Offset(list, 0) = 0
  BY <1>1, TotalFacts DEF Offset
<1>4. <<>> \in Seq(Byte) /\ Len(<<>>) = 0 /\ 0 \in Nat /\ \A k \in 1 .. 0 : FALSE
  OBVIOUS
<1>5. Joined(list, 0) \in Seq(Byte) /\ Len(Joined(list, 0)) = Offset(list, 0)
      /\ Offset(list, 0) \in Nat
  BY <1>2, <1>3, <1>4
<1> QED  BY <1>4, <1>5, Zenon DEF LaidOut

LEMMA OneMore ==
  ASSUME NEW list \in Seq(Options), NEW n \in Nat, n + 1 <= Len(list), LaidOut(list, n)
  PROVE  /\ Joined(list, n + 1) = Joined(list, n) \o Block(list[n + 1])
         /\ Offset(list, n + 1) = Offset(list, n) + 2 + Len(list[n + 1].data)
<1>1. \A k \in 1 .. n + 1 : list[k] \in Options
  OBVIOUS
<1>2. \A k \in 1 .. n + 1 : Block(list[k]) \in Seq(Byte) /\ 2 + Len(list[k].data) \in Nat
  <2> TAKE k \in 1 .. n + 1
  <2>1. PICK w \in Nat : w = Len(list[k].data)
    BY <1>1, OptionLength, Zenon
  <2>2. 2 + Len(list[k].data) = 2 + w
    BY <2>1, Zenon
  <2>3. 2 + w \in Nat
    OBVIOUS
  <2>4. Block(list[k]) \in Seq(Byte)
    BY <1>1, BlockFacts, Zenon
  <2> QED  BY <2>2, <2>3, <2>4, Zenon
<1> DEFINE b == [k \in 1 .. n |-> Block(list[k])]
           c == [k \in 1 .. n + 1 |-> Block(list[k])]
           d == [k \in 1 .. n |-> 2 + Len(list[k].data)]
           e == [k \in 1 .. n + 1 |-> 2 + Len(list[k].data)]
<1>3. b \in [1 .. n -> Seq(Byte)] /\ c \in [1 .. n + 1 -> Seq(Byte)]
  BY <1>2
<1>4. d \in [1 .. n -> Nat] /\ e \in [1 .. n + 1 -> Nat]
  BY <1>2
<1>5. /\ \A k \in 1 .. n : c[k] = b[k] /\ e[k] = d[k]
      /\ c[n + 1] = Block(list[n + 1]) /\ e[n + 1] = 2 + Len(list[n + 1].data)
  OBVIOUS
<1>6. Joined(list, n) = FlattenSeq(b) /\ Joined(list, n + 1) = FlattenSeq(c)
      /\ Offset(list, n) = Total(d) /\ Offset(list, n + 1) = Total(e)
  BY DEF Joined, Offset
<1>7. Block(list[n + 1]) \in Seq(Byte) /\ 2 + Len(list[n + 1].data) \in Nat
  BY <1>2
<1> HIDE DEF b, c, d, e
<1>8. PICK x \in Seq(Byte), y \in Nat : x = Block(list[n + 1]) /\ y = 2 + Len(list[n + 1].data)
  BY <1>7, Zenon
<1>9. b \in Seq(Seq(Byte)) /\ c \in Seq(Seq(Byte)) /\ Len(b) = n /\ Len(c) = n + 1
  BY <1>3
<1>10. d \in Seq(Nat) /\ e \in Seq(Nat) /\ Len(d) = n /\ Len(e) = n + 1
  BY <1>4
<1>11. c = Append(b, x)
  <2>1. c[n + 1] = x /\ \A k \in 1 .. n : c[k] = b[k]
    BY <1>5, <1>8
  <2> QED  BY <1>9, <2>1
<1>12. e = Append(d, y)
  <2>1. e[n + 1] = y /\ \A k \in 1 .. n : e[k] = d[k]
    BY <1>5, <1>8
  <2> QED  BY <1>10, <2>1
<1>13. FlattenSeq(c) = FlattenSeq(b) \o x
  BY <1>9, <1>11, FlattenFacts
<1>14. Total(d) \in Nat /\ Total(e) = Total(d) + y
  BY <1>10, <1>12, TotalFacts
<1>15. PICK w \in Nat : w = Len(list[n + 1].data) /\ y = 2 + w
  <2>1. list[n + 1] \in Options
    BY <1>1
  <2>2. Len(list[n + 1].data) \in Nat
    BY <2>1, OptionLength, Zenon
  <2> QED  BY <1>8, <2>2
<1>16. PICK p \in Nat : p = Total(d)
  BY <1>14, Zenon
<1>17. Total(e) = p + y
  BY <1>14, <1>16, Zenon
<1>18. p + y = p + 2 + w
  <2>1. y = 2 + w
    BY <1>15, Zenon
  <2> QED  BY <2>1
<1>19. Joined(list, n + 1) = Joined(list, n) \o Block(list[n + 1])
  BY <1>6, <1>8, <1>13, Zenon
<1>20. Offset(list, n + 1) = Offset(list, n) + 2 + Len(list[n + 1].data)
  BY <1>6, <1>15, <1>16, <1>17, <1>18, Zenon
<1> QED  BY <1>19, <1>20, Zenon

LEMMA LaidOutNext ==
  ASSUME NEW list \in Seq(Options), NEW n \in Nat, n + 1 <= Len(list), LaidOut(list, n)
  PROVE  LaidOut(list, n + 1)
<1>1. list[n + 1] \in Options
  OBVIOUS
<1>2. PICK o \in Options, B \in Seq(Byte), x \in Seq(Byte), off \in Nat :
        o = list[n + 1] /\ B = Joined(list, n) /\ x = Block(o) /\ off = Offset(list, n)
  BY <1>1, BlockFacts, Zenon DEF LaidOut
<1>3. Joined(list, n + 1) = B \o x /\ Offset(list, n + 1) = off + 2 + Len(o.data)
  BY <1>2, OneMore
<1>w. PICK w \in Nat : w = Len(o.data)
  BY OptionLength, Zenon
<1>4. Len(x) = 2 + w /\ Len(B) = off
  BY <1>2, <1>w, BlockFacts DEF LaidOut
<1>5. B \o x \in Seq(Byte) /\ Len(B \o x) = off + 2 + w
  <2>1. B \o x \in Seq(Byte) /\ Len(B \o x) = Len(B) + Len(x)
    OBVIOUS
  <2>2. Len(B) + Len(x) = off + 2 + w
    BY <1>4
  <2> QED  BY <2>1, <2>2
<1>6. LiesAt(B \o x, off, o)
  BY <1>2, <1>4, LiesBehind
<1>7. ASSUME NEW k \in 1 .. n + 1
      PROVE  /\ Offset(list, k - 1) \in Nat
             /\ Offset(list, k) = Offset(list, k - 1) + 2 + Len(list[k].data)
             /\ LiesAt(B \o x, Offset(list, k - 1), list[k])
  <2>1. CASE k = n + 1
    <3>1. k - 1 = n
      BY <2>1
    <3> QED  BY <1>2, <1>3, <1>6, <2>1, <3>1
  <2>2. CASE k # n + 1
    <3>1. k \in 1 .. n /\ list[k] \in Options
      BY <2>2
    <3>2. /\ Offset(list, k - 1) \in Nat
          /\ Offset(list, k) = Offset(list, k - 1) + 2 + Len(list[k].data)
          /\ LiesAt(B, Offset(list, k - 1), list[k])
      BY <1>2, <3>1 DEF LaidOut
    <3> QED  BY <3>1, <3>2, LiesStill
  <2> QED  BY <2>1, <2>2
<1>8. off + 2 + w \in Nat
  OBVIOUS
<1> QED  BY <1>3, <1>w, <1>5, <1>7, <1>8 DEF LaidOut

LEMMA Layout == \A list \in Seq(Options) : LaidOut(list, Len(list))
<1> SUFFICES ASSUME NEW list \in Seq(Options)
             PROVE  LaidOut(list, Len(list))
  OBVIOUS
<1> DEFINE S == {n \in Nat : n <= Len(list) => LaidOut(list, n)}
<1>1. 0 \in S
  BY LaidOutNone
<1>2. ASSUME NEW n \in Nat, n \in S
      PROVE  n + 1 \in S
  BY <1>2, LaidOutNext
<1> HIDE DEF S
<1>3. Len(list) \in S
  BY <1>1, <1>2, AllNumbers
<1> QED  BY <1>3 DEF S

(* The bytes of a message, with DHCP_OPT_END behind the options.           *)
LEMMA BytesFacts ==
  ASSUME NEW list \in Seq(Options)
  PROVE  /\ Bytes(list) \in Seq(Byte) /\ Len(Bytes(list)) = Offset(list, Len(list)) + 1
         /\ Offset(list, Len(list)) \in Nat
         /\ Bytes(list)[Offset(list, Len(list)) + 1] = DHCP_OPT_END
         /\ \A k \in 1 .. Len(list) :
              /\ Offset(list, k - 1) \in Nat
              /\ Offset(list, k) = Offset(list, k - 1) + 2 + Len(list[k].data)
              /\ LiesAt(Bytes(list), Offset(list, k - 1), list[k])
<1>1. LaidOut(list, Len(list))
  BY Layout
<1>2. PICK B \in Seq(Byte), e \in Seq(Byte), off \in Nat :
        B = Joined(list, Len(list)) /\ e = <<DHCP_OPT_END>> /\ off = Offset(list, Len(list))
  <2>1. <<DHCP_OPT_END>> \in Seq(Byte)
    BY DEF Byte, DHCP_OPT_END
  <2> QED  BY <1>1, <2>1, Zenon DEF LaidOut
<1>3. Bytes(list) = B \o e
  <2>1. DOMAIN list = 1 .. Len(list)
    OBVIOUS
  <2> QED  BY <1>2, <2>1 DEF Bytes, Joined
<1>4. Len(B) = off
  BY <1>1, <1>2 DEF LaidOut
<1>5. Len(e) = 1 /\ e[1] = 255 /\ 1 \in 1 .. Len(e)
  BY <1>2 DEF DHCP_OPT_END
<1>6. B \o e \in Seq(Byte) /\ Len(B \o e) = off + 1 /\ (B \o e)[off + 1] = DHCP_OPT_END
  <2>1. \A j \in 1 .. Len(e) : (B \o e)[Len(B) + j] = e[j]
    OBVIOUS
  <2>2. B \o e \in Seq(Byte) /\ Len(B \o e) = Len(B) + Len(e)
    OBVIOUS
  <2> QED  BY <1>4, <1>5, <2>1, <2>2 DEF DHCP_OPT_END
<1>7. ASSUME NEW k \in 1 .. Len(list)
      PROVE  /\ Offset(list, k - 1) \in Nat
             /\ Offset(list, k) = Offset(list, k - 1) + 2 + Len(list[k].data)
             /\ LiesAt(B \o e, Offset(list, k - 1), list[k])
  <2>1. list[k] \in Options
    OBVIOUS
  <2>2. /\ Offset(list, k - 1) \in Nat
        /\ Offset(list, k) = Offset(list, k - 1) + 2 + Len(list[k].data)
        /\ LiesAt(B, Offset(list, k - 1), list[k])
    BY <1>1, <1>2 DEF LaidOut
  <2> QED  BY <2>1, <2>2, LiesStill
<1> QED  BY <1>2, <1>3, <1>6, <1>7

-----------------------------------------------------------------------------
(* opt_find.                                                               *)

(* A walk that only goes forward, and what it ends with from each place.   *)
Forward(nxt, D, M) == \A i \in 0 .. M : i \notin D => nxt[i] \in i + 1 .. M

EndsWith(g, D, val, nxt, M) == \A i \in 0 .. M : g[i] = IF i \in D THEN val[i] ELSE g[nxt[i]]

LEMMA ForwardWalk ==
  ASSUME NEW M \in Nat, NEW D, NEW val, NEW nxt, Forward(nxt, D, M)
  PROVE  \E g : EndsWith(g, D, val, nxt, M)
<1> DEFINE Ends(g, i) == g[i] = IF i \in D THEN val[i] ELSE g[nxt[i]]
           S == {d \in Nat : d <= M => \E g : \A i \in M - d .. M : Ends(g, i)}
<1>1. 0 \in S
  <2>1. M \in 0 .. M /\ \A x : x \notin M + 1 .. M
    OBVIOUS
  <2>2. M \in D
    BY <2>1 DEF Forward
  <2>3. \A i \in M - 0 .. M : i = M
    OBVIOUS
  <2>4. \A i \in M - 0 .. M : Ends(val, i)
    BY <2>2, <2>3
  <2> HIDE DEF Ends
  <2> QED  BY <2>4
<1>2. ASSUME NEW d \in Nat, d \in S
      PROVE  d + 1 \in S
  <2> SUFFICES ASSUME d + 1 <= M
               PROVE  \E g : \A i \in M - (d + 1) .. M : Ends(g, i)
    BY DEF S
  <2>1. PICK m \in Nat : m = M - (d + 1) /\ m + 1 = M - d /\ m \in 0 .. M
    OBVIOUS
  <2>2. PICK g : \A i \in m + 1 .. M : Ends(g, i)
    BY <1>2, <2>1
  <2> DEFINE h == [i \in 0 .. M |->
                     IF i = m THEN (IF i \in D THEN val[i] ELSE g[nxt[i]]) ELSE g[i]]
  <2>3. ASSUME NEW i \in m .. M
        PROVE  Ends(h, i)
    <3>1. i \in 0 .. M
      BY <2>1
    <3>2. CASE i \in D
      <4>1. i # m => i \in m + 1 .. M
        OBVIOUS
      <4>2. i # m => g[i] = val[i]
        BY <2>2, <3>2, <4>1
      <4>3. h[i] = val[i]
        BY <3>1, <3>2, <4>2
      <4> QED  BY <3>2, <4>3
    <3>3. CASE i \notin D
      <4>1. nxt[i] \in i + 1 .. M
        BY <3>1, <3>3 DEF Forward
      <4>2. nxt[i] # m /\ nxt[i] \in 0 .. M
        BY <3>1, <4>1
      <4>3. h[nxt[i]] = g[nxt[i]]
        BY <4>2
      <4>4. i # m => i \in m + 1 .. M
        OBVIOUS
      <4>5. i # m => g[i] = g[nxt[i]]
        BY <2>2, <3>3, <4>4
      <4>6. h[i] = g[nxt[i]]
        BY <3>1, <3>3, <4>5
      <4> QED  BY <3>3, <4>3, <4>6
    <3> QED  BY <3>2, <3>3
  <2> HIDE DEF h, Ends
  <2> QED  BY <2>1, <2>3
<1> HIDE DEF S
<1>3. M \in S
  BY <1>1, <1>2, AllNumbers
<1>4. M <= M /\ M - M = 0
  OBVIOUS
<1> QED  BY <1>3, <1>4 DEF S, EndsWith

(* Function f is From of opt_find.                                         *)
IsWalk(f, bytes, cmd) ==
  f = [i \in 0 .. OptSize + 257 |->
         IF i >= OptSize \/ At(bytes, i) = DHCP_OPT_END THEN NotFound
         ELSE IF At(bytes, i) = cmd THEN i
         ELSE f[i + 2 + At(bytes, i + 1)]]

LEMMA ByteAt ==
  ASSUME NEW bytes \in Seq(Byte), NEW i \in Nat
  PROVE  At(bytes, i) \in 0 .. 255
<1>1. CASE i < Len(bytes)
  <2>1. i + 1 \in 1 .. Len(bytes)
    BY <1>1
  <2>2. bytes[i + 1] \in Byte
    BY <2>1
  <2> QED  BY <1>1, <2>2 DEF At, Byte
<1>2. CASE ~(i < Len(bytes))
  BY <1>2 DEF At, DHCP_OPT_END
<1> QED  BY <1>1, <1>2

LEMMA WalkExists ==
  ASSUME NEW bytes \in Seq(Byte), NEW cmd
  PROVE  \E f : IsWalk(f, bytes, cmd)
<1>1. PICK M \in Nat : M = OptSize + 257
  BY SizeFacts
<1> DEFINE Stops(i) == i >= OptSize \/ At(bytes, i) = DHCP_OPT_END
           D == {i \in 0 .. M : Stops(i) \/ At(bytes, i) = cmd}
           val == [i \in 0 .. M |-> IF Stops(i) THEN NotFound ELSE i]
           nxt == [i \in 0 .. M |-> i + 2 + At(bytes, i + 1)]
<1>2. ASSUME NEW i \in 0 .. M, i \notin D
      PROVE  nxt[i] \in i + 1 .. M
  <2>1. ~(i >= OptSize)
    BY <1>2
  <2>2. PICK a \in 0 .. 255 : a = At(bytes, i + 1)
    <3>1. i + 1 \in Nat
      OBVIOUS
    <3>2. At(bytes, i + 1) \in 0 .. 255
      BY <3>1, ByteAt
    <3> QED  BY <3>2, Zenon
  <2>3. nxt[i] = i + 2 + a
    BY <2>2
  <2>4. OptSize \in Nat
    BY SizeFacts, Zenon
  <2> HIDE DEF nxt, D
  <2> QED  BY <1>1, <2>1, <2>3, <2>4
<1>3. PICK g : EndsWith(g, D, val, nxt, M)
  <2>1. Forward(nxt, D, M)
    BY <1>2 DEF Forward
  <2> HIDE DEF D, val, nxt
  <2> QED  BY <2>1, ForwardWalk
<1> DEFINE f == [i \in 0 .. M |-> g[i]]
<1>4. ASSUME NEW i \in 0 .. M
      PROVE  f[i] = IF Stops(i) THEN NotFound
                    ELSE IF At(bytes, i) = cmd THEN i ELSE f[i + 2 + At(bytes, i + 1)]
  <2>1. CASE i \in D
    <3>1. f[i] = val[i]
      BY <1>3, <2>1 DEF EndsWith
    <3> QED  BY <2>1, <3>1
  <2>2. CASE i \notin D
    <3>1. f[i] = g[nxt[i]]
      BY <1>3, <2>2 DEF EndsWith
    <3>2. nxt[i] \in i + 1 .. M
      BY <1>2, <2>2
    <3>3. nxt[i] \in 0 .. M
      <4> HIDE DEF nxt
      <4> QED  BY <3>2
    <3>4. f[nxt[i]] = g[nxt[i]]
      <4> HIDE DEF nxt
      <4> QED  BY <3>3
    <3>5. nxt[i] = i + 2 + At(bytes, i + 1) /\ ~Stops(i) /\ At(bytes, i) # cmd
      BY <2>2
    <3> HIDE DEF f, nxt, Stops
    <3> QED  BY <3>1, <3>4, <3>5
  <2> QED  BY <2>1, <2>2
<1>5. f = [i \in 0 .. M |-> f[i]]
  OBVIOUS
<1> HIDE DEF f
<1>6. f = [i \in 0 .. M |-> IF Stops(i) THEN NotFound
                            ELSE IF At(bytes, i) = cmd THEN i ELSE f[i + 2 + At(bytes, i + 1)]]
  <2> HIDE DEF Stops
  <2> QED  BY <1>4, <1>5
<1> QED  BY <1>1, <1>6 DEF IsWalk

LEMMA FindWalks ==
  ASSUME NEW bytes \in Seq(Byte), NEW cmd
  PROVE  \E f : IsWalk(f, bytes, cmd) /\ opt_find(bytes, cmd) = f[0]
<1> DEFINE F == CHOOSE f : IsWalk(f, bytes, cmd)
<1>1. IsWalk(F, bytes, cmd)
  BY WalkExists
<1>2. opt_find(bytes, cmd) = F[0]
  BY DEF opt_find, IsWalk
<1> HIDE DEF F
<1> QED  BY <1>1, <1>2

(* What the walk sees of the options of a message that fits.               *)
Walked(f, list, cmd) ==
  /\ \A k \in 1 .. Len(list) :
       f[Offset(list, k - 1)] = IF list[k].code = cmd THEN Offset(list, k - 1)
                                ELSE f[Offset(list, k)]
  /\ f[Offset(list, Len(list))] = NotFound

LEMMA WalkFacts ==
  ASSUME NEW list \in Seq(Options), Len(Bytes(list)) <= OptSize, NEW cmd \in 1 .. 254,
         NEW f, IsWalk(f, Bytes(list), cmd)
  PROVE  Walked(f, list, cmd)
<1>1. PICK B \in Seq(Byte), size \in Nat, N \in Nat : B = Bytes(list) /\ N = Len(list) /\ size = OptSize
  <2>1. Bytes(list) \in Seq(Byte)
    BY BytesFacts, Zenon
  <2>2. OptSize \in Nat
    BY SizeFacts, Zenon
  <2>3. Len(list) \in Nat
    OBVIOUS
  <2> QED  BY <2>1, <2>2, <2>3, Zenon
<1>2. ASSUME NEW i \in 0 .. size
      PROVE  f[i] = IF i >= size \/ At(B, i) = 255 THEN NotFound
                    ELSE IF At(B, i) = cmd THEN i
                    ELSE f[i + 2 + At(B, i + 1)]
  <2>1. i \in 0 .. OptSize + 257
    BY <1>1
  <2>2. f[i] = IF i >= OptSize \/ At(Bytes(list), i) = DHCP_OPT_END THEN NotFound
               ELSE IF At(Bytes(list), i) = cmd THEN i
               ELSE f[i + 2 + At(Bytes(list), i + 1)]
    BY <2>1 DEF IsWalk
  <2> QED  BY <1>1, <2>2 DEF DHCP_OPT_END
<1>3. Len(B) <= size
  BY <1>1
<1>4. ASSUME NEW k \in 1 .. N
      PROVE  f[Offset(list, k - 1)] = IF list[k].code = cmd THEN Offset(list, k - 1)
                                      ELSE f[Offset(list, k)]
  <2>1. list[k] \in Options
    BY <1>1
  <2>2. list[k].code \in 1 .. 254 /\ Len(list[k].data) \in 1 .. 255
    BY <2>1, OptionTypes
  <2>3. /\ Offset(list, k - 1) \in Nat
        /\ Offset(list, k) = Offset(list, k - 1) + 2 + Len(list[k].data)
        /\ LiesAt(B, Offset(list, k - 1), list[k])
    BY <1>1, BytesFacts
  <2>4. PICK off \in Nat, c \in 1 .. 254, w \in 1 .. 255 :
          off = Offset(list, k - 1) /\ c = list[k].code /\ w = Len(list[k].data)
    BY <2>2, <2>3, Zenon
  <2>5. off + 2 + w <= Len(B) /\ B[off + 1] = c /\ B[off + 2] = w
    BY <2>3, <2>4 DEF LiesAt
  <2>6. At(B, off) = c /\ At(B, off + 1) = w
    <3>1. off < Len(B) /\ off + 1 < Len(B) /\ (off + 1) + 1 = off + 2
      BY <2>5
    <3> QED  BY <2>5, <3>1 DEF At
  <2>7. off \in 0 .. size /\ ~(off >= size) /\ c # 255
    <3>1. off + 2 + w <= Len(B)
      BY <2>5
    <3> QED  BY <1>3, <3>1
  <2>8. f[off] = IF c = cmd THEN off ELSE f[off + 2 + w]
    BY <1>2, <2>6, <2>7
  <2>9. Offset(list, k) = off + 2 + w
    BY <2>3, <2>4
  <2> QED  BY <2>4, <2>8, <2>9
<1>5. f[Offset(list, N)] = NotFound
  <2>1. PICK off \in Nat : off = Offset(list, N)
    BY <1>1, BytesFacts
  <2>2. Len(B) = off + 1 /\ B[off + 1] = 255
    BY <1>1, <2>1, BytesFacts DEF DHCP_OPT_END
  <2>3. off < Len(B) /\ off \in 0 .. size
    BY <1>3, <2>2
  <2>4. At(B, off) = 255
    BY <2>2, <2>3 DEF At
  <2> QED  BY <1>2, <2>1, <2>3, <2>4
<1> QED  BY <1>1, <1>4, <1>5 DEF Walked

(* Options of another code are passed over.                                *)
LEMMA PassedOver ==
  ASSUME NEW list \in Seq(Options), Len(Bytes(list)) <= OptSize, NEW cmd \in 1 .. 254,
         NEW f, Walked(f, list, cmd)
  PROVE  \A n \in 0 .. Len(list) :
           (\A k \in 1 .. n : list[k].code # cmd) => f[0] = f[Offset(list, n)]
<1> DEFINE S == {n \in Nat : n <= Len(list) /\ (\A k \in 1 .. n : list[k].code # cmd)
                               => f[0] = f[Offset(list, n)]}
<1>1. 0 \in S
  <2>1. [k \in 1 .. 0 |-> 2 + Len(list[k].data)] = <<>>
    OBVIOUS
  <2>2. Offset(list, 0) = 0
    BY <2>1, TotalFacts DEF Offset
  <2> QED  BY <2>2
<1>2. ASSUME NEW n \in Nat, n \in S
      PROVE  n + 1 \in S
  <2> SUFFICES ASSUME n + 1 <= Len(list), \A k \in 1 .. n + 1 : list[k].code # cmd
               PROVE  f[0] = f[Offset(list, n + 1)]
    BY DEF S
  <2>1. n + 1 \in 1 .. Len(list) /\ n + 1 \in 1 .. n + 1 /\ (n + 1) - 1 = n /\ n <= Len(list)
        /\ \A k \in 1 .. n : k \in 1 .. n + 1
    OBVIOUS
  <2>2. f[0] = f[Offset(list, n)]
    BY <1>2, <2>1
  <2>3. f[Offset(list, (n + 1) - 1)] = IF list[n + 1].code = cmd THEN Offset(list, (n + 1) - 1)
                                       ELSE f[Offset(list, n + 1)]
    BY <2>1 DEF Walked
  <2>4. list[n + 1].code # cmd
    BY <2>1
  <2> HIDE DEF S
  <2> QED  BY <2>1, <2>2, <2>3, <2>4
<1> HIDE DEF S
<1>3. \A n \in Nat : n \in S
  BY <1>1, <1>2, AllNumbers
<1>4. \A n \in 0 .. Len(list) : n \in Nat /\ n <= Len(list)
  OBVIOUS
<1> QED  BY <1>3, <1>4 DEF S

(* A set of numbers has a least one.                                       *)
LEMMA LeastNumber ==
  ASSUME NEW T, T \subseteq Nat, T # {}
  PROVE  \E x \in T : \A y \in T : ~(y < x)
<1>1. IsWellFoundedOn(OpToRel(<, Nat), Nat)
  BY NatLessThanWellFounded
<1>2. PICK x \in T : \A y \in T : ~ (<<y, x>> \in OpToRel(<, Nat))
  BY <1>1, WFMin
<1> QED  BY <1>2 DEF OpToRel

LEMMA FirstFacts ==
  ASSUME NEW list \in Seq(Options), NEW cmd, \E k \in 1 .. Len(list) : list[k].code = cmd
  PROVE  \E k \in 1 .. Len(list) :
           /\ list[k].code = cmd /\ \A i \in 1 .. k - 1 : list[i].code # cmd
           /\ FirstOption(list, cmd) = Offset(list, k - 1)
<1> DEFINE T == {k \in 1 .. Len(list) : list[k].code = cmd}
           First(j) == list[j].code = cmd /\ \A i \in 1 .. j - 1 : list[i].code # cmd
<1>1. PICK x \in T : \A y \in T : ~(y < x)
  <2>1. T \subseteq Nat /\ T # {}
    OBVIOUS
  <2> HIDE DEF T
  <2> QED  BY <2>1, LeastNumber
<1>2. \A i \in 1 .. x - 1 : i \in 1 .. Len(list) /\ i < x
  OBVIOUS
<1>3. x \in 1 .. Len(list) /\ First(x)
  BY <1>1, <1>2
<1>4. PICK k \in 1 .. Len(list) : k = CHOOSE j \in 1 .. Len(list) : First(j)
  <2>1. (CHOOSE j \in 1 .. Len(list) : First(j)) \in 1 .. Len(list)
    BY <1>3
  <2> QED  BY <2>1
<1>5. First(k)
  <2> HIDE DEF First
  <2> QED  BY <1>3, <1>4
<1>6. DOMAIN list = 1 .. Len(list)
  OBVIOUS
<1>7. FirstOption(list, cmd) = Offset(list, k - 1)
  BY <1>4, <1>6 DEF FirstOption
<1> QED  BY <1>5, <1>7

LEMMA FindsFirst ==
  ASSUME NEW list \in Seq(Options), Len(Bytes(list)) <= OptSize, NEW cmd \in 1 .. 254
  PROVE  opt_find(Bytes(list), cmd) = FirstOption(list, cmd)
<1>1. Bytes(list) \in Seq(Byte) /\ DOMAIN list = 1 .. Len(list)
  BY BytesFacts
<1>2. PICK f : IsWalk(f, Bytes(list), cmd) /\ opt_find(Bytes(list), cmd) = f[0]
  BY <1>1, FindWalks
<1>3. Walked(f, list, cmd)
  BY <1>2, WalkFacts
<1>4. \A n \in 0 .. Len(list) :
        (\A k \in 1 .. n : list[k].code # cmd) => f[0] = f[Offset(list, n)]
  BY <1>3, PassedOver
<1>5. CASE \E k \in 1 .. Len(list) : list[k].code = cmd
  <2>1. PICK k \in 1 .. Len(list) :
          /\ list[k].code = cmd /\ \A i \in 1 .. k - 1 : list[i].code # cmd
          /\ FirstOption(list, cmd) = Offset(list, k - 1)
    BY <1>5, FirstFacts
  <2>2. k - 1 \in 0 .. Len(list)
    OBVIOUS
  <2>3. f[0] = f[Offset(list, k - 1)]
    BY <1>4, <2>1, <2>2
  <2>4. f[Offset(list, k - 1)] = Offset(list, k - 1)
    BY <1>3, <2>1 DEF Walked
  <2> QED  BY <1>2, <2>1, <2>3, <2>4
<1>6. CASE ~ \E k \in 1 .. Len(list) : list[k].code = cmd
  <2>1. Len(list) \in 0 .. Len(list)
    OBVIOUS
  <2>2. f[0] = f[Offset(list, Len(list))]
    BY <1>4, <1>6, <2>1
  <2>3. f[Offset(list, Len(list))] = NotFound
    BY <1>3 DEF Walked
  <2>4. FirstOption(list, cmd) = NotFound
    BY <1>1, <1>6 DEF FirstOption
  <2> QED  BY <1>2, <2>2, <2>3, <2>4
<1> QED  BY <1>5, <1>6

-----------------------------------------------------------------------------
(* What the options of a message are answered with.                        *)

(* The address of an ACK is the one opt_find leads to, as a lease.         *)
AckInv ==
  LET o == opt_find(Bytes(opts), DHCP_OPT_REQUESTED_IP)
      yi == LeaseOf(At(Bytes(opts), o + 5))
  IN  dhcpAnswer.kind = "ack" =>
        /\ o # NotFound /\ yi \in 0 .. DHCPS_MAX_IP - 1
        /\ dhcpAnswer.yiaddr = DHCPS_BASE_IP + yi

OptsInv == Len(Bytes(opts)) <= OptSize /\ AckInv

LEMMA NoOptions == Len(Bytes(<<>>)) <= OptSize
<1>1. PICK list \in Seq(Options) : list = <<>>
  <2>1. <<>> \in Seq(Options)
    OBVIOUS
  <2> QED  BY <2>1, Zenon
<1>2. [k \in 1 .. 0 |-> 2 + Len(list[k].data)] = <<>>
  OBVIOUS
<1>3. Offset(list, 0) = 0
  BY <1>2, TotalFacts DEF Offset
<1>4. Len(Bytes(list)) = Offset(list, Len(list)) + 1
  BY BytesFacts
<1>5. Len(list) = 0
  BY <1>1
<1>6. Len(Bytes(list)) = 1
  BY <1>3, <1>4, <1>5
<1>7. Len(Bytes(<<>>)) = 1
  BY <1>1, <1>6, Zenon
<1>8. 1 <= OptSize
  BY SizeFacts, Zenon
<1> QED  BY <1>7, <1>8

LEMMA OptsInit == Init => OptsInv
<1> SUFFICES ASSUME Init
             PROVE  OptsInv
  OBVIOUS
<1>1. opts = <<>> /\ opts \in Seq(Options) /\ dhcpAnswer.kind # "ack"
  BY DEF Init, Ignored
<1> QED  BY <1>1, NoOptions DEF OptsInv, AckInv

LEMMA OptsStep == TypeOK /\ OptsInv /\ [Next]_vars => OptsInv'
<1> SUFFICES ASSUME TypeOK, OptsInv, [Next]_vars
             PROVE  OptsInv'
  OBVIOUS
<1>1. CASE UNCHANGED <<opts, dhcpAnswer>>
  BY <1>1 DEF OptsInv, AckInv
<1>2. CASE Over
  <2>1. opts' = <<>> /\ dhcpAnswer'.kind # "ack"
    BY <1>2 DEF Over, Ignored
  <2> QED  BY <2>1, NoOptions DEF OptsInv, AckInv
<1>3. ASSUME NEW list \in Lists, Offer(list) \/ NoAck(list)
      PROVE  OptsInv'
  <2>1. opts' = list /\ Len(Bytes(list)) <= OptSize /\ dhcpAnswer'.kind # "ack"
    BY <1>3 DEF Offer, NoAck, Listening, Ignored
  <2> QED  BY <2>1 DEF OptsInv, AckInv
<1>4. ASSUME NEW list \in Lists, Ack(list)
      PROVE  OptsInv'
  <2>1. opts' = list /\ Len(Bytes(list)) <= OptSize
    BY <1>4 DEF Ack, Listening
  <2>2. LET o == opt_find(Bytes(list), DHCP_OPT_REQUESTED_IP)
            yi == LeaseOf(At(Bytes(list), o + 5))
        IN  /\ o # NotFound /\ yi \in 0 .. DHCPS_MAX_IP - 1
            /\ dhcpAnswer'.yiaddr = DHCPS_BASE_IP + yi
    BY <1>4 DEF Ack
  <2> QED  BY <2>1, <2>2 DEF OptsInv, AckInv
<1>5. CASE DhcpCopy \/ DhcpNew \/ DhcpBind \/ DnsStep \/ UNCHANGED vars
  BY <1>1, <1>5 DEF DhcpCopy, DhcpNew, DhcpBind, DnsStep, vars, dhcpVars
<1> QED  BY <1>2, <1>3, <1>4, <1>5 DEF Next

LEMMA OptsKept == Spec => [](TypeOK /\ OptsInv)
<1>1. Spec => []TypeOK
  BY ApTypeOK
<1>2. TypeOK /\ OptsInv /\ [Next]_vars => OptsInv'
  BY OptsStep
<1> QED  BY <1>1, <1>2, OptsInit, PTL DEF Spec

(* opt_find finds each option that a client can send, wherever it is in    *)
(* the message and whatever bytes the others carry.                        *)
THEOREM OptionsFound == Spec => []FindsOptions
<1>1. TypeOK /\ OptsInv => FindsOptions
  <2> SUFFICES ASSUME TypeOK, OptsInv, NEW o \in Options
               PROVE  opt_find(Bytes(opts), o.code) = FirstOption(opts, o.code)
    BY DEF FindsOptions
  <2>1. opts \in Seq(Options) /\ Len(Bytes(opts)) <= OptSize
    BY DEF TypeOK, OptsInv
  <2>2. o.code \in 1 .. 254
    BY OptionTypes
  <2> QED  BY <2>1, <2>2, FindsFirst
<1> QED  BY <1>1, OptsKept, PTL

LEMMA LeaseFacts ==
  ASSUME NEW b \in 0 .. 255, LeaseOf(b) \in 0 .. 7
  PROVE  b \in 16 .. 23 /\ 16 + LeaseOf(b) = b
<1>1. CASE b < 16
  <2>1. b + 256 - 16 \in 0 .. 255 /\ b + 256 - 16 >= 240
    BY <1>1
  <2>2. (b + 256 - 16) % 256 = b + 256 - 16
    BY <2>1
  <2> QED  BY <2>1, <2>2 DEF LeaseOf, DHCPS_BASE_IP
<1>2. CASE b >= 16
  <2>1. (b + 256 - 16) % 256 = b - 16
    BY <1>2
  <2>2. LeaseOf(b) = b - 16
    BY <2>1 DEF LeaseOf, DHCPS_BASE_IP
  <2> QED  BY <1>2, <2>2
<1> QED  BY <1>1, <1>2

(* The option opt_find leads to is one of the message, and so is the byte  *)
(* the handler reads as the last one of the address.                       *)
LEMMA AckReads ==
  ASSUME NEW list \in Seq(Options), Len(Bytes(list)) <= OptSize, InFull(list),
         opt_find(Bytes(list), DHCP_OPT_REQUESTED_IP) # NotFound
  PROVE  \E k \in 1 .. Len(list) :
           /\ list[k].code = DHCP_OPT_REQUESTED_IP /\ list[k].data[4] \in 0 .. 255
           /\ At(Bytes(list), opt_find(Bytes(list), DHCP_OPT_REQUESTED_IP) + 5) = list[k].data[4]
<1>1. DHCP_OPT_REQUESTED_IP \in 1 .. 254 /\ DOMAIN list = 1 .. Len(list)
  BY DEF DHCP_OPT_REQUESTED_IP
<1>2. opt_find(Bytes(list), DHCP_OPT_REQUESTED_IP) = FirstOption(list, DHCP_OPT_REQUESTED_IP)
  BY <1>1, FindsFirst
<1>3. \E k \in 1 .. Len(list) : list[k].code = DHCP_OPT_REQUESTED_IP
  BY <1>1, <1>2 DEF FirstOption
<1>4. PICK k \in 1 .. Len(list) :
        /\ list[k].code = DHCP_OPT_REQUESTED_IP
        /\ FirstOption(list, DHCP_OPT_REQUESTED_IP) = Offset(list, k - 1)
  BY <1>3, FirstFacts
<1>5. PICK B \in Seq(Byte), off \in Nat, d \in Seq(Byte) :
        B = Bytes(list) /\ off = Offset(list, k - 1) /\ d = list[k].data
  <2>1. list[k] \in Options
    OBVIOUS
  <2>2. Bytes(list) \in Seq(Byte) /\ Offset(list, k - 1) \in Nat /\ list[k].data \in Seq(Byte)
    BY <2>1, BytesFacts, OptionTypes
  <2> QED  BY <2>2, Zenon
<1>6. Len(d) >= 4
  BY <1>1, <1>4, <1>5 DEF InFull
<1>7. LiesAt(B, off, list[k])
  BY <1>5, BytesFacts
<1>8. off + 2 + Len(d) <= Len(B) /\ \A j \in 1 .. Len(d) : B[off + 2 + j] = d[j]
  BY <1>5, <1>7 DEF LiesAt
<1>9. 4 \in 1 .. Len(d) /\ off + 5 < Len(B) /\ (off + 5) + 1 = off + 2 + 4
  BY <1>6, <1>8
<1>10. At(B, off + 5) = d[4]
  BY <1>8, <1>9 DEF At
<1>11. d[4] \in 0 .. 255
  <2>1. d[4] \in Byte
    BY <1>9
  <2> QED  BY <2>1 DEF Byte
<1> QED  BY <1>2, <1>4, <1>5, <1>10, <1>11

(* A client that asks for an address by name in full is given that very    *)
(* address by an ACK, and the address is one of the eight of the pool.     *)
THEOREM AcksAreAsked == Spec => []AckIsAsked
<1>1. TypeOK /\ OptsInv => AckIsAsked
  <2> SUFFICES ASSUME TypeOK, OptsInv, dhcpAnswer.kind = "ack", InFull(opts)
               PROVE  \E k \in DOMAIN opts :
                        /\ opts[k].code = DHCP_OPT_REQUESTED_IP
                        /\ dhcpAnswer.yiaddr = opts[k].data[4]
                        /\ dhcpAnswer.yiaddr \in 16 .. 23
    BY DEF AckIsAsked, DHCPS_BASE_IP, DHCPS_MAX_IP
  <2>1. opts \in Seq(Options) /\ DOMAIN opts = 1 .. Len(opts) /\ Len(Bytes(opts)) <= OptSize
    BY DEF TypeOK, OptsInv
  <2>2. LET o == opt_find(Bytes(opts), DHCP_OPT_REQUESTED_IP)
            yi == LeaseOf(At(Bytes(opts), o + 5))
        IN  o # NotFound /\ yi \in 0 .. 7 /\ dhcpAnswer.yiaddr = 16 + yi
    BY DEF OptsInv, AckInv, DHCPS_BASE_IP, DHCPS_MAX_IP
  <2>3. PICK k \in 1 .. Len(opts) :
          /\ opts[k].code = DHCP_OPT_REQUESTED_IP /\ opts[k].data[4] \in 0 .. 255
          /\ At(Bytes(opts), opt_find(Bytes(opts), DHCP_OPT_REQUESTED_IP) + 5) = opts[k].data[4]
    BY <2>1, <2>2, AckReads
  <2>4. PICK b \in 0 .. 255 : b = opts[k].data[4]
    BY <2>3, Zenon
  <2>5. LeaseOf(b) \in 0 .. 7 /\ dhcpAnswer.yiaddr = 16 + LeaseOf(b)
    BY <2>2, <2>3, <2>4
  <2>6. dhcpAnswer.yiaddr = b /\ b \in 16 .. 23
    BY <2>5, LeaseFacts
  <2>7. k \in DOMAIN opts
    BY <2>1, Zenon
  <2>8. dhcpAnswer.yiaddr = opts[k].data[4] /\ dhcpAnswer.yiaddr \in 16 .. 23
    BY <2>4, <2>6, Zenon
  <2> QED  BY <2>3, <2>7, <2>8, Zenon
<1> QED  BY <1>1, OptsKept, PTL
=============================================================================
