----------------------------- MODULE BootProofs -----------------------------
(***************************************************************************)
(* Theorems about Boot, for configurations and bytes of any size and any   *)
(* number of failures.                                                     *)
(***************************************************************************)
EXTENDS Boot, TLAPS

(* Counting the checksum up makes a valid configuration invalid, because   *)
(* the checksum is not part of what it is computed from.                   *)
LEMMA SpoiledChecksum ==
  ASSUME NEW c \in Image, Valid(c)
  PROVE  ~Valid(NextChecksum(c))
<1>1. Size \in Nat /\ Size >= 2 /\ Size \in Addresses /\ Base \in Nat /\ Base >= 2
  BY EepromAssumption DEF Addresses
<1>2. Body(NextChecksum(c)) = Body(c)
  BY <1>1 DEF Body, NextChecksum, Image, Addresses
<1>3. c[Size] \in 0 .. Base - 1
  BY <1>1 DEF Image, Bytes
<1>4. NextChecksum(c)[Size] = (c[Size] + 1) % Base
  BY <1>1 DEF NextChecksum, Image
<1>5. (c[Size] + 1) % Base # c[Size]
  <2>1. \A x \in 0 .. Base - 1 : (x + 1) % Base # x
    <3> TAKE x \in 0 .. Base - 1
    <3>1. CASE x = Base - 1
      BY <1>1, <3>1
    <3>2. CASE x < Base - 1
      BY <1>1, <3>2
    <3> QED  BY <1>1, <3>1, <3>2
  <2> QED  BY <1>3, <2>1
<1> QED  BY <1>2, <1>4, <1>5 DEF Valid, calcCheckSum

LEMMA ImageFacts ==
  /\ Erased \in Image /\ Default \in Image /\ ap_mode(Default)
  /\ \A c \in Image : NextChecksum(c) \in Image /\ Load(c) \in Image
<1>1. Size \in Nat /\ Size >= 2 /\ Size \in Addresses /\ Base \in Nat /\ Base >= 2
  BY EepromAssumption DEF Addresses
<1>2. Erased \in Image
  BY <1>1 DEF Erased, Image, Bytes
<1>3. ASSUME NEW c \in Image
      PROVE  NextChecksum(c) \in Image
  <2>1. (c[Size] + 1) % Base \in Bytes
    BY <1>1 DEF Image, Bytes
  <2> QED  BY <1>1, <2>1 DEF NextChecksum, Image
<1>4. Default \in Image /\ ap_mode(Default)
  BY BootAssumption
<1>5. \A c \in Image : Load(c) \in Image
  BY <1>4 DEF Load
<1> QED  BY <1>2, <1>3, <1>4, <1>5

-----------------------------------------------------------------------------
(* Types.                                                                  *)

LEMMA TypeInit == Init => TypeOK
<1>1. Default \in Image /\ 0 \in 0 .. MaxPolls /\ 0 \in 0 .. MaxFailures
  BY BootAssumption
<1> QED  BY <1>1 DEF Init, EepromInit, TypeOK, EepromTypeOK

LEMMA TypePower ==
  ASSUME TypeOK, PowerFails
  PROVE  TypeOK'
<1>1. _sector' \in Image
  <2>1. CASE \E target \in Image : Partly(target)
    <3>1. PICK target \in Image, done \in SUBSET Addresses :
            _sector' = [a \in Addresses |-> IF a \in done THEN target[a] ELSE _sector[a]]
      BY <2>1 DEF Partly
    <3>2. _sector \in Image
      BY DEF TypeOK, EepromTypeOK
    <3> QED  BY <3>1, <3>2 DEF Image
  <2> QED  BY <2>1, ImageFacts DEF PowerFails, TypeOK, EepromTypeOK
<1>2. cut' \in BOOLEAN
  BY DEF PowerFails, TypeOK
<1>3. failures' \in 0 .. MaxFailures
  BY BootAssumption DEF PowerFails, TypeOK
<1> QED  BY <1>1, <1>2, <1>3 DEF PowerFails, TypeOK, EepromTypeOK

LEMMA TypeStep == TypeOK /\ [Next]_vars => TypeOK'
<1> SUFFICES ASSUME TypeOK, [Next]_vars
             PROVE  TypeOK'
  OBVIOUS
<1> USE DEF TypeOK, EepromTypeOK, eepromVars, histVars
<1>1. CASE Main
  <2>1. Load(_sector) \in Image /\ 0 \in 0 .. MaxPolls
    BY ImageFacts, BootAssumption
  <2> QED  BY <1>1, <2>1 DEF Main, begin
<1>2. CASE Wifi
  BY <1>2, ImageFacts, BootAssumption
  DEF Wifi, WifiFails, WifiStart, Poll, Connected, GiveUp
<1>3. CASE Write
  BY <1>3, ImageFacts
  DEF Write, Put, put, CommitErases, Erase, CommitPrograms, Program, Restart
<1>4. CASE LinkChanges \/ DhcpSupplied
  BY <1>4 DEF LinkChanges, DhcpSupplied
<1>5. CASE PowerFails
  BY <1>5, TypePower
<1>6. CASE UNCHANGED vars
  BY <1>6 DEF vars
<1> QED  BY <1>1, <1>2, <1>3, <1>4, <1>5, <1>6 DEF Next, Outside

(* Start-up keeps its types, whatever the flash holds.                     *)
THEOREM BootTypeOK == Spec => []TypeOK
  BY TypeInit, TypeStep, PTL DEF Spec

-----------------------------------------------------------------------------
(* What is in RAM and in flash on the way to a forced default.             *)

(* Only a stored configuration asks for a station, so that giving up       *)
(* spoils a valid checksum, and put finds a difference to commit.          *)
WriteInv ==
  /\ pc \in {"wifi", "connect"} => rfu_config = Load(_data)
  /\ pc = "connect" => ~ap_mode(rfu_config)
  /\ pc = "put" => Valid(_data) /\ ~Valid(rfu_config)
  /\ pc \in {"erase", "program"} => _dirty /\ ~Valid(_data)
  /\ forced => pc \in {"restart", "main"} /\ ~Valid(_sector)

LEMMA WriteInit == Init => WriteInv
  BY DEF Init, WriteInv

LEMMA WriteStep == TypeOK /\ WriteInv /\ [Next]_vars => WriteInv'
<1> SUFFICES ASSUME TypeOK, WriteInv, [Next]_vars
             PROVE  WriteInv'
  OBVIOUS
<1> USE DEF WriteInv, eepromVars, histVars
<1>1. CASE Main
  BY <1>1 DEF Main, begin
<1>2. CASE GiveUp
  <2>1. Valid(_data) /\ rfu_config = _data
    BY <1>2, ImageFacts DEF GiveUp, Load
  <2>2. ~Valid(NextChecksum(rfu_config))
    BY <2>1, SpoiledChecksum DEF TypeOK, EepromTypeOK
  <2> QED  BY <1>2, <2>1, <2>2 DEF GiveUp, Valid
<1>3. CASE WifiFails \/ WifiStart \/ Poll \/ Connected \/ LinkChanges \/ DhcpSupplied
  BY <1>3 DEF WifiFails, WifiStart, Poll, Connected, LinkChanges, DhcpSupplied
<1>4. CASE Put
  BY <1>4 DEF Put, put, Valid
<1>5. CASE CommitErases
  BY <1>5 DEF CommitErases, Erase, NeedsCommit
<1>6. CASE CommitPrograms
  BY <1>6 DEF CommitPrograms, Program
<1>7. CASE Restart
  BY <1>7 DEF Restart
<1>8. CASE PowerFails
  BY <1>8 DEF PowerFails
<1>9. CASE UNCHANGED vars
  BY <1>9 DEF vars
<1> QED  BY <1>1, <1>2, <1>3, <1>4, <1>5, <1>6, <1>7, <1>8, <1>9
         DEF Next, Wifi, Write, Outside

(* A spoiled configuration that was written completely forces the default  *)
(* one at the next start, with power failures anywhere.                    *)
THEOREM DefaultIsForced == Spec => ForcesDefault
<1>1. WriteInv /\ [Next]_vars => (forced /\ Main => rfu_config' = Default)
  BY DEF WriteInv, Main, Load
<1>2. Spec => [](TypeOK /\ WriteInv)
  BY TypeInit, TypeStep, WriteInit, WriteStep, PTL DEF Spec
<1>3. Spec => [][forced /\ Main => rfu_config' = Default]_vars
  BY <1>1, <1>2, PTL DEF Spec
<1> QED  BY <1>3 DEF ForcesDefault

-----------------------------------------------------------------------------
(* As long as no flash operation was cut short, the only valid image the   *)
(* flash ever holds is the one it held at first.                           *)
KnownInv ==
  /\ KnownConfig
  /\ ~cut /\ Valid(_sector) => _sector = flashed

LEMMA KnownStep ==
  TypeOK /\ WriteInv /\ KnownInv /\ [Next]_vars => KnownInv'
<1> SUFFICES ASSUME TypeOK, WriteInv, KnownInv, [Next]_vars
             PROVE  KnownInv'
  OBVIOUS
<1> USE DEF KnownInv, KnownConfig, InUse, eepromVars, histVars
<1>1. CASE Main
  BY <1>1 DEF Main, begin, Load
<1>2. CASE Wifi
  BY <1>2 DEF Wifi, WifiFails, WifiStart, Poll, Connected, GiveUp
<1>3. CASE Put \/ Restart
  BY <1>3 DEF Put, put, Restart
<1>4. CASE CommitErases
  BY <1>4, ErasedAssumption DEF CommitErases, Erase
<1>5. CASE CommitPrograms
  BY <1>5 DEF CommitPrograms, Program, WriteInv
<1>6. CASE LinkChanges \/ DhcpSupplied
  BY <1>6 DEF LinkChanges, DhcpSupplied
<1>7. CASE PowerFails
  BY <1>7 DEF PowerFails
<1>8. CASE UNCHANGED vars
  BY <1>8 DEF vars
<1> QED  BY <1>1, <1>2, <1>3, <1>4, <1>5, <1>6, <1>7, <1>8
         DEF Next, Write, Outside

(* Unless the power has failed within an erase or a program operation, the *)
(* unit runs on the default configuration or on the one stored at first.   *)
THEOREM ConfigIsKnown == Spec => []KnownConfig
<1>1. Init => KnownInv
  BY DEF Init, KnownInv, KnownConfig, InUse
<1>2. KnownInv => KnownConfig
  BY DEF KnownInv
<1> QED  BY <1>1, <1>2, KnownStep, TypeInit, TypeStep, WriteInit, WriteStep,
            PTL DEF Spec

-----------------------------------------------------------------------------
(* Start-up is no restart loop: the safety part of ComesUp.                *)

(* The configuration in use, or about to be loaded, asks for a station.    *)
Station ==
  \/ pc = "wifi" /\ ~ap_mode(rfu_config)
  \/ pc = "main" /\ ~ap_mode(Load(_sector))

(* Steps to a running unit on the longest way without a failure: a station *)
(* uses up its polls, writes the spoiled configuration and starts anew.    *)
Distance ==
  [running |-> 0, dhcp |-> 1, wifi |-> 1, main |-> 2, restart |-> 3,
   program |-> 4, erase |-> 5, put |-> 6, connect |-> 7]

ToGo ==
  Distance[pc] + (IF pc = "connect" THEN MaxPolls - timeout
                  ELSE IF Station THEN 7 + MaxPolls ELSE 0)

(* Every failure may bring start-up back to where it began.                *)
StepsLeft == (MaxFailures - failures) * (10 + MaxPolls) + ToGo

(* A restart that was not forced by a failure finds no valid configuration.*)
RestartInv ==
  /\ pc = "wifi" => timeout = 0
  /\ pc = "restart" => ~Valid(_sector)

LEMMA RestartInit == Init => RestartInv
  BY DEF Init, RestartInv

LEMMA RestartStep ==
  TypeOK /\ WriteInv /\ RestartInv /\ [Next]_vars => RestartInv'
<1> SUFFICES ASSUME TypeOK, WriteInv, RestartInv, [Next]_vars
             PROVE  RestartInv'
  OBVIOUS
<1> USE DEF RestartInv, eepromVars, histVars
<1>1. CASE Main
  BY <1>1 DEF Main
<1>2. CASE Wifi
  BY <1>2 DEF Wifi, WifiFails, WifiStart, Poll, Connected, GiveUp
<1>3. CASE Put \/ Restart
  BY <1>3 DEF Put, Restart
<1>4. CASE CommitErases
  BY <1>4 DEF CommitErases, NeedsCommit, WriteInv
<1>5. CASE CommitPrograms
  BY <1>5 DEF CommitPrograms, Program, WriteInv
<1>6. CASE LinkChanges \/ DhcpSupplied \/ PowerFails
  BY <1>6 DEF LinkChanges, DhcpSupplied, PowerFails
<1>7. CASE UNCHANGED vars
  BY <1>7 DEF vars, Valid
<1> QED  BY <1>1, <1>2, <1>3, <1>4, <1>5, <1>6, <1>7 DEF Next, Write, Outside

LEMMA ToGoRange ==
  ASSUME TypeOK
  PROVE  ToGo \in 0 .. 9 + MaxPolls
<1>1. MaxPolls \in Nat /\ timeout \in 0 .. MaxPolls
  BY BootAssumption DEF TypeOK
<1>2. Distance[pc] \in 0 .. 7 /\ (Station => Distance[pc] \in 1 .. 2)
  BY DEF TypeOK, Distance, Station
<1> QED  BY <1>1, <1>2 DEF ToGo, Station

(* Every step of the unit itself is a step closer.                         *)
LEMMA Closer ==
  ASSUME TypeOK, WriteInv, RestartInv,
         Main \/ WifiStart \/ Poll \/ Connected \/ GiveUp \/ Write \/ DhcpSupplied
  PROVE  ToGo' < ToGo
<1>1. MaxPolls \in Nat /\ timeout \in 0 .. MaxPolls
  BY BootAssumption DEF TypeOK
<1> USE DEF ToGo, Station, Distance
<1>2. CASE Main
  <2>1. pc = "main" /\ pc' = "wifi" /\ rfu_config' = Load(_sector)
    BY <1>2 DEF Main
  <2> QED  BY <1>1, <2>1
<1>3. CASE WifiStart
  <2>1. CASE ap_mode(rfu_config)
    BY <1>1, <1>3, <2>1 DEF WifiStart
  <2>2. CASE ~ap_mode(rfu_config)
    BY <1>1, <1>3, <2>2 DEF WifiStart, RestartInv
  <2> QED  BY <2>1, <2>2
<1>4. CASE Poll \/ Connected \/ GiveUp
  BY <1>1, <1>4 DEF Poll, Connected, GiveUp
<1>5. CASE Put
  BY <1>5 DEF Put
<1>6. CASE CommitErases
  BY <1>6 DEF CommitErases, NeedsCommit, WriteInv
<1>7. CASE CommitPrograms
  BY <1>7 DEF CommitPrograms
<1>8. CASE Restart
  <2>1. pc = "restart" /\ pc' = "main" /\ _sector' = _sector
    BY <1>8 DEF Restart, eepromVars
  <2>2. ~Valid(_sector)
    BY <2>1 DEF RestartInv
  <2>3. Load(_sector') = Default
    BY <2>1, <2>2 DEF Load, Valid
  <2>4. ap_mode(Load(_sector'))
    BY <2>3, BootAssumption
  <2>5. ~Station' /\ ~Station
    BY <2>1, <2>4
  <2> QED  BY <2>1, <2>5
<1>9. CASE DhcpSupplied
  BY <1>9 DEF DhcpSupplied
<1> QED  BY <1>2, <1>3, <1>4, <1>5, <1>6, <1>7, <1>8, <1>9 DEF Write

(* What the network does alone costs nothing.                              *)
LEMMA NoFurther ==
  ASSUME TypeOK, LinkChanges \/ UNCHANGED vars
  PROVE  ToGo' = ToGo /\ failures' = failures
<1>1. pc' = pc /\ timeout' = timeout /\ rfu_config' = rfu_config /\ _sector' = _sector
      /\ failures' = failures
  BY DEF LinkChanges, vars, eepromVars
<1>2. Station' <=> Station
  BY <1>1 DEF Station, ap_mode, Load, Valid, calcCheckSum, Body
<1> QED  BY <1>1, <1>2 DEF ToGo

(* The budget, for numbers.                                                *)
LEMMA Budget ==
  ASSUME NEW f \in Nat, NEW g \in Nat, NEW B \in Nat, NEW x \in 0 .. B - 1, NEW y \in 0 .. B - 1,
         g < f
  PROVE  g * B + y < f * B + x
<1>1. PICK d \in Nat : f = g + 1 + d
  <2>1. f - (g + 1) \in Nat /\ f = g + 1 + (f - (g + 1))
    OBVIOUS
  <2> QED  BY <2>1
<1>2. PICK p \in Nat, q \in Nat : p = g * B /\ q = d * B
  OBVIOUS
<1>3. f * B = p + B + q
  BY <1>1, <1>2
<1>4. p + y < p + B + q + x
  OBVIOUS
<1> QED  BY <1>2, <1>3, <1>4

LEMMA StepsLeftType == TypeOK => StepsLeft \in Nat
<1> SUFFICES ASSUME TypeOK
             PROVE  StepsLeft \in Nat
  OBVIOUS
<1>1. PICK f \in Nat, B \in Nat, x \in Nat :
        f = MaxFailures - failures /\ B = 10 + MaxPolls /\ x = ToGo
  <2>1. MaxFailures - failures \in Nat /\ 10 + MaxPolls \in Nat
    BY BootAssumption DEF TypeOK
  <2>2. ToGo \in Nat
    BY ToGoRange, BootAssumption
  <2> QED  BY <2>1, <2>2, Zenon
<1>2. f * B + x \in Nat
  OBVIOUS
<1> QED  BY <1>1, <1>2 DEF StepsLeft

LEMMA StepsLeftFall ==
  ASSUME TypeOK, TypeOK', WriteInv, RestartInv,
         Main \/ Wifi \/ Write \/ DhcpSupplied \/ PowerFails
  PROVE  StepsLeft' < StepsLeft
<1>b. PICK B \in Nat : B = 10 + MaxPolls
  BY BootAssumption
<1>1. PICK f \in Nat, x \in 0 .. B - 1 : f = MaxFailures - failures /\ x = ToGo
  <2>1. MaxFailures - failures \in Nat
    BY BootAssumption DEF TypeOK
  <2>2. ToGo \in 0 .. B - 1
    BY <1>b, ToGoRange, BootAssumption
  <2> QED  BY <2>1, <2>2, Zenon
<1>2. PICK g \in Nat, y \in 0 .. B - 1 : g = MaxFailures - failures' /\ y = ToGo'
  <2>1. MaxFailures - failures' \in Nat
    <3>1. failures' \in 0 .. MaxFailures /\ MaxFailures \in Nat
      BY BootAssumption DEF TypeOK
    <3>2. \A m \in Nat : \A n \in 0 .. m : m - n \in Nat
      OBVIOUS
    <3> QED  BY <3>1, <3>2, Zenon
  <2>2. ToGo' \in 0 .. B - 1
    <3>1. MaxPolls \in Nat /\ timeout' \in 0 .. MaxPolls /\ B = 10 + MaxPolls
      BY <1>b, BootAssumption DEF TypeOK
    <3>2. Distance[pc'] \in 0 .. 7 /\ (Station' => Distance[pc'] \in 1 .. 2)
      BY DEF TypeOK, Distance, Station
    <3> QED  BY <3>1, <3>2 DEF ToGo, Station, Distance
  <2> QED  BY <2>1, <2>2, Zenon
<1>3. StepsLeft = f * B + x /\ StepsLeft' = g * B + y
  BY <1>b, <1>1, <1>2, Zenon DEF StepsLeft
<1>4. CASE WifiFails \/ PowerFails
  <2>1. failures' = failures + 1 /\ failures \in Nat /\ MaxFailures \in Nat
    BY <1>4, BootAssumption DEF WifiFails, PowerFails, TypeOK
  <2>2. g < f
    BY <1>1, <1>2, <2>1
  <2>3. g * B + y < f * B + x
    BY <2>2, Budget
  <2> QED  BY <1>3, <2>3, Zenon
<1>5. CASE Main \/ WifiStart \/ Poll \/ Connected \/ GiveUp \/ Write \/ DhcpSupplied
  <2>1. failures' = failures
    BY <1>5 DEF Main, WifiStart, Poll, Connected, GiveUp, Write, Put, CommitErases,
                CommitPrograms, Restart, DhcpSupplied
  <2>2. f = g
    BY <1>1, <1>2, <2>1, Zenon
  <2>3. y < x
    BY <1>1, <1>2, <1>5, Closer, Zenon
  <2>4. PICK p \in Nat : p = f * B
    OBVIOUS
  <2>5. p + y < p + x
    BY <2>3
  <2> QED  BY <1>3, <2>2, <2>4, <2>5, Zenon
<1> QED  BY <1>4, <1>5 DEF Wifi

(* Start-up uses up a number of steps: each step of the unit itself takes  *)
(* from it, a failure pays for the way back, the network alone adds none.  *)
ComesCloser ==
  [][/\ StepsLeft' <= StepsLeft
     /\ Main \/ Wifi \/ Write \/ PowerFails => StepsLeft' < StepsLeft]_vars

(* No restart loop: with any number of polls, failures and any contents of *)
(* the flash, a start-up takes a bounded number of steps of main,          *)
(* wifi_init_task and write_config_task, however the link goes up and down *)
(* and wherever the power fails.  What ComesUp adds is that the CPU runs.  *)
THEOREM StartUpEnds == Spec => [](StepsLeft \in Nat) /\ ComesCloser
<1>0. TypeOK' => (StepsLeft \in Nat)'
  BY StepsLeftType, PTL
<1>1. TypeOK /\ WriteInv /\ RestartInv /\ [Next]_vars =>
        [/\ StepsLeft' <= StepsLeft
         /\ Main \/ Wifi \/ Write \/ PowerFails => StepsLeft' < StepsLeft]_vars
  <2> SUFFICES ASSUME TypeOK, WriteInv, RestartInv, Next
               PROVE  /\ StepsLeft' <= StepsLeft
                      /\ Main \/ Wifi \/ Write \/ PowerFails => StepsLeft' < StepsLeft
    OBVIOUS
  <2>1. TypeOK'
    BY TypeStep
  <2>2. StepsLeft \in Nat /\ StepsLeft' \in Nat
    <3>1. StepsLeft \in Nat
      BY StepsLeftType
    <3> QED  BY <1>0, <2>1, <3>1
  <2>3. CASE Main \/ Wifi \/ Write \/ DhcpSupplied \/ PowerFails
    <3>1. StepsLeft' < StepsLeft
      BY <2>1, <2>3, StepsLeftFall, Zenon
    <3> QED  BY <2>2, <3>1
  <2>4. CASE LinkChanges
    <3>1. StepsLeft' = StepsLeft
      BY <2>4, NoFurther, Zenon DEF StepsLeft
    <3>2. ~(Main \/ Wifi \/ Write)
      BY <2>4 DEF LinkChanges, Main, Wifi, WifiFails, WifiStart, Poll, Connected, GiveUp,
                  Write, Put, CommitErases, CommitPrograms, Restart
    <3>3. ~PowerFails
      BY <2>4 DEF LinkChanges, PowerFails
    <3> QED  BY <2>2, <3>1, <3>2, <3>3
  <2> QED  BY <2>3, <2>4 DEF Next, Outside
<1>2. Spec => [](TypeOK /\ WriteInv /\ RestartInv)
  BY TypeInit, TypeStep, WriteInit, WriteStep, RestartInit, RestartStep, PTL DEF Spec
<1>3. Spec => [](StepsLeft \in Nat)
  BY <1>2, StepsLeftType, PTL
<1>4. Spec => [][/\ StepsLeft' <= StepsLeft
                 /\ Main \/ Wifi \/ Write \/ PowerFails => StepsLeft' < StepsLeft]_vars
  BY <1>1, <1>2, PTL DEF Spec
<1> QED  BY <1>3, <1>4 DEF ComesCloser
=============================================================================
