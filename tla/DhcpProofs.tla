----------------------------- MODULE DhcpProofs -----------------------------
(***************************************************************************)
(* Theorems about DhcpServer, for any number of clients and leases, any    *)
(* length of a lease below half a turn of the clock, and any number of     *)
(* restarts.                                                               *)
(***************************************************************************)
EXTENDS DhcpServer, FiniteSetTheorems, TLAPS

-----------------------------------------------------------------------------
(* Arithmetic modulo M.                                                    *)

LEMMA Divided ==
  ASSUME NEW M \in Int, M > 0, NEW x \in Int
  PROVE  \E q \in Int : x = q * M + (x % M)
  OBVIOUS

LEMMA Remainder ==
  ASSUME NEW M \in Int, M > 0, NEW x \in Int, NEW q \in Int, NEW r \in Int,
         0 <= r, r < M, x = q * M + r
  PROVE  x % M = r
  OBVIOUS

LEMMA InRange ==
  ASSUME NEW M \in Int, M > 0, NEW x \in Int
  PROVE  x % M \in 0 .. M - 1
<1>1. x % M \in Int /\ x % M >= 0
  OBVIOUS
<1>2. x % M < M
  OBVIOUS
<1> QED  BY <1>1, <1>2

(* A difference survives the reduction of one of the numbers.              *)
LEMMA Difference ==
  ASSUME NEW M \in Int, M > 0, NEW u \in Int, NEW n \in Int,
         NEW k \in Int, NEW r \in Int, 0 <= r, r < M, u - n = k * M + r
  PROVE  ((u % M) - n) % M = r
<1>1. PICK q \in Int : u = q * M + (u % M)
  BY Divided
<1>2. u % M \in Int
  BY InRange
<1>3. PICK v \in Int : v = u % M
  BY <1>2
<1>4. (k - q) * M = k * M - q * M /\ k * M \in Int /\ q * M \in Int /\ k - q \in Int
  OBVIOUS
<1>5. v - n = (k - q) * M + r
  <2> DEFINE p == q * M
             s == k * M
  <2>1. /\ p \in Int /\ s \in Int /\ (k - q) * M = s - p
        /\ u = p + v /\ u - n = s + r
    BY <1>1, <1>3, <1>4
  <2> HIDE DEF p, s
  <2>2. v - n = (s - p) + r
    BY <2>1
  <2> QED  BY <2>1, <2>2
<1>6. (v - n) % M = r
  BY <1>4, <1>5, Remainder
<1> QED  BY <1>3, <1>6

LEMMA ClockFacts ==
  /\ ClockSize \in Int /\ ClockSize > 0 /\ ClockSize \div 2 \in Int
  /\ 2 * (ClockSize \div 2) = ClockSize
  /\ LeaseUnits \in Nat /\ LeaseUnits + 1 < ClockSize \div 2
  /\ Nobody \notin Clients
  BY DhcpAssumption

(* A lease that has not ended, and ends within half a turn, is not expired.*)
LEMMA RunningNotExpired ==
  ASSUME NEW u \in Int, NEW n \in Int, n <= u, u - n < ClockSize \div 2
  PROVE  ((u % ClockSize) - n) % ClockSize < ClockSize \div 2
<1>1. PICK r \in Int : r = u - n
  OBVIOUS
<1>2. u - n = 0 * ClockSize + r /\ 0 <= r /\ r < ClockSize
  BY <1>1, ClockFacts
<1>3. ((u % ClockSize) - n) % ClockSize = r
  <2>1. PICK C \in Int : C = ClockSize /\ C > 0
    BY ClockFacts, Zenon
  <2>2. u - n = 0 * C + r /\ 0 <= r /\ r < C
    BY <1>2, <2>1, Zenon
  <2>3. ((u % C) - n) % C = r
    BY <2>1, <2>2, Difference, 0 \in Int, Zenon
  <2> QED  BY <2>1, <2>3, Zenon
<1> QED  BY <1>1, <1>3

(* A lease that ended at most half a turn ago is expired.                  *)
LEMMA EndedIsExpired ==
  ASSUME NEW u \in Int, NEW n \in Int, u < n, n - u <= ClockSize \div 2
  PROVE  ((u % ClockSize) - n) % ClockSize >= ClockSize \div 2
<1>1. PICK r \in Int : r = u - n + ClockSize
  BY ClockFacts
<1>2. u - n = (-1) * ClockSize + r /\ 0 <= r /\ r < ClockSize
  BY <1>1, ClockFacts
<1>3. r >= ClockSize \div 2
  BY <1>1, ClockFacts
<1>4. ((u % ClockSize) - n) % ClockSize = r
  <2>1. PICK k \in Int : k = -1
    OBVIOUS
  <2>2. PICK C \in Int : C = ClockSize /\ C > 0
    BY ClockFacts, Zenon
  <2>3. u - n = k * C + r /\ 0 <= r /\ r < C
    BY <1>2, <2>1, <2>2, Zenon
  <2>4. ((u % C) - n) % C = r
    <3>1. u \in Int /\ n \in Int /\ k \in Int /\ r \in Int /\ C \in Int /\ C > 0
      BY <2>2, Zenon
    <3> QED  BY ONLY <2>3, <3>1, Difference
  <2> QED  BY <2>2, <2>4, Zenon
<1> QED  BY <1>3, <1>4

-----------------------------------------------------------------------------
(* Types.                                                                  *)

LEMMA TypeInit == Init => TypeOK
<1>1. 0 \in 0 .. MaxTime /\ 0 \in 0 .. MaxRestarts /\ 0 \in 0 .. ClockSize - 1
  BY DhcpAssumption, ClockFacts
<1> QED  BY <1>1 DEF Init, TypeOK, None

LEMMA TypeGrant ==
  ASSUME TypeOK, NEW c \in Clients, NEW i \in Ips, Grant(c, i)
  PROVE  /\ mac' \in [Ips -> Clients \cup {Nobody}]
         /\ expiry' \in [Ips -> 0 .. ClockSize - 1]
         /\ granted' \in [Ips -> Int]
         /\ offer' \in [Clients -> Ips \cup {None}]
<1>1. now \in Int /\ carry \in Int /\ booted \in Int
  BY DEF TypeOK
<1>2. EndOfLease \in 0 .. ClockSize - 1
  BY <1>1, ClockFacts, InRange DEF EndOfLease, Clock
<1>3. now + LeaseUnits + carry \in Int
  BY <1>1, ClockFacts
<1> QED  BY <1>2, <1>3 DEF Grant, TypeOK

LEMMA TypeStep == TypeOK /\ [Next]_vars => TypeOK'
<1> SUFFICES ASSUME TypeOK, [Next]_vars
             PROVE  TypeOK'
  OBVIOUS
<1>1. ASSUME NEW c \in Clients, Discover(c)
      PROVE  TypeOK'
  <2> DEFINE found == {i \in Available : \A j \in Own(c) : i < j}
  <2>1. mac' \in [Ips -> Clients \cup {Nobody}]
    BY <1>1 DEF Discover, TypeOK
  <2>2. offer' \in [Clients -> Ips \cup {None}]
    BY <1>1 DEF Discover, TypeOK
  <2> QED  BY <1>1, <2>1, <2>2 DEF Discover, TypeOK, timeVars
<1>2. ASSUME NEW c \in Clients, NEW i \in Ips, Acked(c, i)
      PROVE  TypeOK'
  <2>1. now + LeaseUnits + carry \in Nat
    BY ClockFacts DEF TypeOK
  <2> QED  BY <1>2, <2>1, TypeGrant DEF Acked, TypeOK, timeVars
<1>3. ASSUME NEW c \in Clients, NEW i \in Ips, AckLost(c, i)
      PROVE  TypeOK'
  BY <1>3, TypeGrant DEF AckLost, TypeOK, timeVars
<1>4. ASSUME NEW c \in Clients, NEW i \in Ips, Unanswered(c, i)
      PROVE  TypeOK'
  BY <1>4 DEF Unanswered, TypeOK, timeVars, leaseVars
<1>5. CASE Passes
  BY <1>5, DhcpAssumption DEF Passes, TypeOK, leaseVars, clientVars
<1>6. CASE Restart
  <2>1. 0 \in 0 .. ClockSize - 1
    BY ClockFacts
  <2> QED  BY <1>6, <2>1, DhcpAssumption DEF Restart, TypeOK
<1>7. CASE UNCHANGED vars
  BY <1>7 DEF vars, timeVars, leaseVars, clientVars, TypeOK
<1> QED  BY <1>1, <1>2, <1>3, <1>4, <1>5, <1>6, <1>7 DEF Next

(* The server and its clients keep their types.                            *)
THEOREM DhcpTypeOK == Spec => []TypeOK
  BY TypeInit, TypeStep, PTL DEF Spec

-----------------------------------------------------------------------------
(* The lease table and what the clients believe.                           *)

(* A lease in use has its true end in the table, in 16 bits, less than     *)
(* half a turn ahead; and a client that has an address from this run of    *)
(* the server is in the table, with an end no earlier than it believes.    *)
LeaseInv ==
  /\ \A i \in Ips : mac[i] # Nobody =>
       /\ expiry[i] = (granted[i] - booted) % ClockSize
       /\ granted[i] <= now + LeaseUnits + carry
  /\ \A c \in known, i \in Ips : Holds(c, i) => mac[i] = c /\ until[c] <= granted[i]

(* The lease of such a client does not look expired.                       *)
LEMMA HeldNotExpired ==
  ASSUME TypeOK, LeaseInv, NEW c \in known, NEW i \in Ips, Holds(c, i)
  PROVE  i \notin Available
<1>1. mac[i] = c /\ mac[i] # Nobody /\ until[c] <= granted[i] /\ now <= until[c]
  BY ClockFacts DEF LeaseInv, Holds, TypeOK
<1>2. /\ granted[i] \in Int /\ until[c] \in Int /\ now \in Int
      /\ booted \in Int /\ carry \in {0, 1}
  BY DEF TypeOK
<1>3. PICK u \in Int : u = granted[i] - booted
  BY <1>2
<1>4. PICK n \in Int : n = now - booted
  BY <1>2
<1>5. expiry[i] = u % ClockSize /\ granted[i] <= now + LeaseUnits + carry
  BY <1>1, <1>3 DEF LeaseInv
<1>6. n <= u /\ u - n < ClockSize \div 2
  BY <1>1, <1>2, <1>3, <1>4, <1>5, ClockFacts
<1>7. ((u % ClockSize) - n) % ClockSize < ClockSize \div 2
  BY <1>6, RunningNotExpired
<1>8. ~Expired(i)
  <2>1. PICK x \in Int : x = ((u % ClockSize) - n) % ClockSize
    <3>1. (u % ClockSize) - n \in Int
      BY ClockFacts, InRange
    <3> QED  BY <3>1, ClockFacts, InRange
  <2>2. x < ClockSize \div 2 /\ ~(x >= ClockSize \div 2)
    BY <1>7, <2>1, ClockFacts
  <2> QED  BY <1>4, <1>5, <2>1, <2>2 DEF Expired, Clock
<1> QED  BY <1>1, <1>8 DEF Available

(* A lease that is granted to a client is not another one's.               *)
LEMMA GrantKeepsOthers ==
  ASSUME TypeOK, LeaseInv, NEW c \in Clients, NEW i \in Ips, MayUse(c, i),
         NEW d \in known, Holds(d, i)
  PROVE  d = c
  BY ClockFacts DEF LeaseInv, MayUse, TypeOK

LEMMA LeaseGrant ==
  ASSUME TypeOK, LeaseInv, NEW c \in Clients, NEW i \in Ips, Grant(c, i),
         UNCHANGED timeVars
  PROVE  \A j \in Ips : mac'[j] # Nobody =>
           /\ expiry'[j] = (granted'[j] - booted') % ClockSize
           /\ granted'[j] <= now' + LeaseUnits + carry'
<1> SUFFICES ASSUME NEW j \in Ips, mac'[j] # Nobody
             PROVE  /\ expiry'[j] = (granted'[j] - booted') % ClockSize
                    /\ granted'[j] <= now' + LeaseUnits + carry'
  OBVIOUS
<1>1. now \in Int /\ carry \in Int /\ booted \in Int /\ LeaseUnits \in Int
  BY ClockFacts DEF TypeOK
<1>2. CASE j = i
  <2>1. expiry'[j] = (now - booted + LeaseUnits + carry) % ClockSize
    BY <1>2 DEF Grant, EndOfLease, Clock, TypeOK
  <2>2. granted'[j] = now + LeaseUnits + carry
    BY <1>2 DEF Grant, TypeOK
  <2>3. granted'[j] - booted' = now - booted + LeaseUnits + carry
    BY <1>1, <2>2 DEF timeVars
  <2>4. granted'[j] <= now' + LeaseUnits + carry'
    BY <1>1, <2>2 DEF timeVars
  <2> QED  BY <2>1, <2>3, <2>4
<1>3. CASE j # i
  <2>1. mac'[j] = mac[j] /\ expiry'[j] = expiry[j] /\ granted'[j] = granted[j]
    BY <1>3 DEF Grant, TypeOK
  <2> QED  BY <2>1 DEF LeaseInv, timeVars
<1> QED  BY <1>2, <1>3

LEMMA LeaseInit == Init => LeaseInv
  BY DEF Init, LeaseInv

LEMMA LeaseDiscover ==
  ASSUME TypeOK, LeaseInv, NEW c \in Clients, Discover(c)
  PROVE  LeaseInv'
<1>1. \A i \in Ips : mac'[i] = mac[i] \/ (mac'[i] = Nobody /\ i \in Available)
  BY DEF Discover, First
<1>2. \A d \in known, i \in Ips : Holds(d, i) => mac'[i] = mac[i]
  BY <1>1, HeldNotExpired
<1>3. UNCHANGED <<expiry, granted, now, carry, booted, held, until, known>>
  BY DEF Discover, timeVars
<1> QED  BY <1>1, <1>2, <1>3 DEF LeaseInv, Holds

LEMMA LeaseRequest ==
  ASSUME TypeOK, LeaseInv, NEW c \in Clients, NEW i \in Ips,
         Acked(c, i) \/ AckLost(c, i)
  PROVE  LeaseInv'
<1>1. Grant(c, i) /\ UNCHANGED timeVars /\ MayUse(c, i)
  BY DEF Acked, AckLost, Grant
<1>2. \A j \in Ips : mac'[j] # Nobody =>
        /\ expiry'[j] = (granted'[j] - booted') % ClockSize
        /\ granted'[j] <= now' + LeaseUnits + carry'
  BY <1>1, LeaseGrant
<1>3. ASSUME NEW d \in known', NEW j \in Ips, Holds(d, j)'
      PROVE  mac'[j] = d /\ until'[d] <= granted'[j]
  <2>1. now' = now /\ now \in Int /\ LeaseUnits \in Int /\ carry \in Int
    BY <1>1, ClockFacts DEF timeVars, TypeOK
  <2>2. CASE Acked(c, i) /\ d = c
    <3>1. j = i
      BY <1>3, <2>2 DEF Acked, Holds, TypeOK
    <3>2. mac'[i] = c /\ granted'[i] = now + LeaseUnits + carry
      BY <1>1 DEF Grant, TypeOK
    <3>3. until'[c] = now + LeaseUnits + carry
      BY <2>2 DEF Acked, TypeOK
    <3> QED  BY <2>1, <2>2, <3>1, <3>2, <3>3
  <2>3. CASE ~(Acked(c, i) /\ d = c)
    <3>1. d \in known /\ held'[d] = held[d] /\ until'[d] = until[d]
      BY <2>3 DEF Acked, AckLost, TypeOK
    <3>2. Holds(d, j)
      BY <1>3, <2>1, <3>1 DEF Holds
    <3>3. mac[j] = d /\ until[d] <= granted[j] /\ mac[j] # Nobody
      BY <3>1, <3>2, ClockFacts DEF LeaseInv, TypeOK
    <3>4. CASE j = i
      <4>1. d = c
        BY <1>1, <3>1, <3>2, <3>4, GrantKeepsOthers
      <4>2. mac'[i] = c /\ granted'[i] = now + LeaseUnits + carry
        BY <1>1 DEF Grant, TypeOK
      <4>3. granted[i] <= now + LeaseUnits + carry
        BY <3>3, <3>4 DEF LeaseInv
      <4>4. until[d] \in Int /\ granted[i] \in Int
        BY <3>1 DEF TypeOK
      <4> QED  BY <2>1, <3>1, <3>3, <3>4, <4>1, <4>2, <4>3, <4>4
    <3>5. CASE j # i
      <4>1. mac'[j] = mac[j] /\ granted'[j] = granted[j]
        BY <1>1, <3>5 DEF Grant, TypeOK
      <4> QED  BY <3>1, <3>3, <4>1
    <3> QED  BY <3>4, <3>5
  <2> QED  BY <2>2, <2>3
<1> QED  BY <1>2, <1>3 DEF LeaseInv

LEMMA LeaseStep == TypeOK /\ LeaseInv /\ [Next]_vars => LeaseInv'
<1> SUFFICES ASSUME TypeOK, LeaseInv, [Next]_vars
             PROVE  LeaseInv'
  OBVIOUS
<1>1. ASSUME NEW c \in Clients, NEW i \in Ips, Unanswered(c, i)
      PROVE  LeaseInv'
  BY <1>1 DEF Unanswered, LeaseInv, Holds, leaseVars, timeVars
<1>2. CASE Passes
  <2>1. /\ now \in Int /\ carry \in {0, 1} /\ LeaseUnits \in Int
        /\ now' \in Int /\ carry' \in {0, 1}
        /\ now <= now' /\ now + carry <= now' + carry'
    BY <1>2, ClockFacts DEF Passes, TypeOK
  <2>2. UNCHANGED <<mac, expiry, granted, booted, held, until, known>>
    BY <1>2 DEF Passes, leaseVars, clientVars
  <2>3. \A c \in known, i \in Ips : Holds(c, i)' => Holds(c, i)
    <3>1. \A c \in known : until[c] \in Int
      BY DEF TypeOK
    <3> QED  BY <2>1, <2>2, <3>1 DEF Holds
  <2>4. \A i \in Ips : granted[i] <= now + LeaseUnits + carry
                      => granted[i] <= now' + LeaseUnits + carry'
    <3>1. \A i \in Ips : granted[i] \in Int
      BY DEF TypeOK
    <3>2. now + LeaseUnits + carry <= now' + LeaseUnits + carry'
      <4>1. CASE carry = 0
        BY <1>2, <4>1, <2>1 DEF Passes
      <4>2. CASE carry = 1
        BY <1>2, <4>2, <2>1 DEF Passes
      <4> QED  BY <2>1, <4>1, <4>2
    <3>3. now + LeaseUnits + carry \in Int /\ now' + LeaseUnits + carry' \in Int
      BY <2>1
    <3> QED  BY <3>1, <3>2, <3>3
  <2> QED  BY <2>2, <2>3, <2>4 DEF LeaseInv
<1>3. CASE Restart
  BY <1>3 DEF Restart, LeaseInv
<1>4. CASE UNCHANGED vars
  BY <1>4 DEF vars, leaseVars, timeVars, clientVars, LeaseInv, Holds
<1> QED  BY <1>1, <1>2, <1>3, <1>4, LeaseDiscover, LeaseRequest DEF Next

LEMMA Leases == Spec => [](TypeOK /\ LeaseInv)
  BY TypeInit, TypeStep, LeaseInit, LeaseStep, PTL DEF Spec

(* No address is in the leases of two clients, across wraps of the clock   *)
(* and whatever is lost, as far as this run of the server gave them.       *)
THEOREM AddressesAreUnique == Spec => []UniqueAddress
<1>1. LeaseInv => UniqueAddress
  BY DEF LeaseInv, UniqueAddress
<1> QED  BY <1>1, Leases, PTL

(* When no lease can be had, each one is running or ended more than half   *)
(* a turn of the clock ago.                                                *)
THEOREM RefusedOnlyWhenFull == Spec => []RefusesWhenFull
<1>1. TypeOK /\ LeaseInv => RefusesWhenFull
  <2> SUFFICES ASSUME TypeOK, LeaseInv, Available = {}, NEW i \in Ips,
                      ~(granted[i] >= now), ~(now - granted[i] > ClockSize \div 2)
               PROVE  FALSE
    BY DEF RefusesWhenFull
  <2>1. mac[i] # Nobody /\ ~Expired(i)
    BY DEF Available
  <2>2. granted[i] \in Int /\ now \in Int /\ booted \in Int
    BY DEF TypeOK
  <2>3. PICK u \in Int : u = granted[i] - booted
    BY <2>2
  <2>4. PICK n \in Int : n = now - booted
    BY <2>2
  <2>5. u < n /\ n - u <= ClockSize \div 2
    BY <2>2, <2>3, <2>4, ClockFacts
  <2>6. expiry[i] = u % ClockSize
    BY <2>1, <2>3 DEF LeaseInv
  <2>7. ((u % ClockSize) - n) % ClockSize >= ClockSize \div 2
    BY <2>5, EndedIsExpired
  <2> QED  BY <2>1, <2>4, <2>6, <2>7 DEF Expired, Clock
<1> QED  BY <1>1, Leases, PTL

-----------------------------------------------------------------------------
(* The leases of a client that takes what it is offered.                   *)

(* Such a client has a lease besides none it was offered or holds; and it  *)
(* looks for an address only when it has none.                             *)
OneInv ==
  \A c \in Clients \ Remember :
    /\ \A i, j \in Own(c) : i = j
    /\ \A i \in Ips : i = offer[c] \/ Holds(c, i) => Own(c) \subseteq {i}
    /\ offer[c] # None => ~Configured(c)

LEMMA OneInit == Init => OneInv
<1> SUFFICES ASSUME Init
             PROVE  OneInv
  OBVIOUS
<1>1. \A c \in Clients : Own(c) = {} /\ offer[c] = None
  BY ClockFacts DEF Init, Own
<1> QED  BY <1>1 DEF OneInv

(* An address never counts as no address.                                  *)
LEMMA NoneIsNoIp == None \notin Ips
  BY DhcpAssumption DEF None, Ips

(* The lease found is the client's own if it has one; another client can   *)
(* only lose a lease.                                                      *)
LEMMA OneDiscover ==
  ASSUME TypeOK, OneInv, NEW c \in Clients, Discover(c)
  PROVE  OneInv'
<1>1. \A d \in Clients : Own(d)' \subseteq Own(d)
  BY ClockFacts DEF Discover, Own
<1>2. \A d \in Clients, i \in Ips : Holds(d, i)' <=> Holds(d, i)
  BY DEF Discover, Holds, timeVars
<1>3. \A d \in Clients : Configured(d)' <=> Configured(d)
  BY <1>2 DEF Configured
<1>4. \A d \in Clients \ {c} : offer'[d] = offer[d]
  BY DEF Discover, TypeOK
<1>5. ~Configured(c)
  BY DEF Discover
<1>6. ASSUME c \notin Remember, NEW i \in Ips, i = offer'[c]
      PROVE  Own(c) \subseteq {i}
  <2>1. First(Own(c), i) \/ Own(c) = {}
    BY <1>6, NoneIsNoIp DEF Discover, TypeOK
  <2> QED  BY <1>6, <2>1 DEF OneInv, First
<1>7. ASSUME NEW d \in Clients \ Remember, NEW i \in Ips, i = offer'[d] \/ Holds(d, i)'
      PROVE  Own(d)' \subseteq {i}
  <2>1. CASE d = c
    BY <1>1, <1>2, <1>5, <1>6, <1>7, <2>1 DEF Configured
  <2>2. CASE d # c
    BY <1>1, <1>2, <1>4, <1>7, <2>2 DEF OneInv
  <2> QED  BY <2>1, <2>2
<1>8. ASSUME NEW d \in Clients \ Remember, offer'[d] # None
      PROVE  ~Configured(d)'
  BY <1>3, <1>4, <1>5, <1>8 DEF OneInv
<1>9. \A d \in Clients \ Remember : \A i, j \in Own(d)' : i = j
  BY <1>1 DEF OneInv
<1> QED  BY <1>7, <1>8, <1>9 DEF OneInv

(* A lease is granted: the client asked for the one it could have.         *)
LEMMA OneRequest ==
  ASSUME TypeOK, OneInv, NEW c \in Clients, NEW i \in Ips,
         Acked(c, i) \/ AckLost(c, i)
  PROVE  OneInv'
<1>1. Asks(c, i) /\ Grant(c, i) /\ UNCHANGED timeVars
  BY DEF Acked, AckLost
<1>2. mac' = [mac EXCEPT ![i] = c] /\ mac[i] \in {c, Nobody}
  BY <1>1 DEF Grant, MayUse
<1>3. \A d \in Clients \ {c} : Own(d)' = Own(d)
  BY <1>2, ClockFacts DEF Own, TypeOK
<1>4. Own(c)' = Own(c) \cup {i}
  BY <1>2 DEF Own, TypeOK
<1>5. ASSUME c \notin Remember
      PROVE  Own(c)' = {i}
  <2>1. Own(c) \subseteq {i}
    BY <1>1, <1>5 DEF Asks, OneInv
  <2> QED  BY <1>4, <2>1
<1>6. /\ offer'[c] = None
      /\ \A d \in Clients \ {c} : offer'[d] = offer[d]
  BY <1>1 DEF Grant, TypeOK
<1>7. \A d \in Clients \ {c}, j \in Ips : Holds(d, j)' <=> Holds(d, j)
  BY DEF Acked, AckLost, Holds, timeVars, TypeOK
<1>8. ASSUME c \notin Remember, NEW j \in Ips, Holds(c, j)'
      PROVE  j = i
  <2>1. CASE Acked(c, i)
    BY <1>8, <2>1 DEF Acked, Holds, TypeOK
  <2>2. CASE AckLost(c, i)
    <3>1. Holds(c, j)
      BY <1>8, <2>2 DEF AckLost, Holds, timeVars
    <3>2. i = offer[c] => offer[c] # None
      BY NoneIsNoIp
    <3>3. Holds(c, i)
      BY <1>1, <1>8, <3>1, <3>2 DEF Asks, OneInv, Configured
    <3> QED  BY <3>1, <3>3 DEF Holds
  <2> QED  BY <2>1, <2>2
<1>9. ASSUME NEW d \in Clients \ Remember
      PROVE  /\ \A j, k \in Own(d)' : j = k
             /\ \A j \in Ips : j = offer'[d] \/ Holds(d, j)' => Own(d)' \subseteq {j}
             /\ offer'[d] # None => ~Configured(d)'
  <2>1. CASE d = c
    BY <1>5, <1>6, <1>8, <2>1, NoneIsNoIp
  <2>2. CASE d # c
    <3>1. Configured(d)' <=> Configured(d)
      BY <1>7, <2>2 DEF Configured
    <3> QED  BY <1>3, <1>6, <1>7, <2>2, <3>1 DEF OneInv
  <2> QED  BY <2>1, <2>2
<1> QED  BY <1>9 DEF OneInv

(* Time only ends leases, a restart forgets them all.                      *)
LEMMA OneOther ==
  ASSUME TypeOK, OneInv,
         \/ \E c \in Clients, i \in Ips : Unanswered(c, i)
         \/ Passes \/ Restart \/ UNCHANGED vars
  PROVE  OneInv'
<1>1. CASE Restart
  <2>1. \A c \in Clients : Own(c)' = {}
    BY <1>1, ClockFacts DEF Restart, Own
  <2>2. \A c \in Clients : Configured(c)' <=> Configured(c)
    BY <1>1 DEF Restart, Configured, Holds
  <2> QED  BY <1>1, <2>1, <2>2 DEF OneInv, Restart
<1>2. CASE ~Restart
  <2>1. \A c \in Clients : Own(c)' = Own(c)
    BY <1>2 DEF Unanswered, Passes, vars, leaseVars, Own
  <2>2. \A c \in Clients : offer'[c] \in {offer[c], None}
    BY <1>2 DEF Unanswered, Passes, vars, clientVars, TypeOK
  <2>3. \A c \in Clients, i \in Ips : Holds(c, i)' => Holds(c, i)
    <3>1. now <= now' /\ now' \in Int /\ now \in Int
      BY <1>2 DEF Unanswered, Passes, vars, timeVars, TypeOK
    <3>2. UNCHANGED <<held, until>> /\ \A c \in Clients : until[c] \in Int
      BY <1>2 DEF Unanswered, Passes, vars, clientVars, TypeOK
    <3> QED  BY <3>1, <3>2 DEF Holds
  <2> QED  BY <2>1, <2>2, <2>3, NoneIsNoIp DEF OneInv, Configured
<1> QED  BY <1>1, <1>2

LEMMA OneStep == TypeOK /\ OneInv /\ [Next]_vars => OneInv'
  BY OneDiscover, OneRequest, OneOther DEF Next

(* A client that takes what it is offered has one lease at most, however   *)
(* many of its messages and answers are lost, and across restarts.         *)
THEOREM OneLeaseForEach == Spec => []OneLeaseEach
<1>1. OneInv => OneLeaseEach
  <2> SUFFICES ASSUME OneInv, NEW c \in Clients \ Remember
               PROVE  Cardinality(Own(c)) <= 1
    BY DEF OneLeaseEach, Own
  <2>1. \A i, j \in Own(c) : i = j
    BY DEF OneInv
  <2>2. CASE Own(c) = {}
    BY <2>2, FS_EmptySet
  <2>3. CASE Own(c) # {}
    <3>1. PICK i : Own(c) = {i}
      BY <2>1, <2>3
    <3>2. Cardinality({i}) = 1
      BY FS_Singleton
    <3> QED  BY <3>1, <3>2
  <2> QED  BY <2>2, <2>3
<1> QED  BY <1>1, TypeInit, TypeStep, OneInit, OneStep, PTL DEF Spec

(* As many addresses as clients, and clients that take what they are       *)
(* offered.                                                                *)
Enough ==
  /\ Remember = {}
  /\ IsFiniteSet(Clients) /\ Cardinality(Clients) <= MaxIp

(* If somebody has no lease, some lease is nobody's: else the leases would *)
(* be shared out among fewer clients than there are leases.                *)
LEMMA OneIsLeft ==
  ASSUME TypeOK, OneInv, Enough, NEW c \in Clients, Own(c) = {}
  PROVE  \E i \in Ips : mac[i] = Nobody
<1> SUFFICES ASSUME \A i \in Ips : mac[i] # Nobody
             PROVE  FALSE
  OBVIOUS
<1> DEFINE Others == Clients \ {c}
<1>1. IsFiniteSet(Others) /\ Cardinality(Others) = Cardinality(Clients) - 1
  BY FS_RemoveElement DEF Enough
<1>2. IsFiniteSet(Ips) /\ Cardinality(Ips) = MaxIp
  BY FS_Interval, DhcpAssumption DEF Ips
<1>3. Cardinality(Clients) \in Nat
  BY FS_CardinalityType DEF Enough
<1>4. Cardinality(Others) < Cardinality(Ips)
  BY <1>1, <1>2, <1>3, DhcpAssumption DEF Enough
<1>5. mac \in [Ips -> Others]
  BY DEF TypeOK, Own
<1> HIDE DEF Others
<1>6. PICK i, j \in Ips : i # j /\ mac[i] = mac[j]
  BY <1>1, <1>2, <1>4, <1>5, FS_PigeonHole
<1>7. mac[i] \in Clients \ Remember
  BY <1>5 DEF Others, Enough
<1>8. i \in Own(mac[i]) /\ j \in Own(mac[i])
  BY <1>6 DEF Own
<1> QED  BY <1>6, <1>7, <1>8 DEF OneInv

(* A lease dhcp_server_process can find for a client.                      *)
LeaseFor(c) == Own(c) # {} \/ Available # {}

(* If there is one, the answer to a DISCOVER offers an address.            *)
LEMMA FoundIsOffered ==
  ASSUME TypeOK, NEW c \in Clients, LeaseFor(c), Discover(c)
  PROVE  offer'[c] \in Ips
<1>1. CASE Own(c) # {}
  <2>1. PICK yi \in Ips \cup {None} :
          First(Own(c), yi) /\ offer' = [offer EXCEPT ![c] = yi]
    BY <1>1 DEF Discover
  <2>2. yi \in Ips
    BY <2>1 DEF First, Own
  <2> QED  BY <2>1, <2>2 DEF TypeOK
<1>2. CASE Own(c) = {}
  <2>1. Available # {}
    BY <1>2 DEF LeaseFor
  <2>2. PICK yi \in Ips \cup {None} :
          /\ \/ First(Available, yi)
             \/ Available = {} /\ yi = None
          /\ offer' = [offer EXCEPT ![c] = yi]
    BY <1>2, Zenon DEF Discover, First
  <2>3. yi \in Ips
    BY <2>1, <2>2 DEF First, Available
  <2> QED  BY <2>2, <2>3 DEF TypeOK
<1> QED  BY <1>1, <1>2

(* With as many addresses as clients, and clients that take what they are  *)
(* offered, there is always a lease for every client: no lost message,     *)
(* late ACK or restart makes dhcp_server_process drop a DISCOVER for want  *)
(* of one, and every DISCOVER that arrives is answered with an address.    *)
(* This is the safety part of GetsAddress.  (A refusal changes no variable *)
(* and is a step like stuttering: it is the invariant that excludes it.)   *)
THEOREM EveryoneIsServed ==
  Enough =>
    (Spec => /\ [](\A c \in Clients : LeaseFor(c))
             /\ [][\A c \in Clients : Discover(c) => offer'[c] \in Ips]_vars)
<1> SUFFICES ASSUME Enough
             PROVE  Spec => /\ [](\A c \in Clients : LeaseFor(c))
                            /\ [][\A c \in Clients :
                                    Discover(c) => offer'[c] \in Ips]_vars
  OBVIOUS
<1>1. TypeOK /\ OneInv => \A c \in Clients : LeaseFor(c)
  BY OneIsLeft DEF LeaseFor, Available
<1>2. TypeOK /\ (\A c \in Clients : LeaseFor(c)) /\ [Next]_vars
        => [\A c \in Clients : Discover(c) => offer'[c] \in Ips]_vars
  BY FoundIsOffered
<1> QED  BY <1>1, <1>2, TypeInit, TypeStep, OneInit, OneStep, PTL DEF Spec
=============================================================================
