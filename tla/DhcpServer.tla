----------------------------- MODULE DhcpServer -----------------------------
(***************************************************************************)
(* The DHCP server of the access point, its clients, and time.  The server *)
(* answers a DISCOVER or a REQUEST within one callback; messages and       *)
(* answers can be lost or late.                                            *)
(*                                                                         *)
(* A lease keeps the upper 16 bits of the 32-bit millisecond clock at its  *)
(* end.  Time is counted in that unit (65.536 s): a lease of 24 h ends     *)
(* 1318 units after the one it starts in or, from some point of the unit   *)
(* on, 1319, and the server reads its end as the end of that unit          *)
(* (<< 16 | 0xffff).                                                       *)
(***************************************************************************)
EXTENDS Integers, FiniteSets

CONSTANTS
  Clients,      (* The clients' MAC addresses.                             *)
  Nobody,       (* The MAC address 00:00:00:00:00:00 of a free lease.      *)
  MaxIp,        (* Number of leases (DHCPS_MAX_IP, 8).                     *)
  ClockSize,    (* Values of a clock of such units (2^16).                 *)
  LeaseUnits,   (* Full units a lease lasts (1318).                        *)
  Remember,     (* The clients that ask for an address they had before.    *)
  MaxTime,      (* Bound: units of time.                                   *)
  MaxRestarts   (* Bound: restarts of the firmware.                        *)

ASSUME DhcpAssumption ==
  /\ Nobody \notin Clients
  /\ MaxIp \in Nat \ {0}
  /\ ClockSize \in Nat /\ ClockSize % 2 = 0
  /\ LeaseUnits \in Nat /\ LeaseUnits + 1 < ClockSize \div 2
  /\ Remember \subseteq Clients
  /\ MaxTime \in Nat /\ MaxRestarts \in Nat

VARIABLES
  mac,      (* dhcp_server_t::lease[].mac.                                 *)
  expiry,   (* dhcp_server_t::lease[].expiry.                              *)
  now,      (* Time.                                                       *)
  carry,    (* 1 in the part of a unit in which a lease gets one more unit.*)
  booted,   (* When the server's clock started.                            *)
  offer,    (* Clients: the address offered and not asked for yet.         *)
  held,     (* Clients: the address of their last lease.                   *)
  until,    (* Clients: the last unit of that lease.                       *)
  granted,  (* History: the true end of the lease last given, by address.  *)
  known,    (* History: the clients whose lease this run of the server     *)
            (* gave.                                                       *)
  restarts  (* Number of restarts (bounds the model).                      *)

leaseVars  == <<mac, expiry, granted>>
clientVars == <<offer, held, until, known>>
timeVars == <<now, carry, booted>>
vars == <<leaseVars, timeVars, clientVars, restarts>>

Ips  == 0 .. MaxIp - 1
None == MaxIp  (* No address: DHCPS_MAX_IP, as in dhcp_server_process.     *)

TypeOK ==
  /\ mac \in [Ips -> Clients \cup {Nobody}]
  /\ expiry \in [Ips -> 0 .. ClockSize - 1]
  /\ now \in 0 .. MaxTime
  /\ carry \in {0, 1}
  /\ booted \in 0 .. now
  /\ offer \in [Clients -> Ips \cup {None}]
  /\ held \in [Clients -> Ips \cup {None}]
  /\ until \in [Clients -> Nat]
  /\ granted \in [Ips -> Int]
  /\ known \subseteq Clients
  /\ restarts \in 0 .. MaxRestarts

(* dhcp_server_init.                                                       *)
Init ==
  /\ mac = [i \in Ips |-> Nobody]
  /\ expiry = [i \in Ips |-> 0]
  /\ now = 0
  /\ carry = 0
  /\ booted = 0
  /\ offer = [c \in Clients |-> None]
  /\ held = [c \in Clients |-> None]
  /\ until = [c \in Clients |-> 0]
  /\ granted = [i \in Ips |-> -1]
  /\ known = {}
  /\ restarts = 0

-----------------------------------------------------------------------------
(* The lease table.                                                        *)

(* cyw43_hal_ticks_ms, in units.                                           *)
Clock == now - booted

(* Mutant of Expired: the clocks compared as unsigned numbers.             *)
MutExpired(i) == expiry[i] < Clock % ClockSize

(* (int32_t)(expiry - now) < 0.                                            *)
Expired(i) == (expiry[i] - Clock) % ClockSize >= ClockSize \div 2

(* Mutant of Available: leases that have ended are not looked for.         *)
MutAvailable == {i \in Ips : mac[i] = Nobody}

(* The leases a new client can have.                                       *)
Available == {i \in Ips : mac[i] = Nobody \/ Expired(i)}

(* Mutant of Own: no search for the client's lease.                        *)
MutOwn(c) == {}

Own(c) == {i \in Ips : mac[i] = c}

(* Mutant of MayUse: only an unused address.                               *)
MutMayUse(c, i) == mac[i] = Nobody

(* A REQUEST is granted to the owner of the lease, or if there is none.    *)
MayUse(c, i) == mac[i] \in {c, Nobody}

(* Mutant of EndOfLease: more than 16 bits.                                *)
MutEndOfLease == Clock + LeaseUnits + carry

(* The expiry of a lease given now, a uint16_t.                            *)
EndOfLease == (Clock + LeaseUnits + carry) % ClockSize

-----------------------------------------------------------------------------
(* The server and its clients.                                             *)

Holds(c, i) == held[c] = i /\ now <= until[c]
Configured(c) == \E i \in Ips : Holds(c, i)

(* The search goes through the leases in order.                            *)
First(S, i) == i \in S /\ \A j \in S : i <= j

(* A client without an address broadcasts a DISCOVER.  The search goes on  *)
(* to the client's own lease after it has found an available one, and an   *)
(* expired lease found on the way is wiped even if it is not used.         *)
Discover(c) ==
  /\ ~Configured(c) /\ offer[c] = None
  /\ LET found == {i \in Available : \A j \in Own(c) : i < j}
     IN  /\ mac' = [i \in Ips |-> IF First(found, i) THEN Nobody ELSE mac[i]]
         /\ \E yi \in Ips \cup {None} :
              /\ \/ First(Own(c), yi)
                 \/ Own(c) = {} /\ First(found, yi)
                 \/ Own(c) = {} /\ found = {} /\ yi = None
              /\ offer' = [offer EXCEPT ![c] = yi]
  /\ UNCHANGED <<expiry, granted, timeVars, held, until, known, restarts>>

(* What a client asks for: what it was offered, the lease it renews, or    *)
(* what it has had.                                                        *)
Asks(c, i) ==
  /\ i \in Ips
  /\ i = offer[c] \/ Holds(c, i) \/ (c \in Remember /\ i = held[c])

Grant(c, i) ==
  /\ MayUse(c, i)
  /\ mac' = [mac EXCEPT ![i] = c]
  /\ expiry' = [expiry EXCEPT ![i] = EndOfLease]
  /\ granted' = [granted EXCEPT ![i] = now + LeaseUnits + carry]
  /\ offer' = [offer EXCEPT ![c] = None]

(* A REQUEST is granted and the ACK arrives.                               *)
Acked(c, i) ==
  /\ Asks(c, i)
  /\ Grant(c, i)
  /\ held' = [held EXCEPT ![c] = i]
  /\ until' = [until EXCEPT ![c] = now + LeaseUnits + carry]
  /\ known' = known \cup {c}
  /\ UNCHANGED <<timeVars, restarts>>

(* A REQUEST is granted but the ACK is lost.                               *)
AckLost(c, i) ==
  /\ Asks(c, i)
  /\ Grant(c, i)
  /\ UNCHANGED <<timeVars, held, until, known, restarts>>

(* A REQUEST without an answer: it was lost, or somebody else has the      *)
(* lease ("Should be NACK").  The client starts again.                     *)
Unanswered(c, i) ==
  /\ Asks(c, i)
  /\ i = offer[c]
  /\ offer' = [offer EXCEPT ![c] = None]
  /\ UNCHANGED <<leaseVars, timeVars, held, until, known, restarts>>

Passes ==
  /\ now < MaxTime
  /\ IF carry = 0 THEN carry' = 1 /\ UNCHANGED now
                  ELSE carry' = 0 /\ now' = now + 1
  /\ UNCHANGED <<leaseVars, booted, clientVars, restarts>>

(* The firmware restarts: dhcp_server_init again, and a new clock.         *)
Restart ==
  /\ restarts < MaxRestarts
  /\ restarts' = restarts + 1
  /\ mac' = [i \in Ips |-> Nobody]
  /\ expiry' = [i \in Ips |-> 0]
  /\ booted' = now /\ carry' = 0
  /\ granted' = [i \in Ips |-> -1]
  /\ known' = {}
  /\ UNCHANGED <<now, offer, held, until>>

Next ==
  \/ \E c \in Clients :
       \/ Discover(c)
       \/ \E i \in Ips : Acked(c, i) \/ AckLost(c, i) \/ Unanswered(c, i)
  \/ Passes
  \/ Restart

Spec == Init /\ [][Next]_vars

(* Clients keep trying, and not every exchange is lost.                    *)
FairSpec ==
  /\ Spec
  /\ \A c \in Clients : /\ WF_vars(Discover(c))
                        /\ WF_vars(\E i \in Ips : Unanswered(c, i))
                        /\ SF_vars(\E i \in Ips : Acked(c, i))

-----------------------------------------------------------------------------
(* Properties.                                                             *)

(* No address is in the lease of two clients at once, if both leases are   *)
(* of this run of the server: a restart forgets the leases.                *)
UniqueAddress ==
  \A c, d \in known, i \in Ips : Holds(c, i) /\ Holds(d, i) => c = d

(* A new client is refused only if every lease is running, or ended so     *)
(* long ago that the clock has come around.                                *)
RefusesWhenFull ==
  Available = {} =>
    \A i \in Ips : granted[i] >= now \/ now - granted[i] > ClockSize \div 2

(* A client that takes what it is offered has one lease at most, whatever  *)
(* is lost.                                                                *)
OneLeaseEach ==
  \A c \in Clients \ Remember : Cardinality({i \in Ips : mac[i] = c}) <= 1

(* Every client gets an address, again and again, as long as there are as  *)
(* many leases as clients.                                                 *)
GetsAddress == \A c \in Clients : []<>Configured(c)
=============================================================================
