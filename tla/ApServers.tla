------------------------------ MODULE ApServers ------------------------------
(***************************************************************************)
(* The servers of the access point as wifi_init_task starts them, one      *)
(* after the other, while clients already send: the DHCP server with the   *)
(* reading of its messages, and DnsServer.  What the DHCP server does with *)
(* its leases is DhcpServer's; here a lease may be free or not.            *)
(***************************************************************************)
EXTENDS DnsServer

CONSTANTS
  OptSize,  (* Bytes looked through for an option (308).                   *)
  Options,  (* The options clients send: code and data.                    *)
  MaxOptions,  (* Bound: options of a message.                             *)
  Prefix    (* The first three bytes of the unit's address.                *)

DHCP_OPT_REQUESTED_IP == 50
DHCP_OPT_MSG_TYPE == 53
DHCP_OPT_END == 255
DHCPDISCOVER == 1
DHCPREQUEST == 3
DHCPS_BASE_IP == 16
DHCPS_MAX_IP == 8
NotFound == OptSize

ASSUME ApAssumption ==
  /\ OptSize \in Nat \ {0}
  /\ MaxOptions \in Nat
  /\ \A o \in Options : o.code \in 1 .. 254 /\ o.data \in Seq(0 .. 255)
  /\ \A o \in Options : Len(o.data) \in 1 .. 255

VARIABLES
  dhcpStart,  (* The step of dhcp_server_init: "ip", "new", "bind", then   *)
              (* "up", or "off" without memory.                            *)
  dhcpIp,     (* dhcp_server_t::ip.                                        *)
  opts,       (* The options of the last message.                          *)
  dhcpAnswer  (* The answer to it: the address the unit gives as its own,  *)
              (* and the last byte of the client's; or nothing.            *)

dhcpVars == <<dhcpStart, dhcpIp, opts, dhcpAnswer>>
vars == <<dnsVars, dhcpVars>>

Ignored == [kind |-> "ignored", server |-> Unset, yiaddr |-> 0]

TypeOK ==
  /\ DnsTypeOK
  /\ dhcpStart \in {"ip", "new", "bind", "up", "off"}
  /\ dhcpIp \in {Our, Unset}
  /\ opts \in Seq(Options)
  /\ dhcpAnswer \in [kind: {"ignored", "offer", "ack"}, server: {Our, Unset}, yiaddr: 0 .. 255]

Init ==
  /\ DnsInit
  /\ dhcpStart = "ip" /\ dhcpIp = Unset
  /\ opts = <<>> /\ dhcpAnswer = Ignored

-----------------------------------------------------------------------------
(* dhcp_server_init.                                                       *)

(* Mutant of DhcpCopy: the address is not copied.                          *)
MutDhcpCopy ==
  /\ dhcpStart = "ip"
  /\ dhcpStart' = "new"
  /\ UNCHANGED <<dhcpIp, opts, dhcpAnswer, dnsVars>>

DhcpCopy ==
  /\ dhcpStart = "ip"
  /\ dhcpStart' = "new" /\ dhcpIp' = Our
  /\ UNCHANGED <<opts, dhcpAnswer, dnsVars>>

DhcpNew ==
  /\ dhcpStart = "new"
  /\ dhcpStart' \in {"bind", "off"}
  /\ UNCHANGED <<dhcpIp, opts, dhcpAnswer, dnsVars>>

DhcpBind ==
  /\ dhcpStart = "bind"
  /\ dhcpStart' = "up"
  /\ UNCHANGED <<dhcpIp, opts, dhcpAnswer, dnsVars>>

-----------------------------------------------------------------------------
(* The options of a message.                                               *)

(* The bytes of an option, and of a list of them with DHCP_OPT_END.        *)
Block(o) == <<o.code, Len(o.data)>> \o o.data

Bytes(list) == FlattenSeq([k \in DOMAIN list |-> Block(list[k])]) \o <<DHCP_OPT_END>>

(* Byte i of the options; behind the end anything, here the end again.     *)
At(bytes, i) == IF i < Len(bytes) THEN bytes[i + 1] ELSE DHCP_OPT_END

(* Mutant of opt_find: every byte is looked at.                            *)
MutOptFind(bytes, cmd) ==
  LET Hits == {i \in 0 .. OptSize - 1 : At(bytes, i) = cmd}
  IN  IF Hits = {} THEN NotFound ELSE CHOOSE i \in Hits : \A j \in Hits : i <= j

(* Where the option begins, or NotFound.                                   *)
opt_find(bytes, cmd) ==
  LET From[i \in 0 .. OptSize + 257] ==
        IF i >= OptSize \/ At(bytes, i) = DHCP_OPT_END THEN NotFound
        ELSE IF At(bytes, i) = cmd THEN i
        ELSE From[i + 2 + At(bytes, i + 1)]
  IN  From[0]

(* The bytes of the first n options.                                       *)
Offset(list, n) == Total([k \in 1 .. n |-> 2 + Len(list[k].data)])

(* The reference: the first option of that code, behind those before it.   *)
FirstOption(list, cmd) ==
  IF \E k \in DOMAIN list : list[k].code = cmd
  THEN LET k == CHOOSE j \in DOMAIN list :
                  list[j].code = cmd /\ \A i \in 1 .. j - 1 : list[i].code # cmd
       IN  Offset(list, k - 1)
  ELSE NotFound

-----------------------------------------------------------------------------
(* dhcp_server_process.                                                    *)

(* Mutant of LeaseOf: an address below the pool is not noticed.            *)
MutLeaseOf(byte) == IF byte < DHCPS_BASE_IP THEN 0 ELSE byte - DHCPS_BASE_IP

(* The lease of an address, a uint8_t.                                     *)
LeaseOf(byte) == (byte + 256 - DHCPS_BASE_IP) % 256

Kind(bytes) ==
  IF opt_find(bytes, DHCP_OPT_MSG_TYPE) = NotFound THEN 0
  ELSE At(bytes, opt_find(bytes, DHCP_OPT_MSG_TYPE) + 2)

(* The callbacks of the two servers do not interrupt each other.  Options  *)
(* that dhcp_msg has no room for are not modelled.                         *)
Listening(list) ==
  /\ dhcpStart = "up"
  /\ pc = "idle" /\ outcome = "none" /\ opts = <<>>
  /\ Len(Bytes(list)) <= OptSize
  /\ opts' = list
  /\ UNCHANGED <<dhcpStart, dhcpIp, dnsVars>>

(* An OFFER of any lease.                                                  *)
Offer(list) ==
  /\ Listening(list)
  /\ Kind(Bytes(list)) = DHCPDISCOVER
  /\ \E yi \in 0 .. DHCPS_MAX_IP - 1 :
       dhcpAnswer' = [kind |-> "offer", server |-> dhcpIp, yiaddr |-> DHCPS_BASE_IP + yi]

(* The address a REQUEST asks for, if the unit may give it.                *)
Ack(list) ==
  LET bytes == Bytes(list)
      o == opt_find(bytes, DHCP_OPT_REQUESTED_IP)
      yi == LeaseOf(At(bytes, o + 5))
  IN  /\ Listening(list)
      /\ Kind(bytes) = DHCPREQUEST
      /\ o # NotFound
      /\ <<At(bytes, o + 2), At(bytes, o + 3), At(bytes, o + 4)>> = Prefix
      /\ yi \in 0 .. DHCPS_MAX_IP - 1
      /\ dhcpAnswer' = [kind |-> "ack", server |-> dhcpIp, yiaddr |-> DHCPS_BASE_IP + yi]

(* No answer: another kind of message, no such address, or no lease.       *)
NoAck(list) ==
  /\ Listening(list)
  /\ dhcpAnswer' = Ignored

Lists == UNION {[1 .. n -> Options] : n \in 0 .. MaxOptions}

(* A step of the DNS server, which is started after the DHCP server.       *)
DnsStep ==
  /\ dhcpStart \in {"up", "off"} /\ opts = <<>>
  /\ DnsNext
  /\ UNCHANGED dhcpVars

(* The record of a message is dropped: each is handled on its own.         *)
Over ==
  /\ opts # <<>> \/ outcome # "none"
  /\ Forget
  /\ opts' = <<>> /\ dhcpAnswer' = Ignored
  /\ UNCHANGED <<dhcpStart, dhcpIp>>

Next ==
  \/ DhcpCopy \/ DhcpNew \/ DhcpBind \/ DnsStep \/ Over
  \/ \E list \in Lists : Offer(list) \/ Ack(list) \/ NoAck(list)

Spec == Init /\ [][Next]_vars

-----------------------------------------------------------------------------
(* Properties.                                                             *)

(* Nobody is told an address of the unit but its own, except by the DNS    *)
(* server if the question came before dns_server_init was over.            *)
OwnAddress ==
  /\ dhcpAnswer.kind # "ignored" => dhcpAnswer.server = Our
  /\ outcome = "answered" /\ ~early => answer.ip = Our

(* An option is found wherever it is and whatever the others carry.        *)
FindsOptions ==
  \A cmd \in {o.code : o \in Options} : opt_find(Bytes(opts), cmd) = FirstOption(opts, cmd)

InFull(list) ==
  \A k \in DOMAIN list : list[k].code = DHCP_OPT_REQUESTED_IP => Len(list[k].data) >= 4

(* A client that names an address in full is given that very address, and  *)
(* it is one of the pool.                                                  *)
AckIsAsked ==
  dhcpAnswer.kind = "ack" /\ InFull(opts) =>
    \E k \in DOMAIN opts :
      /\ opts[k].code = DHCP_OPT_REQUESTED_IP
      /\ dhcpAnswer.yiaddr = opts[k].data[4]
      /\ dhcpAnswer.yiaddr \in DHCPS_BASE_IP .. DHCPS_BASE_IP + DHCPS_MAX_IP - 1
=============================================================================
