------------------------------ MODULE DnsServer ------------------------------
(***************************************************************************)
(* The DNS server of the access point: its start and its handling of one   *)
(* message at a time, in the steps of the walk over the question's labels. *)
(* A message is what the walk reads of it: its length, three header fields *)
(* and the length bytes of the labels, which are drawn as they are read.   *)
(* The server starts in wifi_init_task; messages come in the network's own *)
(* task as soon as the socket is bound.                                    *)
(***************************************************************************)
EXTENDS Naturals, SequencesExt

CONSTANTS
  MaxMsg,      (* MAX_DNS_MSG_SIZE (300).                                  *)
  Header,      (* sizeof(dns_header_t) (12).                               *)
  MaxLabel,    (* Longest label (63).                                      *)
  MaxName,     (* Longest name, with its length bytes (255).               *)
  AnswerSize,  (* Bytes of an answer (16).                                 *)
  Our, Unset,  (* The address of the unit, and 0.0.0.0.                    *)
  Sizes,       (* Lengths of messages.                                     *)
  Labels,      (* Length bytes of labels, without the last one, 0.         *)
  MaxLabels    (* Bound: labels of a name.                                 *)

ASSUME DnsAssumption ==
  /\ MaxMsg \in Nat /\ Header \in Nat /\ MaxLabel \in Nat /\ MaxName \in Nat
  /\ AnswerSize \in Nat
  /\ Header + MaxName + 4 + AnswerSize <= MaxMsg
  /\ Our # Unset
  /\ Sizes \subseteq Nat
  /\ Labels \subseteq Nat \ {0}
  /\ MaxLabels \in Nat

VARIABLES
  dnsStart,  (* The step of dns_server_init: "new", "bind", "ip", then     *)
             (* "up", or "off" without memory.                             *)
  dnsIp,     (* dns_server_t::ip.                                          *)
  pc,        (* dns_server_process: "idle", or the step it is at.          *)
  msg,       (* The message.                                               *)
  ptr,       (* question_ptr - dns_msg.                                    *)
  outcome,   (* What became of the last message: "none" as yet.            *)
  answer,    (* The last answer: where in the message it is, and whose     *)
             (* address it has.                                            *)
  labels,    (* History: the length bytes read.                            *)
  early      (* History: the message came before the server was up.        *)

handlerVars == <<pc, msg, ptr, outcome, answer, labels, early>>
dnsVars == <<dnsStart, dnsIp, handlerVars>>

(* Mutant of Copied: the whole message is copied.                          *)
MutCopied(n) == n

(* pbuf_copy_partial: what of n bytes fits into dns_msg.                   *)
Copied(n) == IF n < MaxMsg THEN n ELSE MaxMsg

Messages  == [size: {Copied(n) : n \in Sizes}, query: BOOLEAN, questions: 0 .. 1]
NoMessage == [size |-> 0, query |-> FALSE, questions |-> 0]
NoAnswer  == [at |-> 0, ip |-> Unset]

DnsTypeOK ==
  /\ dnsStart \in {"new", "bind", "ip", "up", "off"}
  /\ dnsIp \in {Our, Unset}
  /\ pc \in {"idle", "check", "walk", "length"}
  /\ msg \in [size: 0 .. MaxMsg, query: BOOLEAN, questions: 0 .. 1]
  /\ ptr \in Nat
  /\ outcome \in {"none", "ignored", "answered", "dropped"}
  /\ answer \in [at: Nat, ip: {Our, Unset}]
  /\ labels \in Seq(Nat)
  /\ early \in BOOLEAN

(* dns is a static object.                                                 *)
DnsInit ==
  /\ dnsStart = "new" /\ dnsIp = Unset
  /\ pc = "idle" /\ msg = NoMessage /\ ptr = 0
  /\ outcome = "none" /\ answer = NoAnswer
  /\ labels = <<>> /\ early = FALSE

(* The handler at the start of step p, with message m.                     *)
Fresh(p, m, e) ==
  /\ pc' = p /\ msg' = m /\ ptr' = 0
  /\ outcome' = "none" /\ answer' = NoAnswer
  /\ labels' = <<>> /\ early' = e
  /\ UNCHANGED <<dnsStart, dnsIp>>

(* The record of the last message is dropped.                              *)
Forget == pc = "idle" /\ Fresh("idle", NoMessage, FALSE)
-----------------------------------------------------------------------------
(* dns_server_init.                                                        *)

(* dns_socket_new_dgram, which may find no memory.                         *)
DnsNew ==
  /\ dnsStart = "new"
  /\ dnsStart' \in {"bind", "off"}
  /\ UNCHANGED <<dnsIp, handlerVars>>

(* dns_socket_bind: messages come from now on.                             *)
DnsBind ==
  /\ dnsStart = "bind"
  /\ dnsStart' = "ip"
  /\ UNCHANGED <<dnsIp, handlerVars>>

(* Mutant of DnsCopy: the address is not copied.                           *)
MutDnsCopy ==
  /\ dnsStart = "ip"
  /\ dnsStart' = "up"
  /\ UNCHANGED <<dnsIp, handlerVars>>

(* ip_addr_copy.                                                           *)
DnsCopy ==
  /\ dnsStart = "ip"
  /\ dnsStart' = "up" /\ dnsIp' = Our
  /\ UNCHANGED handlerVars

-----------------------------------------------------------------------------
(* dns_server_process.                                                     *)

Receive(m) ==
  /\ dnsStart \in {"ip", "up"} /\ pc = "idle" /\ outcome = "none"
  /\ Fresh("check", m, dnsStart = "ip")

(* ignore_request.                                                         *)
Ignore ==
  /\ pc' = "idle" /\ outcome' = "ignored"
  /\ UNCHANGED <<dnsStart, dnsIp, msg, ptr, answer, early>>

(* Too short, no query, or without a question.                             *)
Question(m) == m.size >= Header /\ m.query /\ m.questions >= 1

Check ==
  /\ pc = "check"
  /\ \/ ~Question(msg) /\ Ignore /\ UNCHANGED labels
     \/ /\ Question(msg)
        /\ pc' = "walk" /\ ptr' = Header
        /\ UNCHANGED <<dnsStart, dnsIp, msg, outcome, answer, labels, early>>

(* Mutant of Label: the length byte itself is not skipped.                 *)
MutLabel(l) ==
  /\ pc = "walk" /\ ptr < msg.size /\ Len(labels) < MaxLabels
  /\ labels' = Append(labels, l)
  /\ \/ l > MaxLabel /\ Ignore
     \/ /\ l <= MaxLabel
        /\ ptr' = ptr + l
        /\ UNCHANGED <<dnsStart, dnsIp, pc, msg, outcome, answer, early>>

(* One more label, valid or not.                                           *)
Label(l) ==
  /\ pc = "walk" /\ ptr < msg.size /\ Len(labels) < MaxLabels
  /\ labels' = Append(labels, l)
  /\ \/ l > MaxLabel /\ Ignore
     \/ /\ l <= MaxLabel
        /\ ptr' = ptr + 1 + l
        /\ UNCHANGED <<dnsStart, dnsIp, pc, msg, outcome, answer, early>>

(* The zero at the end of the name, or the end of the message.             *)
NameEnds ==
  /\ pc = "walk"
  /\ pc' = "length"
  /\ \/ ptr < msg.size /\ ptr' = ptr + 1 /\ labels' = Append(labels, 0)
     \/ ptr >= msg.size /\ UNCHANGED <<ptr, labels>>
  /\ UNCHANGED <<dnsStart, dnsIp, msg, outcome, answer, early>>

(* Mutant of TooLong: the name is held against the whole message.          *)
MutTooLong == ptr > MaxMsg

TooLong == ptr - Header > MaxName

NameTooLong == pc = "length" /\ TooLong /\ Ignore /\ UNCHANGED labels

(* The answer is written behind the name, the type and the class, and      *)
(* sent, if there is memory for it.                                        *)
Reply ==
  /\ pc = "length" /\ ~TooLong
  /\ pc' = "idle"
  /\ answer' = [at |-> ptr + 4, ip |-> dnsIp]
  /\ outcome' \in {"answered", "dropped"}
  /\ UNCHANGED <<dnsStart, dnsIp, msg, ptr, labels, early>>

DnsNext ==
  \/ DnsNew \/ DnsBind \/ DnsCopy
  \/ \E m \in Messages : Receive(m)
  \/ Check \/ NameEnds \/ NameTooLong \/ Reply
  \/ \E l \in Labels : Label(l)

-----------------------------------------------------------------------------
(* Properties.                                                             *)

(* The sum of some numbers.                                                *)
Total(s) ==
  LET Sum[k \in 0 .. Len(s)] == IF k = 0 THEN 0 ELSE Sum[k - 1] + s[k]
  IN  Sum[Len(s)]

(* The answer fits into the buffer of the message.                         *)
AnswerFits == outcome \in {"answered", "dropped"} => answer.at + AnswerSize <= MaxMsg

(* RFC 1035: labels of at most 63 bytes, a name of at most 255, a whole    *)
(* message.                                                                *)
NameSize == Total([k \in DOMAIN labels |-> 1 + labels[k]])
Complete == labels # <<>> /\ Last(labels) = 0 /\ msg.size >= Header + NameSize + 4
Valid    == NameSize <= MaxName /\ \A k \in DOMAIN labels : labels[k] <= MaxLabel

(* A complete question that is valid is answered, right behind itself; one *)
(* that is not valid is not answered.                                      *)
AnswersValid ==
  (pc = "idle" /\ outcome # "none" /\ Question(msg)) =>
    /\ Complete /\ Valid => outcome # "ignored" /\ answer.at = Header + NameSize + 4
    /\ ~Valid => outcome = "ignored"
=============================================================================
