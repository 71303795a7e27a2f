-------------------------------- MODULE Boot --------------------------------
(***************************************************************************)
(* The firmware from main() to the moment it creates the DMX and the web   *)
(* task: it loads the configuration, starts WiFi as an access point or as  *)
(* a station, and, when no network can be reached, spoils the checksum of  *)
(* the configuration, writes it back and restarts, so that the next start  *)
(* uses the default configuration, an access point.                        *)
(*                                                                         *)
(* wifi_init_task and write_config_task run one at a time: the second has  *)
(* the highest priority and the first deletes itself.                      *)
(***************************************************************************)
EXTENDS Eeprom

CONSTANTS
  Default,      (* rfu_config_t as its initialisers leave it.              *)
  MaxPolls,     (* Polls of the link before giving up (30).                *)
  MaxFailures   (* Bound: power failures and failed WiFi initialisations.  *)

VARIABLES
  pc,          (* Where start-up is.                                       *)
  rfu_config,  (* The configuration in use.                                *)
  link,        (* The link to the access point is up.                      *)
  timeout,     (* Polls of the link so far.                                *)
  failures,    (* Failures so far (bounds the model).                      *)
  flashed,     (* History: the contents of the sector before this          *)
               (* firmware first wrote to it.                              *)
  cut,         (* History: the power has failed within an erase or a       *)
               (* program operation.                                       *)
  forced       (* History: the default configuration was forced and the    *)
               (* restart that applies it is still to come.                *)

histVars == <<flashed, cut, forced>>
vars == <<eepromVars, pc, rfu_config, link, timeout, failures, histVars>>

-----------------------------------------------------------------------------
(* Configurations.  The last byte is the checksum, the one before it is    *)
(* ap_mode.                                                                *)

ap_mode(c) == c[Size - 1] # 0

Body(c) == [a \in 1 .. Size - 1 |-> c[a]]

(* A uint8_t sum over an array.                                            *)
SumOf(body) ==
  LET sum[a \in 0 .. Size - 1] ==
        IF a = 0 THEN 0 ELSE (sum[a - 1] + body[a]) % Base
  IN  sum[Size - 1]

(* All fields but the checksum.                                            *)
calcCheckSum(c) == SumOf(Body(c))

Valid(c) == c[Size] = calcCheckSum(c)

(* Mutant of NextChecksum: the checksum is wider than a byte.              *)
MutNextChecksum(c) == [c EXCEPT ![Size] = c[Size] + 1]

(* rfu_config.checksum++ on a uint8_t.                                     *)
NextChecksum(c) == [c EXCEPT ![Size] = (c[Size] + 1) % Base]

ASSUME BootAssumption ==
  /\ Default \in Image /\ ap_mode(Default)
  /\ MaxPolls \in Nat
  /\ MaxFailures \in Nat

(* An erased sector has no valid checksum.                                 *)
ASSUME ErasedAssumption == ~Valid(Erased)

TypeOK ==
  /\ EepromTypeOK
  /\ pc \in {"main", "wifi", "connect", "dhcp", "running",
             "put", "erase", "program", "restart"}
  /\ rfu_config \in Image
  /\ link \in BOOLEAN
  /\ timeout \in 0 .. MaxPolls
  /\ failures \in 0 .. MaxFailures
  /\ flashed \in Image
  /\ cut \in BOOLEAN
  /\ forced \in BOOLEAN

Init ==
  /\ EepromInit
  /\ pc = "main"
  /\ rfu_config = Default
  /\ link = FALSE
  /\ timeout = 0
  /\ failures = 0
  /\ flashed = _sector
  /\ cut = FALSE
  /\ forced = FALSE

-----------------------------------------------------------------------------
(* Mutant of Load: the checksum is not looked at.                          *)
MutLoad(config) == config

(* loadConfig: what is stored if its checksum is right, else the default.  *)
Load(config) == IF Valid(config) THEN config ELSE Default

(* main: eeprom.begin and loadConfig, then the scheduler.                  *)
Main ==
  /\ pc = "main"
  /\ begin
  /\ rfu_config' = Load(_sector)
  /\ timeout' = 0
  /\ link' = FALSE
  /\ forced' = FALSE
  /\ pc' = "wifi"
  /\ UNCHANGED <<failures, flashed, cut>>

(* cyw43_arch_init fails: restart.                                         *)
WifiFails ==
  /\ pc = "wifi"
  /\ failures < MaxFailures
  /\ failures' = failures + 1
  /\ pc' = "main"
  /\ UNCHANGED <<eepromVars, rfu_config, link, timeout, histVars>>

(* An access point needs nobody; a station starts to connect.              *)
WifiStart ==
  /\ pc = "wifi"
  /\ pc' = IF ap_mode(rfu_config) THEN "running" ELSE "connect"
  /\ UNCHANGED <<eepromVars, rfu_config, link, timeout, failures, histVars>>

(* The link goes up or down.                                               *)
LinkChanges ==
  /\ pc = "connect"
  /\ link' = ~link
  /\ UNCHANGED <<eepromVars, pc, rfu_config, timeout, failures, histVars>>

(* The loop: not up and polls left, wait a second.                         *)
Poll ==
  /\ pc = "connect"
  /\ ~link /\ timeout < MaxPolls
  /\ timeout' = timeout + 1
  /\ UNCHANGED <<eepromVars, pc, rfu_config, link, failures, histVars>>

(* After the loop, the number of polls decides and not the link.           *)
Connected ==
  /\ pc = "connect"
  /\ link /\ timeout < MaxPolls
  /\ pc' = "dhcp"
  /\ UNCHANGED <<eepromVars, rfu_config, link, timeout, failures, histVars>>

(* Mutant of GiveUp: the checksum is left alone.                           *)
MutGiveUpIntact ==
  /\ pc = "connect"
  /\ timeout >= MaxPolls
  /\ pc' = "put"
  /\ UNCHANGED <<eepromVars, rfu_config, link, timeout, failures, histVars>>

(* Out of polls: spoil the checksum and have the configuration written.    *)
GiveUp ==
  /\ pc = "connect"
  /\ timeout >= MaxPolls
  /\ rfu_config' = NextChecksum(rfu_config)
  /\ pc' = "put"
  /\ UNCHANGED <<eepromVars, link, timeout, failures, histVars>>

(* dhcp_supplied_address: the wait for it has no limit.                    *)
DhcpSupplied ==
  /\ pc = "dhcp"
  /\ pc' = "running"
  /\ UNCHANGED <<eepromVars, rfu_config, link, timeout, failures, histVars>>

-----------------------------------------------------------------------------
(* write_config_task.                                                      *)

Put ==
  /\ pc = "put"
  /\ put(rfu_config)
  /\ pc' = "erase"
  /\ UNCHANGED <<rfu_config, link, timeout, failures, histVars>>

CommitErases ==
  /\ pc = "erase"
  /\ IF NeedsCommit
       THEN Erase /\ pc' = "program"
       ELSE UNCHANGED eepromVars /\ pc' = "restart"
  /\ UNCHANGED <<rfu_config, link, timeout, failures, histVars>>

CommitPrograms ==
  /\ pc = "program"
  /\ Program
  /\ forced' = TRUE
  /\ pc' = "restart"
  /\ UNCHANGED <<rfu_config, link, timeout, failures, flashed, cut>>

(* Five seconds later, a system reset.                                     *)
Restart ==
  /\ pc = "restart"
  /\ pc' = "main"
  /\ UNCHANGED <<eepromVars, rfu_config, link, timeout, failures, histVars>>

-----------------------------------------------------------------------------
(* The power fails and comes back.                                         *)
PowerFails ==
  /\ failures < MaxFailures
  /\ failures' = failures + 1
  /\ pc' = "main"
  /\ \/ UNCHANGED <<_sector, cut>>
     \/ pc = "erase" /\ NeedsCommit /\ Partly(Erased) /\ cut' = TRUE
     \/ pc = "program" /\ Partly(_data) /\ cut' = TRUE
  /\ UNCHANGED <<_data, _dirty, rfu_config, link, timeout, flashed, forced>>

Wifi    == WifiFails \/ WifiStart \/ Poll \/ Connected \/ GiveUp
Write   == Put \/ CommitErases \/ CommitPrograms \/ Restart
Outside == LinkChanges \/ DhcpSupplied \/ PowerFails

Next == Main \/ Wifi \/ Write \/ Outside

Spec == Init /\ [][Next]_vars

(* The CPU runs.  Nothing is assumed of the network.                       *)
FairSpec == Spec /\ WF_vars(Main \/ Wifi \/ Write)

-----------------------------------------------------------------------------
(* Properties.                                                             *)

(* Once the spoiled configuration is written, the next start uses the      *)
(* default one, and no power failure in between undoes that.               *)
ForcesDefault == [][forced /\ Main => rfu_config' = Default]_vars

InUse == pc \in {"wifi", "connect", "dhcp", "running"}

(* Unless the power has failed within a flash operation, the unit never    *)
(* runs on anything but the default configuration or the one that was      *)
(* stored before this firmware first wrote to the flash.                   *)
KnownConfig == InUse /\ ~cut => rfu_config \in {Default, flashed}

(* Every start-up ends: the unit serves as an access point, or it is       *)
(* connected and waits for an address.  There is no restart loop.          *)
ComesUp == pc = "main" ~> pc \in {"dhcp", "running"}
=============================================================================
