------------------------------- MODULE Eeprom -------------------------------
(***************************************************************************)
(* EEPROMClass: one sector of flash and a copy of it in RAM.  commit       *)
(* erases the sector and then programs it, two operations of the flash     *)
(* that a loss of power can cut short.  Only the bytes of the              *)
(* configuration are modelled; the rest of the sector is never looked at.  *)
(***************************************************************************)
EXTENDS Naturals

CONSTANTS
  Size,  (* Bytes of a configuration (sizeof(rfu_config_t)).               *)
  Base   (* Values of a byte (256).                                        *)

ASSUME EepromAssumption ==
  /\ Size \in Nat /\ Size >= 2
  /\ Base \in Nat /\ Base >= 2

VARIABLES
  _sector,  (* The sector of flash.  Survives a restart.                   *)
  _data,    (* Its copy in RAM.                                            *)
  _dirty    (* The copy differs from the sector.                           *)

eepromVars == <<_sector, _data, _dirty>>

Addresses == 1 .. Size
Bytes     == 0 .. Base - 1
Image     == [Addresses -> Bytes]

(* Flash that was erased: all bits set.                                    *)
Erased == [a \in Addresses |-> Base - 1]

EepromTypeOK ==
  /\ _sector \in Image
  /\ _data \in Image
  /\ _dirty \in BOOLEAN

EepromInit ==
  /\ _sector \in Image
  /\ _data = _sector
  /\ _dirty = FALSE

(* EEPROMClass::begin.                                                     *)
begin ==
  /\ _data' = _sector
  /\ _dirty' = FALSE
  /\ UNCHANGED _sector

(* EEPROMClass::put at address 0.                                          *)
put(t) ==
  /\ _data' = t
  /\ _dirty' = (_dirty \/ _data # t)
  /\ UNCHANGED _sector

(* EEPROMClass::commit does something: only if put has changed a byte.     *)
(* commit does not reset _dirty.                                           *)
NeedsCommit == _dirty

(* flash_range_erase.                                                      *)
Erase ==
  /\ _sector' = Erased
  /\ UNCHANGED <<_data, _dirty>>

(* flash_range_program of an erased sector.                                *)
Program ==
  /\ _sector' = _data
  /\ UNCHANGED <<_data, _dirty>>

(* The power fails within an erase or within the programming of the        *)
(* sector: some bytes are done, the others as they were.                   *)
Partly(target) ==
  \E done \in SUBSET Addresses :
    _sector' = [a \in Addresses |-> IF a \in done THEN target[a] ELSE _sector[a]]
=============================================================================
