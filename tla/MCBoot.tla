------------------------------- MODULE MCBoot -------------------------------
(* Boot for TLC: configurations of one field, ap_mode and the checksum, in *)
(* bytes of two bits; the sector may hold any of the 64 images at first.   *)
EXTENDS Boot

MCDefault == [a \in Addresses |-> IF a = Size THEN 2 ELSE 1]
=============================================================================
