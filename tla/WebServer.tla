------------------------------ MODULE WebServer ------------------------------
(***************************************************************************)
(* The web server of net.h: who a request comes from, what the routes      *)
(* answer, and the settings, the only state of theirs that matters to      *)
(* anybody.  mongoose calls fn for one request at a time, so a request is  *)
(* handled in one step.                                                    *)
(*                                                                         *)
(* A JSON body is a function from some of the fields to values; a number   *)
(* is a member of Int, and so is a string, by which only equality matters. *)
(***************************************************************************)
EXTENDS Integers

CONSTANTS
  Users,     (* The users of the table in authenticate.                    *)
  NULL,      (* No user.                                                   *)
  Wrong,     (* A name and a password that do not fit.                     *)
  Fields,    (* The fields of the settings.                                *)
  Bytes,     (* Those that are answered as an unsigned char (%hhu).        *)
  ByteSize,  (* The values of an unsigned char (256).                      *)
  Null,      (* JSON's null, in the place of a number.                     *)
  Default,   (* The settings after a start.                                *)
  Typed      (* The values users type.                                     *)

ASSUME WebAssumption ==
  /\ NULL \notin Users
  /\ Wrong \notin Users /\ Wrong # NULL
  /\ Bytes \subseteq Fields
  /\ ByteSize \in Nat \ {0}
  /\ Null \notin Int
  /\ Default \in [Fields -> Int]
  /\ Typed \subseteq Int

VARIABLE s_settings

(* The user of a request: an Authorization header counts even beside a     *)
(* cookie that would do.                                                   *)
authenticate(basic, cookie) ==
  IF basic = NULL THEN cookie ELSE IF basic \in Users THEN basic ELSE NULL

(* What handle_settings_get answers.                                       *)
handle_settings_get ==
  [f \in Fields |-> IF f \in Bytes THEN s_settings[f] % ByteSize ELSE s_settings[f]]

(* Mutant of handle_settings_set: null is kept.                            *)
MutSet(body) ==
  s_settings' = [f \in Fields |-> IF f \in DOMAIN body THEN body[f] ELSE 0]

(* A field that the body does not have, or has as null, becomes zero.      *)
handle_settings_set(body) ==
  s_settings' = [f \in Fields |->
    IF f \in DOMAIN body /\ body[f] # Null THEN body[f] ELSE 0]

(* web_init, with the initial value of s_settings.                         *)
web_init == Default
=============================================================================
