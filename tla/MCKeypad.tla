------------------------------ MODULE MCKeypad ------------------------------
(* Keypad with values for TLC: strings of three channels, the last of them *)
(* with as many digits as an entry has.                                    *)
EXTENDS Keypad

(* channel % 256, with fewer levels.                                       *)
MCPowerOn == [c \in Slots |-> c % LevelSize]

N(n) == Written(n, FALSE)
FULL == Key_("FULL")

(* One channel; a list; a range; two clauses, of which the first has a     *)
(* level above the highest.                                                *)
MCStrings ==
  { <<N(1), AT, N(0)>>, <<N(2), AT, N(0)>>,
    <<N(1), Key_("AND"), N(2), AT, FULL>>,
    <<N(1), Key_("THRU"), N(3), AT, N(1)>>,
    <<N(1), AT, N(3), N(2), AT, N(0)>> }

(* A long string of another client, and one that meets its frame.          *)
MCOtherTokens == <<5, 2>>
MCNoOther     == <<>>

(* A channel is set, and set to 0 with the keys as labelled.               *)
MCPlainStrings == { <<N(1), AT, N(1)>>, <<N(1), AT, N(0)>> }
=============================================================================
