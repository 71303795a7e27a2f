--------------------------- MODULE MCDmxPipeline ---------------------------
(* DmxPipeline for TLC: a universe of three channels and two levels.       *)
EXTENDS DmxPipeline, TLC

MCPowerOn == [c \in Channels |-> IF c = 1 THEN 1 ELSE 0]

(* "1 FULL", "2 FULL" and "release".                                       *)
MCCommands == { 1 :> 1, 2 :> 1, Release }

(* "1 FULL", the last channel at full, and "release".                      *)
MCCommandsLast == { 1 :> 1, NumChannels :> 1, Release }
(* Solo mode: channel 1 on, then, as soloChange sends them one after the   *)
(* other, channel 1 off and channel 2 on.                                  *)
MCCommandsSolo == { 1 :> 1, 1 :> 0, 2 :> 1 }
=============================================================================
