---------------------------- MODULE MCApServers -----------------------------
(* ApServers with values for TLC.                                          *)
EXTENDS ApServers

MCPrefix == <<192, 168, 4>>

(* DISCOVER, REQUEST; addresses at both ends of the pool, of another net;  *)
(* a name and a parameter list with the bytes of other options in them.    *)
MCOptions ==
  {[code |-> 53, data |-> <<k>>] : k \in {1, 3}}
    \cup {[code |-> 50, data |-> MCPrefix \o <<x>>] : x \in {15, 16, 23, 24}}
    \cup {[code |-> 50, data |-> <<10, 0, 0, 16>>],
          [code |-> 12, data |-> <<53, 1, 3, 50>>],
          [code |-> 55, data |-> <<255, 53>>]}
=============================================================================
