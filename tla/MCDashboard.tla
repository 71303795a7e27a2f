----------------------------- MODULE MCDashboard -----------------------------
(* Dashboard for TLC.                                                      *)
EXTENDS Dashboard

MCDefault == [f \in Fields |-> 1]
=============================================================================
