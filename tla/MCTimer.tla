------------------------------- MODULE MCTimer -------------------------------
(* Timer for TLC: a few values and instants, given in the configurations.  *)
EXTENDS Timer
=============================================================================
