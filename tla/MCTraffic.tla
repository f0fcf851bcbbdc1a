------------------------------- MODULE MCTraffic -------------------------------
(* Instances of Traffic for TLC. *)
EXTENDS Traffic

CONSTANTS u1, u2, u3
=============================================================================
