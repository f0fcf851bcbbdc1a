----------------------------- MODULE MCTunnelClient -----------------------------
(* Instances of TunnelClient for TLC. *)
EXTENDS TunnelClient

CONSTANTS c1, c2, u1
=============================================================================
