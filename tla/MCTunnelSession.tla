--------------------------- MODULE MCTunnelSession ---------------------------
(* Instances of TunnelSession for TLC. *)
EXTENDS TunnelSession

CONSTANTS k1, k2

(* Two reads fill a queue of one, and may go over two tunnels. *)
TwoAndOne == [s \in Sides |-> IF s = "entry" THEN 2 ELSE 1]
=============================================================================
