---------------------------- MODULE MCTunnelHealth ----------------------------
(* Instances of TunnelHealth for TLC. *)
EXTENDS TunnelHealth

CONSTANTS p1, p2

Rule(strategy, weight) == [strategy |-> strategy, weight |-> weight]

BackupAndOne == [t \in Tunnels |-> 2 * t]
OneAndTwo == [t \in Tunnels |-> t + 1]

Both == {Rule("failover", BackupAndOne), Rule("weighted", OneAndTwo)}
Failover == {Rule("failover", OneAndTwo)}
=============================================================================
