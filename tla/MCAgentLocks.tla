---------------------------- MODULE MCAgentLocks ----------------------------
(* Instances of AgentLocks for TLC. *)
EXTENDS AgentLocks

(* Which goroutine calls what: "hub" is hubLoop, "poll" syncLoop, "pump"   *)
(* the readPump that runs commands, "status" the two status loops, and     *)
(* "tunnel" the reconnect loop of a tunnel client.                         *)
Callers == [hub    |-> {"FullSync", "EvictBlocked", "StopOne", "StartDirect", "StartTunnelled"},
            poll   |-> {"AdoptRules", "StopChanged", "StartDirect", "StartTunnelled"},
            pump   |-> {"StopOne", "StartDirect", "StartTunnelled"},
            status |-> {"CollectStatus", "ReportStatus"},
            tunnel |-> {"Refresh"}]

RunsAll == [g \in Goroutines |-> Callers[g]]
=============================================================================
