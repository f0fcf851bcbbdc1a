----------------------------- MODULE MCRuleSync -----------------------------
(* Instances of RuleSync for TLC. *)
EXTENDS RuleSync, TLC

CONSTANTS r1, r2, r3, c1, c2, tcp, udp, t1, t2, t3, f1, f2, f3, f4

KindMixed == [r \in Rules |-> IF r = r1 THEN "smux" ELSE IF r = r2 THEN "exit" ELSE "multi"]
KindChain == [r \in Rules |-> "chain"]
KindEntry == [r \in Rules |-> "entry"]

(* Two contents that differ in protocol, and so in the listening socket;   *)
(* or contents that differ in the target only.                             *)
ProtocolOf  == [c \in Configs |-> IF c = c2 THEN udp ELSE tcp]
OneProtocol == [c \in Configs |-> tcp]

Interchangeable == Permutations(TunnelIds) \cup Permutations(ForwarderIds)

(* What no guard and none of the invariants of sync_all reads is left out   *)
(* of the fingerprint: the reported status and the server's past.            *)
Essence == <<srv, srvVer, srvBlk, events, rules, blocked, configVersion, forwarders, tunnels,
             handler, alive, up, pc, ret, todo, plan, old, cur, hand, ev, shared>>
=============================================================================
