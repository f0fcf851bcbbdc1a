------------------------------ MODULE MCHubConn ------------------------------
(* Instances of HubConn for TLC. *)
EXTENDS HubConn

CONSTANTS c1, c2

Installed == <<"url", "token">>
Goroutines == Conns \cup {"hub"}
=============================================================================
