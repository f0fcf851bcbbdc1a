----------------------------- MODULE AgentLocks -----------------------------
(***************************************************************************)
(* The mutexes of the Agent (internal/agent): sync.RWMutex each, and the   *)
(* nesting in which the agent's operations take them.  The comment at the  *)
(* top of the struct orders them                                           *)
(*     rulesMu -> forwardersMu -> ruleStatusMu -> tunnelsMu                *)
(* "to prevent deadlocks".  What the operations do under the locks is in   *)
(* RuleSync; here an operation is the sequence of its lock calls.          *)
(***************************************************************************)
EXTENDS Naturals, Sequences, FiniteSets

CONSTANTS
  Goroutines,  \* the goroutines that call the operations
  Runs         \* [Goroutines -> SUBSET Operations]: which operations each may call

Mutexes == {"rulesMu", "forwardersMu", "ruleStatusMu", "tunnelsMu"}

Lock(m)    == [call |-> "Lock", mu |-> m]
RLock(m)   == [call |-> "RLock", mu |-> m]
Unlock(m)  == [call |-> "Unlock", mu |-> m]  \* also RUnlock
Around(m, body)  == <<Lock(m)>> \o body \o <<Unlock(m)>>
RAround(m, body) == <<RLock(m)>> \o body \o <<Unlock(m)>>

(* deleteRuleStatus, setRuleStatus *)
WriteStatus == Around("ruleStatusMu", <<>>)

(* handleFullSync, up to the release of both locks *)
FullSync == Around("rulesMu", Around("forwardersMu", WriteStatus))

(* syncRules: install the rules; then stop what was removed or changed *)
AdoptRules  == Around("rulesMu", <<>>)
StopChanged == Around("forwardersMu", WriteStatus)

(* stopForwarder and stopAll *)
StopOne == Around("forwardersMu", Around("tunnelsMu", <<>>))

(* getOrCreateTunnel, getOrCreateTunnelByAddress: the client is created    *)
(* and connected under tunnelsMu, with the token of getHandshakeToken.     *)
Dial == Around("tunnelsMu", RAround("rulesMu", <<>>))

(* startForwarder: isProtocolBlocked, the status, the tunnel for the kinds *)
(* that need one, the map                                                  *)
StartDirect    == RAround("rulesMu", <<>>) \o WriteStatus \o Around("forwardersMu", <<>>)
StartTunnelled == RAround("rulesMu", <<>>) \o WriteStatus \o Dial \o Around("forwardersMu", <<>>)

(* The endpoint refresher of a tunnel that reconnects: updateRuleCache *)
Refresh == Around("rulesMu", <<>>)

(* stopBlockedProtocolForwarders; collectRuleSyncStatus; reportStatus *)
EvictBlocked  == RAround("rulesMu", <<>>) \o Around("forwardersMu", WriteStatus)
CollectStatus == RAround("forwardersMu", RAround("ruleStatusMu", <<>>))
ReportStatus  == RAround("forwardersMu", <<>>) \o RAround("tunnelsMu", <<>>)

Program == [FullSync |-> FullSync, AdoptRules |-> AdoptRules, StopChanged |-> StopChanged,
            StopOne |-> StopOne, StartDirect |-> StartDirect,
            StartTunnelled |-> StartTunnelled, Refresh |-> Refresh,
            EvictBlocked |-> EvictBlocked, CollectStatus |-> CollectStatus,
            ReportStatus |-> ReportStatus]

Operations == DOMAIN Program

VARIABLES
  rest,    \* the lock calls each goroutine has still to make
  asked,   \* goroutines that wait in Lock: a waiting writer keeps new readers out
  writer,  \* who holds each mutex for writing
  readers  \* who holds it for reading

vars == <<rest, asked, writer, readers>>

Init ==
  /\ rest = [g \in Goroutines |-> <<>>]
  /\ asked = {}
  /\ writer = [m \in Mutexes |-> {}]
  /\ readers = [m \in Mutexes |-> {}]

Calls(g, call) == rest[g] # <<>> /\ Head(rest[g]).call = call
Mutex(g)       == Head(rest[g]).mu
Proceed(g)     == rest' = [rest EXCEPT ![g] = Tail(@)]

Begin(g) ==
  /\ rest[g] = <<>>
  /\ \E op \in Runs[g] : rest' = [rest EXCEPT ![g] = Program[op]]
  /\ UNCHANGED <<asked, writer, readers>>

(* Lock announces the writer, then waits for the holders to leave. *)
Ask(g) ==
  /\ Calls(g, "Lock") /\ asked' = asked \cup {g}
  /\ UNCHANGED <<rest, writer, readers>>

Acquire(g) ==
  /\ g \in asked /\ writer[Mutex(g)] = {} /\ readers[Mutex(g)] = {}
  /\ writer' = [writer EXCEPT ![Mutex(g)] = {g}]
  /\ asked' = asked \ {g}
  /\ Proceed(g) /\ UNCHANGED readers

Announced(m) == {g \in asked : Mutex(g) = m}

AcquireRead(g) ==
  /\ Calls(g, "RLock") /\ writer[Mutex(g)] = {} /\ Announced(Mutex(g)) = {}
  /\ readers' = [readers EXCEPT ![Mutex(g)] = @ \cup {g}]
  /\ Proceed(g) /\ UNCHANGED <<asked, writer>>

Leave(g) ==
  /\ Calls(g, "Unlock")
  /\ writer' = [writer EXCEPT ![Mutex(g)] = @ \ {g}]
  /\ readers' = [readers EXCEPT ![Mutex(g)] = @ \ {g}]
  /\ Proceed(g) /\ UNCHANGED asked

Next == \E g \in Goroutines : Begin(g) \/ Ask(g) \/ Acquire(g) \/ AcquireRead(g) \/ Leave(g)

Spec == Init /\ [][Next]_vars

-----------------------------------------------------------------------------
(* Whom a goroutine waits for: the holders of the mutex it asks for and,   *)
(* for a reader, the writers announced before it.                          *)
WaitsFor(g) ==
  IF g \in asked THEN writer[Mutex(g)] \cup readers[Mutex(g)]
  ELSE IF Calls(g, "RLock") THEN writer[Mutex(g)] \cup Announced(Mutex(g))
  ELSE {}

(* "Lock ordering to prevent deadlocks" (agent.go): there is no set of     *)
(* goroutines each of which waits for another of the set.                  *)
NoDeadlock ==
  \A G \in SUBSET Goroutines \ {{}} : \E g \in G : WaitsFor(g) \cap G = {}
=============================================================================
