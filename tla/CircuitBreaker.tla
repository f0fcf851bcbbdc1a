--------------------------- MODULE CircuitBreaker ---------------------------
(***************************************************************************)
(* The circuit breaker the forwarders share between their connections      *)
(* (internal/forwarder/common.go).  It has no lock: Allow, RecordSuccess   *)
(* and RecordFailure are sequences of atomic operations on five words, and *)
(* a step here is one of those operations, by one of the goroutines that   *)
(* handle a connection.  Times are in units of cbMinBackoff.               *)
(***************************************************************************)
EXTENDS Integers, FiniteSets

CONSTANTS
  Callers,           \* goroutines that handle connections
  FailureThreshold,  \* cbFailureThreshold
  BlockedThreshold,  \* cbBlockedThreshold
  HalfOpenMax,       \* cbHalfOpenMax
  MaxBackoff,        \* cbMaxBackoff
  Leaky              \* may a caller that took a half-open slot return without recording a result?

MinBackoff == 1

ASSUME BreakerAssumption ==
  /\ IsFiniteSet(Callers)
  /\ FailureThreshold \in Nat \ {0} /\ BlockedThreshold \in Nat
  /\ FailureThreshold < BlockedThreshold
  /\ HalfOpenMax \in Nat \ {0}
  /\ MaxBackoff \in Nat \ {0}
  /\ Leaky \in BOOLEAN

States == {"closed", "open", "half-open", "blocked"}

VARIABLES
  state, failures, halfOpenCount, backoff,  \* the breaker's words
  age,        \* time since lastFailureTime, as far as it matters (at most MaxBackoff)
  reachable,  \* does the target accept connections?
  pc,         \* the next operation of each caller
  seen,       \* the state it loaded
  goal        \* the state its RecordFailure wants

vars == <<state, failures, halfOpenCount, backoff, age, reachable, pc, seen, goal>>

AllowPCs   == {"idle", "expire", "probe", "reset", "enter", "undo", "use"}
SuccessPCs == {"succeeded", "close:release", "close", "clear", "relax"}
FailurePCs == {"failed", "load", "count", "trip:release", "trip", "double"}

TypeOK ==
  /\ state \in States
  /\ failures \in 0..BlockedThreshold
  /\ halfOpenCount \in Int
  /\ backoff \in 1..MaxBackoff /\ age \in 0..MaxBackoff
  /\ reachable \in BOOLEAN
  /\ pc \in [Callers -> AllowPCs \cup SuccessPCs \cup FailurePCs]
  /\ seen \in [Callers -> States] /\ goal \in [Callers -> States \ {"half-open"}]

Init ==
  /\ state = "closed" /\ failures = 0 /\ halfOpenCount = 0
  /\ backoff = MinBackoff /\ age = MaxBackoff
  /\ reachable = TRUE
  /\ pc = [c \in Callers |-> "idle"]
  /\ seen = [c \in Callers |-> "closed"] /\ goal = [c \in Callers |-> "closed"]

Least(m, n) == IF m < n THEN m ELSE n

Goto(c, l) == pc' = [pc EXCEPT ![c] = l]

-----------------------------------------------------------------------------
(* Allow *)

LoadAllow(c) ==
  /\ pc[c] = "idle"
  /\ seen' = [seen EXCEPT ![c] = state]
  /\ Goto(c, CASE state = "closed" -> "use"
               [] state = "half-open" -> "enter"
               [] OTHER -> "expire")
  /\ UNCHANGED <<state, failures, halfOpenCount, backoff, age, reachable, goal>>

(* Mutant: a blocked target is never probed. *)
ExpiredOpen(s) == s = "open" /\ age >= backoff

(* Has the backoff passed?  The words are loaded one by one; what another  *)
(* caller does in between it can also do before the CAS below.             *)
Expired(s) == age >= (IF s = "open" THEN backoff ELSE MaxBackoff)

Expire(c) ==
  /\ pc[c] = "expire"
  /\ Goto(c, IF Expired(seen[c]) THEN "probe" ELSE "idle")
  /\ UNCHANGED <<state, failures, halfOpenCount, backoff, age, reachable, seen, goal>>

Probe(c) ==
  /\ pc[c] = "probe"
  /\ IF state = seen[c]
     THEN state' = "half-open" /\ Goto(c, "reset")
     ELSE UNCHANGED state /\ Goto(c, "enter")
  /\ UNCHANGED <<failures, halfOpenCount, backoff, age, reachable, seen, goal>>

(* Mutant: the count of the last half-open period is kept. *)
ResetNothing(c) ==
  /\ pc[c] = "reset"
  /\ Goto(c, "enter")
  /\ UNCHANGED <<state, failures, halfOpenCount, backoff, age, reachable, seen, goal>>

Reset(c) ==
  /\ pc[c] = "reset"
  /\ halfOpenCount' = 0
  /\ Goto(c, "enter")
  /\ UNCHANGED <<state, failures, backoff, age, reachable, seen, goal>>

Enter(c) ==
  /\ pc[c] = "enter"
  /\ halfOpenCount' = halfOpenCount + 1
  /\ Goto(c, IF halfOpenCount + 1 > HalfOpenMax THEN "undo" ELSE "use")
  /\ UNCHANGED <<state, failures, backoff, age, reachable, seen, goal>>

Undo(c) ==
  /\ pc[c] = "undo"
  /\ halfOpenCount' = halfOpenCount - 1
  /\ Goto(c, "idle")
  /\ UNCHANGED <<state, failures, backoff, age, reachable, seen, goal>>

-----------------------------------------------------------------------------
(* What the caller does with an admitted request. *)

Dial(c) ==
  /\ pc[c] = "use"
  /\ Goto(c, IF reachable THEN "succeeded" ELSE "failed")
  /\ UNCHANGED <<state, failures, halfOpenCount, backoff, age, reachable, seen, goal>>

(* The address does not resolve, or another goroutine has made the UDP     *)
(* client meanwhile: the caller returns and records nothing.  One that a   *)
(* closed breaker admitted holds no slot.                                  *)
Leave(c) ==
  /\ pc[c] = "use"
  /\ Leaky \/ seen[c] = "closed"
  /\ Goto(c, "idle")
  /\ UNCHANGED <<state, failures, halfOpenCount, backoff, age, reachable, seen, goal>>

(* A connection admitted long ago fails to send (EntryForwarder).          *)
FailLate(c) ==
  /\ pc[c] = "idle" /\ ~reachable
  /\ Goto(c, "failed")
  /\ UNCHANGED <<state, failures, halfOpenCount, backoff, age, reachable, seen, goal>>

-----------------------------------------------------------------------------
(* RecordSuccess *)

LoadSuccess(c) ==
  /\ pc[c] = "succeeded"
  /\ seen' = [seen EXCEPT ![c] = state]
  /\ Goto(c, CASE state = "half-open" -> "close:release"
               [] state = "closed" -> "clear"
               [] OTHER -> "idle")
  /\ UNCHANGED <<state, failures, halfOpenCount, backoff, age, reachable, goal>>

Release(c) ==
  /\ pc[c] \in {"close:release", "trip:release"}
  /\ halfOpenCount' = halfOpenCount - 1
  /\ Goto(c, IF pc[c] = "close:release" THEN "close" ELSE "trip")
  /\ UNCHANGED <<state, failures, backoff, age, reachable, seen, goal>>

Close(c) ==
  /\ pc[c] = "close"
  /\ IF state = "half-open"
     THEN state' = "closed" /\ Goto(c, "clear")
     ELSE UNCHANGED state /\ Goto(c, "idle")
  /\ UNCHANGED <<failures, halfOpenCount, backoff, age, reachable, seen, goal>>

Clear(c) ==
  /\ pc[c] = "clear"
  /\ failures' = 0
  /\ Goto(c, "relax")
  /\ UNCHANGED <<state, halfOpenCount, backoff, age, reachable, seen, goal>>

Relax(c) ==
  /\ pc[c] = "relax"
  /\ backoff' = MinBackoff
  /\ Goto(c, "idle")
  /\ UNCHANGED <<state, failures, halfOpenCount, age, reachable, seen, goal>>

-----------------------------------------------------------------------------
(* RecordFailure *)

StampFailure(c) ==
  /\ pc[c] = "failed"
  /\ age' = 0
  /\ Goto(c, "load")
  /\ UNCHANGED <<state, failures, halfOpenCount, backoff, reachable, seen, goal>>

LoadFailure(c) ==
  /\ pc[c] = "load"
  /\ seen' = [seen EXCEPT ![c] = state]
  /\ Goto(c, "count")
  /\ UNCHANGED <<state, failures, halfOpenCount, backoff, age, reachable, goal>>

(* failures is only compared with the thresholds: it stops at the larger.  *)
CountFailure(c) ==
  LET n == Least(failures + 1, BlockedThreshold) IN
  /\ pc[c] = "count"
  /\ failures' = n
  /\ goal' = [goal EXCEPT ![c] = IF n = BlockedThreshold THEN "blocked" ELSE "open"]
  /\ Goto(c, CASE seen[c] = "half-open" -> "trip:release"
               [] seen[c] # "half-open" /\ n = BlockedThreshold -> "trip"
               [] seen[c] = "closed" /\ n \in FailureThreshold..(BlockedThreshold - 1) -> "trip"
               [] OTHER -> "idle")
  /\ UNCHANGED <<state, halfOpenCount, backoff, age, reachable, seen>>

(* Mutant: the backoff keeps doubling past cbMaxBackoff. *)
DoubleUncapped(c) ==
  /\ pc[c] = "double"
  /\ backoff' = 2 * backoff
  /\ Goto(c, "idle")
  /\ UNCHANGED <<state, failures, halfOpenCount, age, reachable, seen, goal>>

(* The CAS to the blocked or the open state. *)
Trip(c) ==
  /\ pc[c] = "trip"
  /\ state' = IF state = seen[c] THEN goal[c] ELSE state
  /\ Goto(c, IF state = "half-open" /\ seen[c] = "half-open" /\ goal[c] = "open"
             THEN "double" ELSE "idle")
  /\ UNCHANGED <<failures, halfOpenCount, backoff, age, reachable, seen, goal>>

(* doubleBackoff's CAS loop, at the iteration that succeeds. *)
Double(c) ==
  /\ pc[c] = "double"
  /\ backoff' = Least(2 * backoff, MaxBackoff)
  /\ Goto(c, "idle")
  /\ UNCHANGED <<state, failures, halfOpenCount, age, reachable, seen, goal>>

-----------------------------------------------------------------------------

Tick ==
  /\ age < MaxBackoff
  /\ age' = age + 1
  /\ UNCHANGED <<state, failures, halfOpenCount, backoff, reachable, pc, seen, goal>>

ChangeTarget ==
  /\ reachable' = ~reachable
  /\ UNCHANGED <<state, failures, halfOpenCount, backoff, age, pc, seen, goal>>

Allow(c)         == LoadAllow(c) \/ Expire(c) \/ Probe(c) \/ Reset(c) \/ Enter(c) \/ Undo(c)
Request(c)       == Dial(c) \/ Leave(c) \/ FailLate(c)
RecordSuccess(c) == LoadSuccess(c) \/ Close(c) \/ Clear(c) \/ Relax(c)
RecordFailure(c) == StampFailure(c) \/ LoadFailure(c) \/ CountFailure(c) \/ Trip(c) \/ Double(c)

Caller(c) == Allow(c) \/ Request(c) \/ Release(c) \/ RecordSuccess(c) \/ RecordFailure(c)

Next == Tick \/ ChangeTarget \/ \E c \in Callers : Caller(c)

Spec == Init /\ [][Next]_vars

(* Time passes, every goroutine runs, and clients keep connecting.         *)
FairSpec == Spec /\ WF_vars(Tick) /\ \A c \in Callers : WF_vars(Caller(c))

-----------------------------------------------------------------------------
(* A half-open breaker that no caller is working on admits the next        *)
(* request: whatever the order of the increments, decrements and resets of *)
(* halfOpenCount, no slot is lost and the target is tried again.           *)
RecoveryPossible ==
  (\A c \in Callers : pc[c] = "idle") /\ state = "half-open" => halfOpenCount < HalfOpenMax

(* Once the target stays reachable the breaker closes and stays closed.    *)
Recovers == <>[]reachable => <>[](state = "closed")

-----------------------------------------------------------------------------
(* Why RecoveryPossible holds. *)

(* The callers that hold a slot, or will give one back: those between the  *)
(* increment and the load of the state by Record*, and those that loaded   *)
(* "half-open" and have not decremented yet.                               *)
SlotHolders ==
  {c \in Callers : \/ pc[c] \in {"undo", "succeeded", "failed", "load",
                                  "close:release", "trip:release"}
                   \/ pc[c] = "use" /\ seen[c] # "closed"
                   \/ pc[c] = "count" /\ seen[c] = "half-open"}

(* Only a caller admitted at once saw a closed breaker. *)
SawNotClosed ==
  \A c \in Callers : pc[c] \in {"expire", "probe", "reset", "enter"} => seen[c] # "closed"

(* In a half-open breaker every counted slot has a holder, unless the      *)
(* caller that made it half-open has not reset the count yet.              *)
SlotsHeld ==
  state = "half-open" =>
    (\E c \in Callers : pc[c] = "reset") \/ halfOpenCount <= Cardinality(SlotHolders)
=============================================================================
