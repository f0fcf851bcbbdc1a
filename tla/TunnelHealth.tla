----------------------------- MODULE TunnelHealth -----------------------------
(***************************************************************************)
(* Load balancing of an entry forwarder over several tunnels: the health   *)
(* of each, kept in atomics by internal/forwarder/health_checker.go, and   *)
(* the choice of a tunnel for a new connection, internal/forwarder/        *)
(* entry.go selectTunnel.  Every connection has a goroutine of its own,    *)
(* which chooses, sends its Connect, and records what came of it; a step   *)
(* does one operation on an atomic, with what is local before it.  A       *)
(* change of health is reported to the control server by a goroutine made  *)
(* for it.  What a tunnel carries is in TunnelSession, the circuit breaker *)
(* in CircuitBreaker.                                                      *)
(***************************************************************************)
EXTENDS Integers, FiniteSets

CONSTANTS
  Callers,             \* goroutines of connections
  MaxTunnel,           \* the tunnels are 0..MaxTunnel
  Rules,               \* strategies with the weights of the tunnels
  UnhealthyThreshold,
  HealthyThreshold,
  Chooser,             \* bound: the caller whose choice is followed, one like another
  Watched,             \* bound: the tunnels whose reports are followed
  MaxReports           \* bound: reports on the way, by tunnel and health

Tunnels == 0..MaxTunnel
None == -1

ASSUME HealthAssumption ==
  /\ MaxTunnel \in Nat \ {0} /\ MaxReports \in Nat \ {0}
  /\ UnhealthyThreshold \in Nat \ {0} /\ HealthyThreshold \in Nat \ {0}
  /\ Rules \subseteq [strategy : {"failover", "weighted"}, weight : [Tunnels -> Nat]]
  /\ Watched \subseteq Tunnels /\ Chooser \in Callers

VARIABLES
  rule,      \* loadBalanceStrategy and the field weight of every tunnelEntry
  up,        \* does SendMessage of the tunnel succeed?
  failures,  \* failureCount, told apart while one more stays below the threshold
  successes, \* successCount, likewise
  healthy,   \* healthy
  pc,        \* the next step of each connection
  next,      \* the tunnel GetHealthyIndices loads next
  seen,      \* the indices it has so far
  choice,    \* tunnelIdx
  since,     \* history: what each tunnel has been since Chooser began
  reports,   \* goroutines on the way to the server, by tunnel and health
  view,      \* what the server was told last
  blurred    \* history: has a report been overtaken, or lost, since one went alone?

counts == <<failures, successes>>
caller == <<pc, next, seen, choice>>
server == <<reports, view, blurred>>
vars   == <<rule, up, counts, healthy, caller, since, server>>

Steps == {"idle", "load", "send", "sent", "unsent", "open", "succeeded", "failed", "recover",
          "condemn"}

TypeOK ==
  /\ rule \in Rules
  /\ up \in [Tunnels -> BOOLEAN] /\ healthy \in [Tunnels -> BOOLEAN]
  /\ failures \in [Tunnels -> 0..(UnhealthyThreshold - 1)]
  /\ successes \in [Tunnels -> 0..(HealthyThreshold - 1)]
  /\ pc \in [Callers -> Steps] /\ next \in [Callers -> 0..MaxTunnel]
  /\ seen \in [Callers -> SUBSET Tunnels] /\ choice \in [Callers -> Tunnels \cup {None}]
  /\ since \in [Tunnels -> {"healthy", "unhealthy", "both"}]
  /\ reports \in [Watched -> [BOOLEAN -> 0..MaxReports]]
  /\ view \in [Watched -> BOOLEAN] /\ blurred \in [Watched -> BOOLEAN]

Unknown == [t \in Tunnels |-> "both"]

Init ==
  /\ rule \in Rules
  /\ up \in [Tunnels -> BOOLEAN]
  /\ failures = [t \in Tunnels |-> 0] /\ successes = [t \in Tunnels |-> 0]
  /\ healthy = [t \in Tunnels |-> TRUE]
  /\ pc = [p \in Callers |-> "idle"] /\ next = [p \in Callers |-> 0]
  /\ seen = [p \in Callers |-> {}] /\ choice = [p \in Callers |-> None]
  /\ since = Unknown
  /\ reports = [t \in Watched |-> [h \in BOOLEAN |-> 0]]
  /\ view = [t \in Watched |-> TRUE] /\ blurred = [t \in Watched |-> FALSE]

-------------------------------------------------------------------------------
(* The strategies, on the indices they are given                           *)

Weighty(I) == {t \in I : rule.weight[t] > 0}

(* Highest weight, the first of them; without one, the first backup.       *)
First(I) == CHOOSE t \in I : \A u \in I : t <= u

SelectFailover(I) ==
  IF Weighty(I) = {} THEN First(I)
  ELSE First({t \in Weighty(I) : \A u \in Weighty(I) : rule.weight[u] <= rule.weight[t]})

(* At random: the tunnels that may come of it.                             *)
SelectWeighted(I) == IF Weighty(I) = {} THEN I ELSE Weighty(I)

SelectFromIndices(I) == IF rule.strategy = "failover" THEN {SelectFailover(I)} ELSE SelectWeighted(I)

(* Mutant: health is not looked at. *)
SelectTunnelAny(I) == SelectFromIndices(Tunnels)

(* Mutant: the fallback is always the first. *)
SelectTunnelFirst(I) == IF I = {} THEN {First(Tunnels)} ELSE SelectFromIndices(I)

(* All unhealthy: from any tunnel.                                         *)
SelectTunnel(I) == IF I = {} THEN SelectFromIndices(Tunnels) ELSE SelectFromIndices(I)

-------------------------------------------------------------------------------
(* A connection                                                            *)

Go(p, step) == pc' = [pc EXCEPT ![p] = step]

Arrive(p) ==
  /\ pc[p] = "idle"
  /\ Go(p, "load")
  /\ since' = IF p = Chooser THEN [t \in Tunnels |-> IF healthy[t] THEN "healthy" ELSE "unhealthy"]
              ELSE since
  /\ UNCHANGED <<rule, up, counts, healthy, next, seen, choice, server>>

(* GetHealthyIndices loads one atomic after the other.                     *)
Loads(t, before) == IF healthy[t] THEN before \cup {t} ELSE before

(* Mutant: the loop runs once too often. *)
LoadPastEnd(p) ==
  /\ pc[p] = "load" /\ next[p] <= MaxTunnel
  /\ next' = [next EXCEPT ![p] = @ + 1] /\ seen' = [seen EXCEPT ![p] = Loads(next[p], @)]
  /\ UNCHANGED <<rule, up, counts, healthy, pc, choice, since, server>>

Load(p) ==
  /\ pc[p] = "load" /\ next[p] < MaxTunnel
  /\ next' = [next EXCEPT ![p] = @ + 1] /\ seen' = [seen EXCEPT ![p] = Loads(next[p], @)]
  /\ UNCHANGED <<rule, up, counts, healthy, pc, choice, since, server>>

(* The last load completes the indices to choose from.                     *)
Pick(p, t) ==
  /\ pc[p] = "load" /\ next[p] = MaxTunnel
  /\ t \in SelectTunnel(Loads(MaxTunnel, seen[p]))
  /\ choice' = [choice EXCEPT ![p] = t]
  /\ next' = [next EXCEPT ![p] = 0] /\ seen' = [seen EXCEPT ![p] = {}]
  /\ Go(p, "send")
  /\ UNCHANGED <<rule, up, counts, healthy, since, server>>

-------------------------------------------------------------------------------
(* RecordSuccess and RecordFailureWithError: each resets the other count,  *)
(* adds to its own, and swaps healthy if that reached the threshold.       *)

RecordSuccess(p) ==
  /\ pc[p] = "sent"
  /\ failures' = [failures EXCEPT ![choice[p]] = 0]
  /\ Go(p, "succeeded")
  /\ UNCHANGED <<rule, up, successes, healthy, next, seen, choice, since, server>>

RecordFailure(p) ==
  /\ pc[p] = "unsent"
  /\ successes' = [successes EXCEPT ![choice[p]] = 0]
  /\ Go(p, "failed")
  /\ UNCHANGED <<rule, up, failures, healthy, next, seen, choice, since, server>>

(* The Connect is sent over the tunnel, or it fails.                       *)
Send(p) ==
  /\ pc[p] = "send"
  /\ Go(p, IF up[choice[p]] THEN "sent" ELSE "unsent")
  /\ since' = IF p = Chooser THEN Unknown ELSE since
  /\ UNCHANGED <<rule, up, counts, healthy, next, seen, choice, server>>

(* Data can fail to go as well; the connection ends with that, or on its   *)
(* own account.                                                            *)
SendData(p) ==
  /\ pc[p] = "open" /\ ~up[choice[p]]
  /\ Go(p, "unsent")
  /\ UNCHANGED <<rule, up, counts, healthy, next, seen, choice, since, server>>

Finish(p) ==
  /\ Go(p, "idle")
  /\ choice' = [choice EXCEPT ![p] = None]

Leave(p) ==
  /\ pc[p] = "open"
  /\ Finish(p)
  /\ UNCHANGED <<rule, up, counts, healthy, next, seen, since, server>>

(* Adds one to a count and looks whether it reached the threshold.         *)
AddOne(n, threshold) == IF n + 1 < threshold THEN n + 1 ELSE n
Reaches(n, threshold) == n + 1 >= threshold

CountSuccess(p) ==
  /\ pc[p] = "succeeded"
  /\ successes' = [successes EXCEPT ![choice[p]] = AddOne(@, HealthyThreshold)]
  /\ Go(p, IF Reaches(successes[choice[p]], HealthyThreshold) THEN "recover" ELSE "open")
  /\ UNCHANGED <<rule, up, failures, healthy, next, seen, choice, since, server>>

CountFailure(p) ==
  /\ pc[p] = "failed"
  /\ failures' = [failures EXCEPT ![choice[p]] = AddOne(@, UnhealthyThreshold)]
  /\ \/ Reaches(failures[choice[p]], UnhealthyThreshold) /\ Go(p, "condemn") /\ UNCHANGED choice
     \/ ~Reaches(failures[choice[p]], UnhealthyThreshold) /\ Finish(p)
  /\ UNCHANGED <<rule, up, successes, healthy, next, seen, since, server>>

OnTheWay(t) == reports[t][TRUE] + reports[t][FALSE]

(* notifyHealthChange starts a goroutine for the report.                   *)
Notify(t, h) ==
  \/ /\ t \in Watched /\ reports[t][h] < MaxReports
     /\ reports' = [reports EXCEPT ![t][h] = @ + 1]
     /\ blurred' = [blurred EXCEPT ![t] = OnTheWay(t) > 0]
     /\ UNCHANGED view
  \/ t \notin Watched /\ UNCHANGED server

(* Mutant: a recovery is not reported. *)
SwapSilently(t, h) ==
  \/ /\ healthy[t] # h
     /\ healthy' = [healthy EXCEPT ![t] = h]
     /\ since' = [since EXCEPT ![t] = "both"]
     /\ IF h THEN UNCHANGED server ELSE Notify(t, h)
  \/ healthy[t] = h /\ UNCHANGED <<healthy, since, server>>

(* healthy.CompareAndSwap(~h, h); whoever succeeds reports the change.     *)
Swap(t, h) ==
  \/ /\ healthy[t] # h
     /\ healthy' = [healthy EXCEPT ![t] = h]
     /\ since' = [since EXCEPT ![t] = "both"]
     /\ Notify(t, h)
  \/ healthy[t] = h /\ UNCHANGED <<healthy, since, server>>

Recover(p) ==
  /\ pc[p] = "recover"
  /\ Swap(choice[p], TRUE)
  /\ Go(p, "open")
  /\ UNCHANGED <<rule, up, counts, next, seen, choice>>

Condemn(p) ==
  /\ pc[p] = "condemn"
  /\ Swap(choice[p], FALSE)
  /\ Finish(p)
  /\ UNCHANGED <<rule, up, counts, next, seen>>

-------------------------------------------------------------------------------
(* The goroutine of a report finds the hub connection or loses it; which   *)
(* of several comes first is open.                                         *)

Arrived(t, h) == reports' = [reports EXCEPT ![t][h] = @ - 1]

Deliver(t, h) ==
  /\ reports[t][h] > 0
  /\ Arrived(t, h)
  /\ view' = [view EXCEPT ![t] = h]
  /\ UNCHANGED <<rule, up, counts, healthy, caller, since, blurred>>

LoseReport(t, h) ==
  /\ reports[t][h] > 0
  /\ Arrived(t, h)
  /\ blurred' = [blurred EXCEPT ![t] = TRUE]
  /\ UNCHANGED <<rule, up, counts, healthy, caller, since, view>>

(* The client of a tunnel loses its connection, or gets one.               *)
Change(t) ==
  /\ up' = [up EXCEPT ![t] = ~@]
  /\ UNCHANGED <<rule, counts, healthy, caller, since, server>>

Step(p) ==
  \/ Load(p) \/ \E t \in Tunnels : Pick(p, t)
  \/ Send(p) \/ SendData(p) \/ RecordSuccess(p) \/ RecordFailure(p)
  \/ CountSuccess(p) \/ CountFailure(p) \/ Recover(p) \/ Condemn(p)

Next ==
  \/ \E p \in Callers : Arrive(p) \/ Step(p) \/ Leave(p)
  \/ \E t \in Tunnels : Change(t)
  \/ \E t \in Watched, h \in BOOLEAN : Deliver(t, h) \/ LoseReport(t, h)

Spec == Init /\ [][Next]_vars

(* Goroutines run, and a random choice avoids no tunnel for ever.  That    *)
(* clients keep connecting, or that a connection ends, is not assumed.     *)
FairSpec ==
  /\ Spec
  /\ \A p \in Callers : WF_vars(Step(p)) /\ \A t \in Tunnels : SF_vars(Pick(p, t))
  /\ WF_vars(\E t \in Watched, h \in BOOLEAN : Deliver(t, h))

-------------------------------------------------------------------------------
(* Properties                                                              *)

(* The choice, made from loads of different moments, is never worse than   *)
(* one made at once: a tunnel that was unhealthy all the while is not      *)
(* taken when another was healthy all the while, and failover takes none   *)
(* of less weight than one that was.                                       *)
ChoiceSound ==
  pc[Chooser] = "send" =>
    LET chosen == choice[Chooser] IN
    \A t \in Tunnels : since[t] = "healthy" =>
      /\ since[chosen] # "unhealthy"
      /\ rule.strategy = "failover" => rule.weight[t] <= rule.weight[chosen]
      /\ rule.weight[chosen] = 0 => rule.weight[t] = 0

(* Once its reports have arrived the server knows the health of a tunnel,  *)
(* unless the last of them was lost or was made while another was still    *)
(* on its way: those two may arrive in either order.                       *)
ServerKnows ==
  \A t \in Watched : OnTheWay(t) = 0 /\ ~blurred[t] => view[t] = healthy[t]

Failing == \E p \in Callers : pc[p] = "failed"
Serving == \E p \in Callers : pc[p] = "succeeded"
Served == []<>Failing => []<>Serving

(* Connections do not go on failing, none of them served, while a tunnel   *)
(* that the fallback of an all-unhealthy rule may choose is up for good.   *)
ServesByFallback ==
  \A t \in Tunnels : <>[](up[t] /\ t \in SelectFromIndices(Tunnels)) => Served

(* The same for a tunnel of any weight, which is what failover is for:     *)
(* "Agents are tried in order of weight (highest first), with weight=0 as  *)
(* backup" (internal/forward/types.go:69).  It does not hold: when all are *)
(* unhealthy the fallback takes the heaviest, up or not, every time.       *)
Serves == \A t \in Tunnels : <>[]up[t] => Served
=============================================================================
