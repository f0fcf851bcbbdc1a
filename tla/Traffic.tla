-------------------------------- MODULE Traffic --------------------------------
(***************************************************************************)
(* What becomes of the traffic the forwarders count: trafficLoop reports   *)
(* it over the hub connection or by HTTP and keeps what it could not       *)
(* report, Stop reports once more on its own (internal/agent/reporting.go, *)
(* agent.go), and crashes.  A unit is what one rule counts at a time.  The *)
(* hub connection is one that delivers or loses what it queued; its own    *)
(* states are in HubConn.                                                  *)
(***************************************************************************)
EXTENDS FiniteSets, Naturals

CONSTANTS
  Units,     \* units of traffic
  MaxPending \* maxPendingTrafficRules

ASSUME TrafficAssumption == MaxPending \in Nat \ {0}

VARIABLES
  phase,    \* of the process: down, up, or a step of Stop
  counter,  \* the counters of the forwarders
  reporter, \* the next step of trafficLoop
  hand,     \* its local variable items
  pending,  \* pendingTraffic
  final,    \* items of reportFinalTraffic
  queued,   \* on its way through the hub connection
  billed,   \* how often the server got each unit, up to 2
  counted,  \* history: units that were counted
  lost,     \* history: units lost in one of the ways the code has
  doubtful  \* history: units of a call that failed after the server had taken it

local   == <<counter, reporter, hand, pending, final>>
outcome == <<billed, lost, doubtful>>
vars    == <<phase, local, queued, counted, outcome>>

Stopping == {"final", "finalmerge", "send", "stopall", "wait"}

TypeOK ==
  /\ phase \in {"down", "up"} \cup Stopping
  /\ reporter \in {"none", "idle", "merge", "ws", "http", "save"}
  /\ \A s \in {counter, hand, pending, final, queued, counted, lost, doubtful} : s \subseteq Units
  /\ Cardinality(pending) <= MaxPending
  /\ billed \in [Units -> 0..2]

Init ==
  /\ phase = "down" /\ reporter = "none"
  /\ counter = {} /\ hand = {} /\ pending = {} /\ final = {} /\ queued = {}
  /\ billed = [u \in Units |-> 0]
  /\ counted = {} /\ lost = {} /\ doubtful = {}

Cancelled == phase \in Stopping

Start ==
  /\ phase = "down"
  /\ phase' = "up" /\ reporter' = "idle"
  /\ UNCHANGED <<counter, hand, pending, final, queued, counted, outcome>>

(* A forwarder copies data, until stopAll stops it.                        *)
Count(u) ==
  /\ phase \notin {"down", "wait"} /\ u \notin counted
  /\ counter' = counter \cup {u} /\ counted' = counted \cup {u}
  /\ UNCHANGED <<phase, reporter, hand, pending, final, queued, outcome>>

(* A rule is stopped, or restarted by a sync that Stop does not wait for:  *)
(* what its forwarder counted since the last report goes with it.          *)
StopForwarder(u) ==
  /\ phase \notin {"down", "wait"} /\ u \in counter
  /\ counter' = counter \ {u} /\ lost' = lost \cup {u}
  /\ UNCHANGED <<phase, reporter, hand, pending, final, queued, counted, billed, doubtful>>

-------------------------------------------------------------------------------
(* reportTraffic                                                           *)

(* Mutant: the counters are read and not reset. *)
CollectOnlyReads ==
  /\ reporter = "idle"
  /\ hand' = counter
  /\ reporter' = "merge"
  /\ UNCHANGED <<phase, counter, pending, final, queued, counted, outcome>>

(* The counters are taken one after the other; those Stop is taking at the *)
(* same time are the other's.  The ticker may fire after the cancel, too.  *)
Collect ==
  /\ reporter = "idle"
  /\ \E taken \in SUBSET counter :
       /\ phase # "final" => taken = counter
       /\ hand' = taken /\ counter' = counter \ taken
  /\ reporter' = "merge"
  /\ UNCHANGED <<phase, pending, final, queued, counted, outcome>>

ReporterEnds ==
  /\ reporter = "idle" /\ Cancelled
  /\ reporter' = "none"
  /\ UNCHANGED <<phase, counter, hand, pending, final, queued, counted, outcome>>

(* What is pending goes into this report, and only there.                  *)
Merge ==
  /\ reporter = "merge"
  /\ hand' = hand \cup pending /\ pending' = {}
  /\ reporter' = IF hand' = {} THEN "idle" ELSE "ws"
  /\ UNCHANGED <<phase, counter, final, queued, counted, outcome>>

(* Queued on the hub connection is as good as sent.                        *)
SendTrafficViaWs ==
  /\ reporter = "ws"
  /\ queued' = queued \cup hand /\ hand' = {}
  /\ reporter' = "idle"
  /\ UNCHANGED <<phase, counter, pending, final, counted, outcome>>

(* There is no connection, it is closed or its queue is full.              *)
WsUnavailable ==
  /\ reporter = "ws"
  /\ reporter' = "http"
  /\ UNCHANGED <<phase, counter, hand, pending, final, queued, counted, outcome>>

Bill(units) == billed' = [u \in Units |-> IF u \in units /\ billed[u] < 2 THEN billed[u] + 1 ELSE billed[u]]

ReportTraffic ==
  /\ reporter = "http" /\ ~Cancelled
  /\ Bill(hand) /\ hand' = {}
  /\ reporter' = "idle"
  /\ UNCHANGED <<phase, counter, pending, final, queued, counted, lost, doubtful>>

(* The call fails, at once when ctx is done; the server may have taken it. *)
ReportFails ==
  /\ reporter = "http"
  /\ \/ UNCHANGED outcome
     \/ Bill(hand) /\ doubtful' = doubtful \cup hand /\ UNCHANGED lost
  /\ reporter' = "save"
  /\ UNCHANGED <<phase, counter, hand, pending, final, queued, counted>>

(* Mutant: a failed report is logged and forgotten. *)
SaveNothing ==
  /\ reporter = "save"
  /\ hand' = {} /\ reporter' = "idle"
  /\ UNCHANGED <<phase, counter, pending, final, queued, counted, outcome>>

(* Mutant: the list grows with every failed report. *)
SaveUnlimited ==
  /\ reporter = "save"
  /\ pending' = pending \cup hand /\ hand' = {} /\ reporter' = "idle"
  /\ UNCHANGED <<phase, counter, final, queued, counted, outcome>>

(* What is above the limit is dropped, the oldest first.                   *)
SavePendingTraffic ==
  /\ reporter = "save"
  /\ \E kept \in SUBSET (pending \cup hand) :
       /\ Cardinality(kept) <= MaxPending
       /\ kept = pending \cup hand \/ Cardinality(kept) = MaxPending
       /\ pending' = kept /\ lost' = lost \cup ((pending \cup hand) \ kept)
  /\ hand' = {} /\ reporter' = "idle"
  /\ UNCHANGED <<phase, counter, final, queued, counted, billed, doubtful>>

HubDelivers ==
  /\ queued # {}
  /\ Bill(queued) /\ queued' = {}
  /\ UNCHANGED <<phase, local, counted, lost, doubtful>>

(* The connection is lost with what it had queued.                         *)
HubLoses ==
  /\ queued # {}
  /\ lost' = lost \cup queued /\ queued' = {}
  /\ UNCHANGED <<phase, local, counted, billed, doubtful>>

-------------------------------------------------------------------------------
(* Stop and crash                                                          *)

StopCancel ==
  /\ phase = "up"
  /\ phase' = "final"
  /\ UNCHANGED <<local, queued, counted, outcome>>

(* reportFinalTraffic, whatever trafficLoop is doing.                      *)
FinalCollect ==
  /\ phase = "final"
  /\ final' = counter /\ counter' = {}
  /\ phase' = "finalmerge"
  /\ UNCHANGED <<reporter, hand, pending, queued, counted, outcome>>

FinalMerge ==
  /\ phase = "finalmerge"
  /\ final' = final \cup pending /\ pending' = {}
  /\ phase' = "send"
  /\ UNCHANGED <<counter, reporter, hand, queued, counted, outcome>>

(* Its own context has five seconds; a failure is the end of these units.  *)
(* One the server had taken is the same as a success: no retry follows.    *)
FinalReport ==
  /\ phase = "send"
  /\ \/ Bill(final) /\ UNCHANGED lost
     \/ lost' = lost \cup final /\ UNCHANGED billed
  /\ final' = {} /\ phase' = "stopall"
  /\ UNCHANGED <<counter, reporter, hand, pending, queued, counted, doubtful>>

(* The forwarders end with what they counted since.                        *)
StopAll ==
  /\ phase = "stopall"
  /\ lost' = lost \cup counter /\ counter' = {}
  /\ phase' = "wait"
  /\ UNCHANGED <<reporter, hand, pending, final, queued, counted, billed, doubtful>>

Held == counter \cup hand \cup pending \cup final \cup queued

(* The process is gone, and with it all it had not reported.               *)
Gone ==
  /\ phase' = "down" /\ reporter' = "none"
  /\ counter' = {} /\ hand' = {} /\ pending' = {} /\ final' = {} /\ queued' = {}
  /\ lost' = lost \cup Held
  /\ UNCHANGED <<counted, billed, doubtful>>

(* Stop returns; a report that failed after FinalMerge left units pending. *)
Stopped == phase = "wait" /\ reporter = "none" /\ Gone

Crash == phase # "down" /\ Gone

Report == Collect \/ ReporterEnds \/ Merge \/ SendTrafficViaWs \/ WsUnavailable
            \/ ReportTraffic \/ ReportFails \/ SavePendingTraffic
Stop   == StopCancel \/ FinalCollect \/ FinalMerge \/ FinalReport \/ StopAll \/ Stopped

Next ==
  \/ Start \/ Report \/ HubDelivers \/ HubLoses \/ Stop \/ Crash
  \/ \E u \in Units : Count(u) \/ StopForwarder(u)

(* The loops run, what is queued is sent or lost, Stop goes on, a call     *)
(* that is made again and again succeeds at some time, and between two     *)
(* ticks trafficLoop sees that ctx is done.                                *)
Fairness ==
  /\ WF_vars(Report) /\ WF_vars(HubDelivers \/ HubLoses) /\ SF_vars(ReportTraffic)
  /\ SF_vars(ReporterEnds)
  /\ WF_vars(FinalCollect \/ FinalMerge \/ FinalReport \/ StopAll \/ Stopped)

Spec == Init /\ [][Next]_vars /\ Fairness

-------------------------------------------------------------------------------
(* Properties                                                              *)

(* The places a unit can be in.                                           *)
Apart ==
  /\ counter \cap (hand \cup pending \cup final \cup queued) = {}
  /\ hand \cap (pending \cup final \cup queued) = {}
  /\ pending \cap (final \cup queued) = {}
  /\ final \cap queued = {}

(* No unit is in two reports at a time, and the server gets none twice,    *)
(* however trafficLoop and Stop share the counters and pendingTraffic,     *)
(* unless a call failed after the server had taken it; and none disappears *)
(* but in one of the ways the code has.                                    *)
EachUnitOnce ==
  /\ Apart /\ Held \cap lost = {}
  /\ \A u \in counted \ doubtful : billed[u] = IF u \in Held \cup lost THEN 0 ELSE 1

(* What was counted is billed in the end, or lost in one of those ways: a  *)
(* report that failed is tried again until it succeeds.                    *)
Billed == \A u \in Units : u \in counted ~> billed[u] > 0 \/ u \in lost
=============================================================================
