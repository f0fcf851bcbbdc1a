--------------------------- MODULE Traffic_proofs ---------------------------
(* Proofs about Traffic. *)
EXTENDS Traffic, FiniteSetTheorems, TLAPS

(* EachUnitOnce is not inductive.  It also takes that what is not counted  *)
(* is nowhere, and that a local which is assigned held nothing before.     *)
Accounted ==
  /\ Held \cup lost \cup doubtful \subseteq counted
  /\ \A u \in Units \ counted : billed[u] = 0
  /\ phase = "down" => reporter = "none"
  /\ reporter \in {"none", "idle"} => hand = {}
  /\ phase \notin {"finalmerge", "send"} => final = {}

Inv == TypeOK /\ EachUnitOnce /\ Accounted

(* An empty pendingTraffic is within its limit.                            *)
LEMMA NothingPending == Cardinality({}) <= MaxPending
  BY FS_EmptySet, TrafficAssumption

(* Billing keeps the type of the bill.                                     *)
LEMMA BillType ==
  ASSUME billed \in [Units -> 0..2], NEW units, Bill(units)
  PROVE  billed' \in [Units -> 0..2]
<1>1. \A u \in Units : (IF u \in units /\ billed[u] < 2 THEN billed[u] + 1 ELSE billed[u]) \in 0..2
  OBVIOUS
<1> QED
  BY <1>1 DEF Bill

(* Billing counts the units it is given once, and no others.               *)
LEMMA BillOnce ==
  ASSUME billed \in [Units -> 0..2], NEW units, Bill(units), NEW u \in Units
  PROVE  /\ u \notin units => billed'[u] = billed[u]
         /\ u \in units /\ billed[u] = 0 => billed'[u] = 1
  BY DEF Bill

(* Nothing is counted before the agent starts.                             *)
LEMMA InitInv == Init => Inv
<1> SUFFICES ASSUME Init PROVE Inv
  OBVIOUS
<1>1. TypeOK
  BY NothingPending DEF Init, TypeOK, Stopping
<1>2. EachUnitOnce
  BY DEF Init, EachUnitOnce, Apart, Held
<1>3. Accounted
  BY DEF Init, Accounted, Held
<1> QED
  BY <1>1, <1>2, <1>3 DEF Inv

(* The types, action by action.                                            *)
LEMMA TypeStep == TypeOK /\ [Next]_vars => TypeOK'
<1> SUFFICES ASSUME TypeOK, [Next]_vars PROVE TypeOK'
  OBVIOUS
<1> USE DEF TypeOK, Stopping
<1>1. CASE Start
  BY <1>1 DEF Start, outcome
<1>2. ASSUME NEW u \in Units, Count(u) \/ StopForwarder(u) PROVE TypeOK'
  BY <1>2 DEF Count, StopForwarder, outcome
<1>3. CASE Collect
  BY <1>3 DEF Collect, outcome
<1>4. CASE ReporterEnds
  BY <1>4 DEF ReporterEnds, outcome
<1>5. CASE Merge
  BY <1>5, NothingPending DEF Merge, outcome
<1>6. CASE SendTrafficViaWs \/ WsUnavailable
  BY <1>6 DEF SendTrafficViaWs, WsUnavailable, outcome
<1>7. CASE ReportTraffic
  BY <1>7, BillType DEF ReportTraffic
<1>8. CASE ReportFails
  BY <1>8, BillType DEF ReportFails, outcome
<1>9. CASE SavePendingTraffic
  BY <1>9 DEF SavePendingTraffic
<1>10. CASE HubDelivers
  BY <1>10, BillType DEF HubDelivers, local
<1>11. CASE HubLoses
  BY <1>11 DEF HubLoses, local
<1>12. CASE StopCancel \/ FinalCollect \/ StopAll
  BY <1>12 DEF StopCancel, FinalCollect, StopAll, local, outcome
<1>13. CASE FinalMerge
  BY <1>13, NothingPending DEF FinalMerge, outcome
<1>14. CASE FinalReport
  BY <1>14, BillType DEF FinalReport
<1>15. CASE Stopped \/ Crash
  BY <1>15, NothingPending DEF Stopped, Crash, Gone, Held
<1>16. CASE UNCHANGED vars
  BY <1>16 DEF vars, local, outcome
<1> QED
  BY <1>1, <1>2, <1>3, <1>4, <1>5, <1>6, <1>7, <1>8, <1>9, <1>10, <1>11, <1>12, <1>13, <1>14, <1>15, <1>16
     DEF Next, Report, Stop

(* The units, action by action.  A unit moves from one place to the next,  *)
(* and is billed or lost when it leaves the last.                          *)
LEMMA UnitStep == Inv /\ [Next]_vars => (EachUnitOnce /\ Accounted)'
<1> SUFFICES ASSUME Inv, [Next]_vars PROVE (EachUnitOnce /\ Accounted)'
  OBVIOUS
<1> USE DEF Inv, EachUnitOnce, Accounted, Apart, Held
<1>0. /\ billed \in [Units -> 0..2] /\ counted \subseteq Units /\ hand \subseteq Units
      /\ queued \subseteq Units /\ final \subseteq Units
  BY DEF TypeOK
<1>1. CASE Start
  BY <1>1 DEF Start, outcome
<1>2. ASSUME NEW u \in Units, Count(u) PROVE (EachUnitOnce /\ Accounted)'
  BY <1>0, <1>2 DEF Count, outcome
<1>3. ASSUME NEW u \in Units, StopForwarder(u) PROVE (EachUnitOnce /\ Accounted)'
  BY <1>3 DEF StopForwarder
<1>4. CASE Collect
  BY <1>4 DEF Collect, outcome
<1>5. CASE ReporterEnds
  BY <1>5 DEF ReporterEnds, outcome
<1>6. CASE Merge
  BY <1>6 DEF Merge, outcome
<1>7. CASE SendTrafficViaWs
  BY <1>7 DEF SendTrafficViaWs, outcome
<1>8. CASE WsUnavailable
  BY <1>8 DEF WsUnavailable, outcome
<1>9. CASE ReportTraffic
  BY <1>0, <1>9, BillOnce DEF ReportTraffic
<1>10. CASE ReportFails
  <2>1. CASE UNCHANGED outcome
    BY <1>10, <2>1 DEF ReportFails, outcome
  <2>2. CASE Bill(hand) /\ doubtful' = doubtful \cup hand /\ UNCHANGED lost
    BY <1>0, <1>10, <2>2, BillOnce DEF ReportFails
  <2> QED
    BY <1>10, <2>1, <2>2 DEF ReportFails
<1>11. CASE SavePendingTraffic
  BY <1>11 DEF SavePendingTraffic
<1>12. CASE HubDelivers
  BY <1>0, <1>12, BillOnce DEF HubDelivers, local
<1>13. CASE HubLoses
  BY <1>13 DEF HubLoses, local
<1>14. CASE StopCancel
  BY <1>14 DEF StopCancel, local, outcome
<1>15. CASE FinalCollect
  BY <1>15 DEF FinalCollect, outcome
<1>16. CASE FinalMerge
  BY <1>16 DEF FinalMerge, outcome
<1>17. CASE FinalReport
  <2>1. CASE Bill(final) /\ UNCHANGED lost
    BY <1>0, <1>17, <2>1, BillOnce DEF FinalReport
  <2>2. CASE lost' = lost \cup final /\ UNCHANGED billed
    BY <1>17, <2>2 DEF FinalReport
  <2> QED
    BY <1>17, <2>1, <2>2 DEF FinalReport
<1>18. CASE StopAll
  BY <1>18 DEF StopAll
<1>19. CASE Stopped \/ Crash
  BY <1>19 DEF Stopped, Crash, Gone
<1>20. CASE UNCHANGED vars
  BY <1>20 DEF vars, local, outcome
<1> QED
  BY <1>1, <1>2, <1>3, <1>4, <1>5, <1>6, <1>7, <1>8, <1>9, <1>10, <1>11, <1>12, <1>13, <1>14, <1>15,
     <1>16, <1>17, <1>18, <1>19, <1>20 DEF Next, Report, Stop

(* The inductive invariant holds in every state.                           *)
LEMMA Invariance == Spec => []Inv
<1>1. Inv /\ [Next]_vars => Inv'
  BY TypeStep, UnitStep DEF Inv
<1> QED
  BY <1>1, InitInv, PTL DEF Spec

(* Every variable keeps its type, for any rules and any limit; above all,  *)
(* pendingTraffic never holds more than maxPendingTrafficRules.            *)
THEOREM TypeCorrect == Spec => []TypeOK
<1>1. Inv => TypeOK
  BY DEF Inv
<1> QED
  BY <1>1, Invariance, PTL

(* However reports, the final report, losses and crashes interleave: no    *)
(* unit of traffic is in two reports, is billed twice, or disappears.      *)
THEOREM UnitsReportedOnce == Spec => []EachUnitOnce
<1>1. Inv => EachUnitOnce
  BY DEF Inv
<1> QED
  BY <1>1, Invariance, PTL
=============================================================================
