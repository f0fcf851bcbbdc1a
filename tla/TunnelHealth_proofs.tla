-------------------------- MODULE TunnelHealth_proofs --------------------------
(***************************************************************************)
(* Proofs about TunnelHealth, for any number of tunnels, any weights and   *)
(* any thresholds.                                                         *)
(***************************************************************************)
EXTENDS TunnelHealth, FiniteSetTheorems, WellFoundedInduction, TLAPS

-------------------------------------------------------------------------------
(* What selectTunnel returns                                               *)

LEMMA Heaviest ==
  ASSUME NEW W \in SUBSET Tunnels, W # {}, NEW weight \in [Tunnels -> Nat]
  PROVE  \E t \in W : \A u \in W : weight[u] <= weight[t]
<1> DEFINE Above(t) == {u \in W : weight[t] <= weight[u]}
           Family == {Above(t) : t \in W}
<1>1. IsFiniteSet(W)
  <2>1. IsFiniteSet(Tunnels)
    BY HealthAssumption, FS_Interval DEF Tunnels
  <2> QED
    BY <2>1, FS_Subset
<1>2. Family \subseteq FiniteSubsetsOf(W) /\ Family # {}
  <2>1. ASSUME NEW t \in W PROVE Above(t) \in SUBSET W /\ IsFiniteSet(Above(t))
    BY <1>1, FS_Subset
  <2> HIDE DEF Above
  <2>2. ASSUME NEW t \in W PROVE Above(t) \in FiniteSubsetsOf(W)
    BY <2>1 DEF FiniteSubsetsOf
  <2> QED
    BY <2>2
<1>3. PICK F \in Family : \A G \in Family : <<G, F>> \notin StrictSubsetOrdering(W)
  <2> HIDE DEF Family
  <2> QED
    BY <1>2, FS_StrictSubsetOrderingWellFounded, WFMin
<1>4. PICK t \in W : F = Above(t)
  BY <1>3
<1>5. ASSUME NEW u \in W, weight[t] < weight[u] PROVE FALSE
  <2>1. Above(u) \subseteq Above(t)
    BY <1>5
  <2>2. t \in Above(t) /\ t \notin Above(u)
    BY <1>5
  <2>3. <<Above(u), Above(t)>> \in StrictSubsetOrdering(W)
    BY <2>1, <2>2 DEF StrictSubsetOrdering
  <2> QED
    BY <1>3, <1>4, <2>3
<1>6. \A u \in W : weight[u] <= weight[t]
  BY <1>5
<1> QED
  BY <1>6

(* The first of some tunnels is one of them.                               *)
LEMMA FirstIn ==
  ASSUME NEW I \in SUBSET Tunnels, I # {}
  PROVE  First(I) \in I
<1> DEFINE height == [t \in Tunnels |-> MaxTunnel - t]
<1>1. height \in [Tunnels -> Nat]
  BY HealthAssumption DEF Tunnels
<1>2. PICK t \in I : \A u \in I : height[u] <= height[t]
  <2> HIDE DEF height
  <2> QED
    BY <1>1, Heaviest
<1>3. ASSUME NEW u \in I PROVE t <= u
  <2>1. MaxTunnel \in Int /\ t \in Int /\ u \in Int /\ t \in Tunnels /\ u \in Tunnels
    BY HealthAssumption DEF Tunnels
  <2>2. MaxTunnel - u <= MaxTunnel - t
    BY <1>2, <2>1
  <2> QED
    BY <2>1, <2>2
<1>4. \E v \in I : \A u \in I : v <= u
  BY <1>3
<1> QED
  BY <1>4, Zenon DEF First

(* Failover chooses a tunnel it was given, none of which weighs more.      *)
LEMMA FailoverSound ==
  ASSUME rule \in Rules, NEW I \in SUBSET Tunnels, I # {}, NEW chosen, chosen = SelectFailover(I)
  PROVE  chosen \in I /\ \A u \in I : rule.weight[u] <= rule.weight[chosen]
<1>1. rule.weight \in [Tunnels -> Nat]
  BY HealthAssumption
<1>2. CASE Weighty(I) = {}
  <2>1. chosen \in I
    BY <1>2, FirstIn DEF SelectFailover
  <2>2. \A u \in I : rule.weight[u] = 0
    BY <1>1, <1>2 DEF Weighty
  <2> QED
    BY <2>1, <2>2
<1>3. CASE Weighty(I) # {}
  <2> DEFINE Top == {t \in Weighty(I) : \A u \in Weighty(I) : rule.weight[u] <= rule.weight[t]}
  <2>1. Weighty(I) \in SUBSET Tunnels
    BY DEF Weighty
  <2>2. Top # {} /\ Top \in SUBSET Tunnels
    BY <1>1, <1>3, <2>1, Heaviest
  <2>3. chosen \in Top
    <3> HIDE DEF Top
    <3>1. chosen = First(Top)
      BY <1>3 DEF SelectFailover, Top
    <3> QED
      BY <2>2, <3>1, FirstIn
  <2>4. \A u \in I : u \notin Weighty(I) => rule.weight[u] = 0
    BY <1>1 DEF Weighty
  <2> QED
    BY <1>1, <2>1, <2>3, <2>4 DEF Weighty
<1> QED
  BY <1>2, <1>3

(* Of the tunnels it is given a strategy takes a heaviest one, or at least *)
(* one of some weight when there is one.                                   *)
LEMMA SelectSound ==
  ASSUME rule \in Rules, NEW I \in SUBSET Tunnels, I # {}, NEW t \in SelectFromIndices(I)
  PROVE  /\ t \in I
         /\ rule.strategy = "failover" => \A u \in I : rule.weight[u] <= rule.weight[t]
         /\ rule.weight[t] = 0 => \A u \in I : rule.weight[u] = 0
<1>1. rule.weight \in [Tunnels -> Nat]
  BY HealthAssumption
<1>2. CASE rule.strategy = "failover"
  <2>1. t = SelectFailover(I)
    BY <1>2 DEF SelectFromIndices
  <2>2. t \in I /\ \A u \in I : rule.weight[u] <= rule.weight[t]
    BY <2>1, FailoverSound
  <2> QED
    BY <1>1, <2>2
<1>3. CASE rule.strategy # "failover"
  BY <1>1, <1>3 DEF SelectFromIndices, SelectWeighted, Weighty
<1> QED
  BY <1>2, <1>3

(* Whatever the strategy, the choice is a tunnel.                          *)
LEMMA SelectTunnelType ==
  ASSUME rule \in Rules, NEW I \in SUBSET Tunnels, NEW t \in SelectTunnel(I)
  PROVE  t \in Tunnels
<1>1. Tunnels # {} /\ Tunnels \in SUBSET Tunnels
  BY HealthAssumption DEF Tunnels
<1> QED
  BY <1>1, SelectSound DEF SelectTunnel

-------------------------------------------------------------------------------
(* The inductive invariant                                                 *)

(* A connection past its choice has a tunnel; one that is not choosing     *)
(* holds nothing of a choice.                                              *)
HasChoice == {"send", "sent", "unsent", "open", "succeeded", "failed", "recover", "condemn"}

Chosen ==
  \A p \in Callers :
    /\ pc[p] \in HasChoice => choice[p] \in Tunnels
    /\ pc[p] # "load" => next[p] = 0 /\ seen[p] = {}

(* While Chooser loads, since is what the tunnels have been: what was the  *)
(* same all the while still is, and was so when its turn came.             *)
Watching ==
  pc[Chooser] = "load" => \A t \in Tunnels :
    /\ since[t] = "healthy" => healthy[t] /\ (t < next[Chooser] => t \in seen[Chooser])
    /\ since[t] = "unhealthy" => ~healthy[t] /\ t \notin seen[Chooser]

(* A report that went alone tells what the tunnel is, and until it comes   *)
(* or is lost no other does.                                               *)
Reported ==
  \A t \in Watched : ~blurred[t] =>
    \/ OnTheWay(t) = 0 /\ view[t] = healthy[t]
    \/ \E h \in BOOLEAN : OnTheWay(t) = 1 /\ reports[t][h] = 1 /\ healthy[t] = h

Inv == TypeOK /\ Chosen /\ Watching /\ ChoiceSound /\ Reported

(* Before the first call nothing is chosen and nothing reported.           *)
LEMMA InitInv == Init => Inv
<1> SUFFICES ASSUME Init PROVE Inv
  OBVIOUS
<1>1. TypeOK
  BY HealthAssumption DEF Init, TypeOK, Unknown, Steps, Tunnels
<1>2. Chosen
  BY DEF Init, Chosen, HasChoice
<1>3. Watching /\ ChoiceSound
  BY HealthAssumption DEF Init, Watching, ChoiceSound
<1>4. Reported
  <2>1. ASSUME NEW t \in Watched PROVE OnTheWay(t) = 0 /\ view[t] = healthy[t]
    <3>1. \A h \in BOOLEAN : reports[t][h] = 0
      BY DEF Init
    <3>2. reports[t][TRUE] = 0 /\ reports[t][FALSE] = 0
      BY <3>1, Zenon
    <3>4. OnTheWay(t) = 0
      BY <3>2 DEF OnTheWay
    <3>3. view[t] = TRUE /\ healthy[t] = TRUE
      BY HealthAssumption DEF Init
    <3> QED
      BY <3>3, <3>4
  <2> QED
    BY <2>1 DEF Reported
<1> QED
  BY <1>1, <1>2, <1>3, <1>4 DEF Inv

-------------------------------------------------------------------------------
(* The types, action by action.                                            *)

LEMMA NotifyType ==
  ASSUME TypeOK, NEW t \in Tunnels, NEW h \in BOOLEAN, Notify(t, h)
  PROVE  /\ reports' \in [Watched -> [BOOLEAN -> 0..MaxReports]]
         /\ view' \in [Watched -> BOOLEAN] /\ blurred' \in [Watched -> BOOLEAN]
<1>1. CASE t \in Watched
  <2>1. reports[t][h] + 1 \in 0..MaxReports
    BY <1>1, HealthAssumption DEF TypeOK, Notify, server
  <2>2. reports' \in [Watched -> [BOOLEAN -> 0..MaxReports]]
    <3>1. reports[t] \in [BOOLEAN -> 0..MaxReports]
      BY <1>1 DEF TypeOK
    <3>2. [reports[t] EXCEPT ![h] = reports[t][h] + 1] \in [BOOLEAN -> 0..MaxReports]
      BY <2>1, <3>1
    <3>3. reports' = [reports EXCEPT ![t] = [reports[t] EXCEPT ![h] = reports[t][h] + 1]]
      BY <1>1 DEF Notify
    <3> QED
      BY <3>2, <3>3 DEF TypeOK
  <2>3. (OnTheWay(t) > 0) \in BOOLEAN
    OBVIOUS
  <2> QED
    BY <1>1, <2>2, <2>3 DEF TypeOK, Notify, server
<1>2. CASE t \notin Watched
  BY <1>2 DEF TypeOK, Notify, server
<1> QED
  BY <1>1, <1>2

(* A change of health keeps the types, its report included.                *)
LEMMA SwapType ==
  ASSUME TypeOK, NEW t \in Tunnels, NEW h \in BOOLEAN, Swap(t, h)
  PROVE  /\ healthy' \in [Tunnels -> BOOLEAN] /\ since' \in [Tunnels -> {"healthy", "unhealthy", "both"}]
         /\ reports' \in [Watched -> [BOOLEAN -> 0..MaxReports]]
         /\ view' \in [Watched -> BOOLEAN] /\ blurred' \in [Watched -> BOOLEAN]
<1>1. CASE healthy[t] # h
  <2>1. /\ reports' \in [Watched -> [BOOLEAN -> 0..MaxReports]]
        /\ view' \in [Watched -> BOOLEAN] /\ blurred' \in [Watched -> BOOLEAN]
    BY <1>1, NotifyType DEF Swap
  <2>2. healthy' \in [Tunnels -> BOOLEAN]
    BY <1>1 DEF Swap, TypeOK
  <2>3. since' \in [Tunnels -> {"healthy", "unhealthy", "both"}]
    BY <1>1 DEF Swap, TypeOK
  <2> QED
    BY <2>1, <2>2, <2>3
<1>2. CASE healthy[t] = h
  BY <1>2 DEF Swap, TypeOK, server
<1> QED
  BY <1>1, <1>2

(* A count that reaches its threshold starts again.                        *)
LEMMA CountType ==
  ASSUME NEW k \in Nat \ {0}, NEW n \in 0..(k - 1)
  PROVE  AddOne(n, k) \in 0..(k - 1)
  BY DEF AddOne

(* The types, action by action.                                            *)
LEMMA TypeStep == TypeOK /\ Chosen /\ [Next]_vars => TypeOK'
<1> SUFFICES ASSUME TypeOK, Chosen, [Next]_vars PROVE TypeOK'
  OBVIOUS
<1> USE DEF Go, counts, caller, server
<1>1. ASSUME NEW p \in Callers, Arrive(p) PROVE TypeOK'
  <2>1. since' \in [Tunnels -> {"healthy", "unhealthy", "both"}]
    BY <1>1 DEF Arrive, TypeOK
  <2>2. pc' \in [Callers -> Steps]
    BY <1>1 DEF Arrive, TypeOK, Steps
  <2> QED
    BY <1>1, <2>1, <2>2 DEF Arrive, TypeOK
<1>2. ASSUME NEW p \in Callers, Load(p) PROVE TypeOK'
  <2>0. next[p] \in 0..MaxTunnel /\ next[p] + 1 \in 0..MaxTunnel
    BY <1>2, HealthAssumption DEF Load, TypeOK
  <2>1. next' \in [Callers -> 0..MaxTunnel] /\ next[p] \in Tunnels
    BY <1>2, <2>0 DEF Load, TypeOK, Tunnels
  <2>2. Loads(next[p], seen[p]) \in SUBSET Tunnels
    BY <2>1 DEF Loads, TypeOK
  <2>3. seen' \in [Callers -> SUBSET Tunnels]
    BY <1>2, <2>2 DEF Load, TypeOK
  <2> QED
    BY <1>2, <2>1, <2>3 DEF Load, TypeOK
<1>3. ASSUME NEW p \in Callers, NEW t \in Tunnels, Pick(p, t) PROVE TypeOK'
  <2>1. pc' \in [Callers -> Steps] /\ choice' \in [Callers -> Tunnels \cup {None}]
    BY <1>3 DEF Pick, TypeOK, Steps
  <2>2. next' \in [Callers -> 0..MaxTunnel] /\ seen' \in [Callers -> SUBSET Tunnels]
    BY <1>3, HealthAssumption DEF Pick, TypeOK
  <2> QED
    BY <1>3, <2>1, <2>2 DEF Pick, TypeOK
<1>4. ASSUME NEW p \in Callers, Send(p) \/ SendData(p) PROVE TypeOK'
  <2>1. pc' \in [Callers -> Steps]
    BY <1>4 DEF Send, SendData, TypeOK, Steps
  <2>2. since' \in [Tunnels -> {"healthy", "unhealthy", "both"}]
    BY <1>4 DEF Send, SendData, TypeOK, Unknown
  <2> QED
    BY <1>4, <2>1, <2>2 DEF Send, SendData, TypeOK
<1>12. ASSUME NEW p \in Callers, RecordSuccess(p) \/ RecordFailure(p) PROVE TypeOK'
  <2>1. pc' \in [Callers -> Steps]
    BY <1>12 DEF RecordSuccess, RecordFailure, TypeOK, Steps
  <2>2. 0 \in 0..(UnhealthyThreshold - 1) /\ 0 \in 0..(HealthyThreshold - 1)
    BY HealthAssumption
  <2>3. /\ failures' \in [Tunnels -> 0..(UnhealthyThreshold - 1)]
        /\ successes' \in [Tunnels -> 0..(HealthyThreshold - 1)]
    BY <1>12, <2>2 DEF RecordSuccess, RecordFailure, TypeOK
  <2> QED
    BY <1>12, <2>1, <2>3 DEF RecordSuccess, RecordFailure, TypeOK
<1>5. ASSUME NEW p \in Callers, Leave(p) PROVE TypeOK'
  BY <1>5 DEF Leave, Finish, TypeOK, Steps
<1>6. ASSUME NEW p \in Callers, CountSuccess(p) PROVE TypeOK'
  <2>1. choice[p] \in Tunnels
    BY <1>6 DEF CountSuccess, Chosen, HasChoice
  <2>2. AddOne(successes[choice[p]], HealthyThreshold) \in 0..(HealthyThreshold - 1)
    BY <2>1, HealthAssumption, CountType DEF TypeOK
  <2>3. successes' \in [Tunnels -> 0..(HealthyThreshold - 1)]
    BY <1>6, <2>1, <2>2 DEF CountSuccess, TypeOK
  <2>4. pc' \in [Callers -> Steps]
    BY <1>6 DEF CountSuccess, TypeOK, Steps
  <2> QED
    BY <1>6, <2>3, <2>4 DEF CountSuccess, TypeOK
<1>7. ASSUME NEW p \in Callers, CountFailure(p) PROVE TypeOK'
  <2>1. choice[p] \in Tunnels
    BY <1>7 DEF CountFailure, Chosen, HasChoice
  <2>2. AddOne(failures[choice[p]], UnhealthyThreshold) \in 0..(UnhealthyThreshold - 1)
    BY <2>1, HealthAssumption, CountType DEF TypeOK
  <2>3. failures' \in [Tunnels -> 0..(UnhealthyThreshold - 1)]
    BY <1>7, <2>1, <2>2 DEF CountFailure, TypeOK
  <2>4. pc' \in [Callers -> Steps] /\ choice' \in [Callers -> Tunnels \cup {None}]
    BY <1>7 DEF CountFailure, Finish, TypeOK, Steps
  <2> QED
    BY <1>7, <2>3, <2>4 DEF CountFailure, TypeOK
<1>8. ASSUME NEW p \in Callers, Recover(p) \/ Condemn(p) PROVE TypeOK'
  <2>1. choice[p] \in Tunnels
    BY <1>8 DEF Recover, Condemn, Chosen, HasChoice
  <2>2. PICK h \in BOOLEAN : Swap(choice[p], h)
    BY <1>8 DEF Recover, Condemn
  <2>3. pc' \in [Callers -> Steps] /\ choice' \in [Callers -> Tunnels \cup {None}]
    BY <1>8 DEF Recover, Condemn, Finish, TypeOK, Steps
  <2>4. UNCHANGED <<rule, up, failures, successes, next, seen>>
    BY <1>8 DEF Recover, Condemn
  <2> QED
    BY <2>1, <2>2, <2>3, <2>4, SwapType DEF TypeOK
<1>9. ASSUME NEW t \in Tunnels, Change(t) PROVE TypeOK'
  BY <1>9 DEF Change, TypeOK
<1>10. ASSUME NEW t \in Watched, NEW h \in BOOLEAN, Deliver(t, h) \/ LoseReport(t, h) PROVE TypeOK'
  <2>1. reports[t] \in [BOOLEAN -> 0..MaxReports] /\ reports[t][h] - 1 \in 0..MaxReports
    BY <1>10, HealthAssumption DEF Deliver, LoseReport, TypeOK
  <2>2. [reports[t] EXCEPT ![h] = reports[t][h] - 1] \in [BOOLEAN -> 0..MaxReports]
    BY <2>1
  <2>3. reports' = [reports EXCEPT ![t] = [reports[t] EXCEPT ![h] = reports[t][h] - 1]]
    BY <1>10 DEF Deliver, LoseReport, Arrived
  <2>4. reports' \in [Watched -> [BOOLEAN -> 0..MaxReports]]
    BY <2>2, <2>3 DEF TypeOK
  <2>5. view' \in [Watched -> BOOLEAN] /\ blurred' \in [Watched -> BOOLEAN]
    BY <1>10 DEF Deliver, LoseReport, TypeOK
  <2> QED
    BY <1>10, <2>4, <2>5 DEF Deliver, LoseReport, TypeOK
<1>11. CASE UNCHANGED vars
  BY <1>11 DEF vars, TypeOK
<1> QED
  BY <1>1, <1>2, <1>3, <1>4, <1>5, <1>6, <1>7, <1>8, <1>9, <1>10, <1>11, <1>12 DEF Next, Step

-------------------------------------------------------------------------------
(* The choices, action by action.                                          *)

LEMMA ChosenStep == TypeOK /\ Chosen /\ [Next]_vars => Chosen'
<1> SUFFICES ASSUME TypeOK, Chosen, [Next]_vars, NEW q \in Callers
             PROVE  /\ pc'[q] \in HasChoice =>
                         choice'[q] \in Tunnels
                    /\ pc'[q] # "load" => next'[q] = 0 /\ seen'[q] = {}
  BY DEF Chosen, HasChoice
<1> DEFINE Goal == /\ pc'[q] \in HasChoice =>
                        choice'[q] \in Tunnels
                   /\ pc'[q] # "load" => next'[q] = 0 /\ seen'[q] = {}
<1> USE DEF Go, caller, TypeOK, Chosen, HasChoice
<1>1. ASSUME NEW p \in Callers, Arrive(p) \/ Load(p) \/ Leave(p) PROVE Goal
  BY <1>1 DEF Arrive, Load, Leave, Finish
<1>2. ASSUME NEW p \in Callers, NEW t \in Tunnels, Pick(p, t) PROVE Goal
  BY <1>2 DEF Pick
<1>3. ASSUME NEW p \in Callers, Send(p) \/ SendData(p) \/ RecordSuccess(p) \/ RecordFailure(p)
      PROVE  Goal
  BY <1>3 DEF Send, SendData, RecordSuccess, RecordFailure
<1>4. ASSUME NEW p \in Callers, CountSuccess(p) \/ CountFailure(p) PROVE Goal
  BY <1>4 DEF CountSuccess, CountFailure, Finish
<1>5. ASSUME NEW p \in Callers, Recover(p) \/ Condemn(p) PROVE Goal
  BY <1>5 DEF Recover, Condemn, Finish
<1>6. ASSUME NEW t \in Tunnels, Change(t) PROVE Goal
  BY <1>6 DEF Change
<1>7. ASSUME NEW t \in Watched, NEW h \in BOOLEAN, Deliver(t, h) \/ LoseReport(t, h) PROVE Goal
  BY <1>7 DEF Deliver, LoseReport
<1>8. CASE UNCHANGED vars
  BY <1>8 DEF vars
<1> QED
  BY <1>1, <1>2, <1>3, <1>4, <1>5, <1>6, <1>7, <1>8 DEF Next, Step

(* The history of a tunnel may only forget, as with a change of health.    *)
Forgets(t) == since'[t] = "both" \/ (since'[t] = since[t] /\ healthy'[t] = healthy[t])

(* Whatever does not concern the choice of Chooser.                        *)
LEMMA OtherStep ==
  ASSUME Chosen, Watching, ChoiceSound,
         pc'[Chooser] \in {"load", "send"} => pc'[Chooser] = pc[Chooser],
         rule' = rule, next'[Chooser] = next[Chooser], seen'[Chooser] = seen[Chooser],
         pc'[Chooser] = "send" => choice'[Chooser] = choice[Chooser],
         \A t \in Tunnels : Forgets(t)
  PROVE  (Watching /\ ChoiceSound)'
<1>1. Watching'
  BY DEF Watching, Forgets
<1>2. ChoiceSound'
  <2> SUFFICES ASSUME pc'[Chooser] = "send", NEW t \in Tunnels, since'[t] = "healthy"
               PROVE  /\ since'[choice[Chooser]] # "unhealthy"
                      /\ rule.strategy = "failover" => rule.weight[t] <= rule.weight[choice[Chooser]]
                      /\ rule.weight[choice[Chooser]] = 0 => rule.weight[t] = 0
    BY DEF ChoiceSound
  <2>1. choice[Chooser] \in Tunnels
    BY HealthAssumption DEF Chosen, HasChoice
  <2>2. since[t] = "healthy" /\ (since'[choice[Chooser]] = "unhealthy" => since[choice[Chooser]] = "unhealthy")
    BY <2>1 DEF Forgets
  <2> QED
    BY <2>2 DEF ChoiceSound
<1> QED
  BY <1>1, <1>2

(* A change of health is noted in the history of its tunnel.               *)
LEMMA SwapForgets ==
  ASSUME TypeOK, NEW t \in Tunnels, NEW h \in BOOLEAN, Swap(t, h), NEW u \in Tunnels
  PROVE  Forgets(u)
<1>1. CASE healthy' = [healthy EXCEPT ![t] = h] /\ since' = [since EXCEPT ![t] = "both"]
  <2>1. since'[t] = "both"
    BY <1>1 DEF TypeOK
  <2>2. CASE u = t
    <3>1. since'[u] = "both"
      BY <2>1, <2>2
    <3> QED
      BY <3>1, Zenon DEF Forgets
  <2>3. CASE u # t
    <3>1. since'[u] = since[u]
      BY <1>1, <2>3 DEF TypeOK
    <3>2. healthy'[u] = healthy[u]
      BY <1>1, <2>3 DEF TypeOK
    <3> QED
      BY <3>1, <3>2, Zenon DEF Forgets
  <2> QED
    BY <2>2, <2>3
<1>2. CASE healthy' = healthy /\ since' = since
  BY <1>2, Zenon DEF Forgets
<1> QED
  BY <1>1, <1>2, Zenon DEF Swap, Forgets, server

(* What Chooser saw and what it chose of it, action by action.             *)
LEMMA ChoiceStep == Inv /\ [Next]_vars => (Watching /\ ChoiceSound)'
<1> SUFFICES ASSUME Inv, [Next]_vars PROVE (Watching /\ ChoiceSound)'
  OBVIOUS
<1> USE DEF Go, counts, caller, server
<1>0. TypeOK /\ Chosen /\ Watching /\ ChoiceSound /\ Chooser \in Callers
  BY HealthAssumption DEF Inv
<1>1. ASSUME NEW p \in Callers, Arrive(p) PROVE (Watching /\ ChoiceSound)'
  <2>1. CASE p = Chooser
    <3>1. /\ pc'[Chooser] = "load" /\ seen'[Chooser] = {} /\ next'[Chooser] = 0 /\ healthy' = healthy
          /\ since' = [t \in Tunnels |-> IF healthy[t] THEN "healthy" ELSE "unhealthy"]
      BY <1>0, <1>1, <2>1 DEF Arrive, TypeOK, Chosen, HasChoice
    <3>2. \A t \in Tunnels : ~(t < 0)
      BY HealthAssumption DEF Tunnels
    <3> QED
      BY <3>1, <3>2 DEF Watching, ChoiceSound
  <2>2. CASE p # Chooser
    <3>1. pc'[Chooser] = pc[Chooser] /\ UNCHANGED <<since, healthy, rule, next, seen, choice>>
      BY <1>0, <1>1, <2>2 DEF Arrive, TypeOK
    <3> QED
      BY <1>0, <3>1, OtherStep DEF Forgets
  <2> QED
    BY <2>1, <2>2
<1>2. ASSUME NEW p \in Callers, Load(p) PROVE (Watching /\ ChoiceSound)'
  <2>1. CASE p = Chooser
    <3> DEFINE n == next[Chooser]
    <3>1. /\ pc[Chooser] = "load" /\ pc' = pc /\ UNCHANGED <<healthy, since>>
          /\ next'[Chooser] = n + 1 /\ seen'[Chooser] = Loads(n, seen[Chooser])
      BY <1>0, <1>2, <2>1 DEF Load, TypeOK
    <3>2. n \in Nat /\ Tunnels \subseteq Nat
      BY <1>0, HealthAssumption DEF TypeOK, Tunnels
    <3>3. ASSUME NEW t \in Tunnels
          PROVE  /\ since'[t] = "healthy" => healthy'[t] /\ (t < next'[Chooser] => t \in seen'[Chooser])
                 /\ since'[t] = "unhealthy" => ~healthy'[t] /\ t \notin seen'[Chooser]
      <4>1. t < n + 1 => t < n \/ t = n
        BY <3>2
      <4> HIDE DEF n
      <4> QED
        BY <1>0, <3>1, <4>1 DEF Watching, Loads, n
    <3> QED
      BY <3>1, <3>3 DEF Watching, ChoiceSound
  <2>2. CASE p # Chooser
    <3>1. UNCHANGED <<pc, since, healthy, rule, choice>> /\ next'[Chooser] = next[Chooser] /\ seen'[Chooser] = seen[Chooser]
      BY <1>0, <1>2, <2>2 DEF Load, TypeOK
    <3> QED
      BY <1>0, <3>1, OtherStep DEF Forgets
  <2> QED
    BY <2>1, <2>2
<1>3. ASSUME NEW p \in Callers, NEW t \in Tunnels, Pick(p, t) PROVE (Watching /\ ChoiceSound)'
  <2>1. CASE p = Chooser
    <3> DEFINE I == Loads(MaxTunnel, seen[Chooser])
    <3>1. /\ pc[Chooser] = "load" /\ next[Chooser] = MaxTunnel /\ t \in SelectTunnel(I)
          /\ pc'[Chooser] = "send" /\ choice'[Chooser] = t /\ UNCHANGED <<rule, since>>
      BY <1>0, <1>3, <2>1 DEF Pick, TypeOK
    <3>2. I \in SUBSET Tunnels /\ rule \in Rules /\ MaxTunnel \in Tunnels
      BY <1>0, HealthAssumption DEF TypeOK, Loads, Tunnels
    <3>3. ASSUME NEW u \in Tunnels
          PROVE  /\ since[u] = "healthy" => u \in I
                 /\ since[u] = "unhealthy" => u \notin I
      <4>1. u < MaxTunnel \/ u = MaxTunnel
        BY HealthAssumption DEF Tunnels
      <4> QED
        BY <1>0, <3>1, <3>2, <4>1 DEF Watching, Loads
    <3>4. ASSUME NEW u \in Tunnels, since[u] = "healthy"
          PROVE  /\ since[t] # "unhealthy"
                 /\ rule.strategy = "failover" => rule.weight[u] <= rule.weight[t]
                 /\ rule.weight[t] = 0 => rule.weight[u] = 0
      <4> HIDE DEF I
      <4>1. u \in I /\ t \in SelectFromIndices(I)
        BY <3>1, <3>3, <3>4 DEF SelectTunnel
      <4>2. t \in I
        BY <3>2, <4>1, SelectSound
      <4> QED
        BY <3>2, <3>3, <4>1, <4>2, SelectSound
    <3> QED
      BY <3>1, <3>4 DEF Watching, ChoiceSound
  <2>2. CASE p # Chooser
    <3>1. /\ pc'[Chooser] = pc[Chooser] /\ next'[Chooser] = next[Chooser] /\ seen'[Chooser] = seen[Chooser]
          /\ choice'[Chooser] = choice[Chooser] /\ UNCHANGED <<since, healthy, rule>>
      BY <1>0, <1>3, <2>2 DEF Pick, TypeOK
    <3> QED
      BY <1>0, <3>1, OtherStep DEF Forgets
  <2> QED
    BY <2>1, <2>2
<1>4. ASSUME NEW p \in Callers, Send(p) \/ SendData(p) \/ RecordSuccess(p) \/ RecordFailure(p)
      PROVE  (Watching /\ ChoiceSound)'
  <2>1. UNCHANGED <<rule, healthy, next, seen, choice>> /\ (since' = since \/ since' = Unknown)
    BY <1>4 DEF Send, SendData, RecordSuccess, RecordFailure
  <2>2. pc'[Chooser] \in {"load", "send"} => pc'[Chooser] = pc[Chooser]
    BY <1>0, <1>4 DEF Send, SendData, RecordSuccess, RecordFailure, TypeOK
  <2> QED
    BY <1>0, <2>1, <2>2, OtherStep DEF Forgets, Unknown
<1>5. ASSUME NEW p \in Callers, Leave(p) \/ CountSuccess(p) \/ CountFailure(p) PROVE (Watching /\ ChoiceSound)'
  <2>1. UNCHANGED <<rule, healthy, since, next, seen>>
    BY <1>5 DEF Leave, CountSuccess, CountFailure
  <2>2. /\ pc'[Chooser] \in {"load", "send"} => pc'[Chooser] = pc[Chooser]
        /\ pc'[Chooser] = "send" => choice'[Chooser] = choice[Chooser]
    BY <1>0, <1>5 DEF Leave, CountSuccess, CountFailure, Finish, TypeOK
  <2> QED
    BY <1>0, <2>1, <2>2, OtherStep DEF Forgets
<1>6. ASSUME NEW p \in Callers, Recover(p) \/ Condemn(p) PROVE (Watching /\ ChoiceSound)'
  <2>1. choice[p] \in Tunnels
    BY <1>0, <1>6 DEF Recover, Condemn, Chosen, HasChoice
  <2>2. PICK h \in BOOLEAN : Swap(choice[p], h)
    BY <1>6 DEF Recover, Condemn
  <2>3. /\ pc'[Chooser] \in {"load", "send"} => pc'[Chooser] = pc[Chooser]
        /\ pc'[Chooser] = "send" => choice'[Chooser] = choice[Chooser]
    BY <1>0, <1>6 DEF Recover, Condemn, Finish, TypeOK
  <2>4. rule' = rule /\ next'[Chooser] = next[Chooser] /\ seen'[Chooser] = seen[Chooser]
    BY <1>6 DEF Recover, Condemn
  <2>5. \A u \in Tunnels : Forgets(u)
    BY <1>0, <2>1, <2>2, SwapForgets
  <2> QED
    BY <1>0, <2>3, <2>4, <2>5, OtherStep
<1>7. ASSUME NEW t \in Tunnels, Change(t) PROVE (Watching /\ ChoiceSound)'
  BY <1>0, <1>7, OtherStep DEF Forgets, Change
<1>8. ASSUME NEW t \in Watched, NEW h \in BOOLEAN, Deliver(t, h) \/ LoseReport(t, h)
      PROVE  (Watching /\ ChoiceSound)'
  BY <1>0, <1>8, OtherStep DEF Forgets, Deliver, LoseReport
<1>9. CASE UNCHANGED vars
  BY <1>0, <1>9, OtherStep DEF Forgets, vars
<1> QED
  BY <1>1, <1>2, <1>3, <1>4, <1>5, <1>6, <1>7, <1>8, <1>9 DEF Next, Step

-------------------------------------------------------------------------------
(* The reports, action by action.                                          *)

(* What Reported says of one tunnel, and when a step leaves it alone.      *)
ReportedOf(t) ==
  ~blurred[t] =>
    \/ OnTheWay(t) = 0 /\ view[t] = healthy[t]
    \/ \E h \in BOOLEAN : OnTheWay(t) = 1 /\ reports[t][h] = 1 /\ healthy[t] = h

(* A sum of reports that is not positive has none of either kind.          *)
LEMMA SumZero == \A a, b \in Nat : ~(a + b > 0) => a = 0 /\ b = 0
  OBVIOUS

(* No reports: none of either kind.                                        *)
LEMMA SumNone == \A a, b \in Nat : a + b = 0 => ~(a > 0) /\ ~(b > 0)
  OBVIOUS

(* The first report makes one, of whichever kind.                          *)
LEMMA SumOne ==
  \A a, b : a = 0 /\ b = 0 => (a + 1) + b = 1 /\ a + (b + 1) = 1 /\ a + 1 = 1 /\ b + 1 = 1
  OBVIOUS

(* The only report is of one kind, and none is left when it is gone.       *)
LEMMA LessOne ==
  \A a, b \in Nat :
    /\ a + b = 1 /\ a > 0 => b = 0 /\ (a - 1) + b = 0
    /\ a + b = 1 /\ b > 0 => a = 0 /\ a + (b - 1) = 0
  OBVIOUS

(* The first report of a tunnel on its way, and the only one arriving.     *)
LEMMA OneLeaves ==
  ASSUME NEW f \in [BOOLEAN -> Nat], ~(f[TRUE] + f[FALSE] > 0), NEW h \in BOOLEAN,
         NEW g, g = [f EXCEPT ![h] = f[h] + 1]
  PROVE  g[TRUE] + g[FALSE] = 1 /\ g[h] = 1
<1>0. f[TRUE] = 0 /\ f[FALSE] = 0
  BY SumZero, Zenon
<1>1. CASE h = TRUE
  <2>1. g[TRUE] = f[TRUE] + 1 /\ g[FALSE] = f[FALSE]
    BY <1>1, Zenon
  <2> QED
    BY <1>0, <1>1, <2>1, SumOne, Zenon
<1>2. CASE h = FALSE
  <2>1. g[FALSE] = f[FALSE] + 1 /\ g[TRUE] = f[TRUE]
    BY <1>2, Zenon
  <2> QED
    BY <1>0, <1>2, <2>1, SumOne, Zenon
<1> QED
  BY <1>1, <1>2, Zenon

(* The first report of a tunnel on its way, and the only one arriving.     *)
LEMMA OneArrives ==
  ASSUME NEW f \in [BOOLEAN -> Nat], f[TRUE] + f[FALSE] = 1, NEW h \in BOOLEAN, f[h] > 0,
         NEW k \in BOOLEAN, f[k] = 1, NEW g, g = [f EXCEPT ![h] = f[h] - 1]
  PROVE  h = k /\ g[TRUE] + g[FALSE] = 0
<1>0. f[TRUE] \in Nat /\ f[FALSE] \in Nat
  BY Zenon
<1>3. 0 # 1
  OBVIOUS
<1>1. CASE h = TRUE
  <2>1. g[TRUE] = f[TRUE] - 1 /\ g[FALSE] = f[FALSE]
    BY <1>1, Zenon
  <2>2. f[TRUE] > 0
    BY <1>1, Zenon
  <2>3. f[FALSE] = 0 /\ (f[TRUE] - 1) + f[FALSE] = 0
    BY <1>0, <2>2, LessOne, Zenon
  <2>4. k # FALSE
    BY <1>3, <2>3, Zenon
  <2> QED
    BY <1>1, <2>1, <2>3, <2>4, Zenon
<1>2. CASE h = FALSE
  <2>1. g[FALSE] = f[FALSE] - 1 /\ g[TRUE] = f[TRUE]
    BY <1>2, Zenon
  <2>2. f[FALSE] > 0
    BY <1>2, Zenon
  <2>3. f[TRUE] = 0 /\ f[TRUE] + (f[FALSE] - 1) = 0
    BY <1>0, <2>2, LessOne, Zenon
  <2>4. k # TRUE
    BY <1>3, <2>3, Zenon
  <2> QED
    BY <1>2, <2>1, <2>3, <2>4, Zenon
<1> QED
  BY <1>1, <1>2, Zenon

(* Nothing about the reports changes.                                      *)
LEMMA ReportedSame ==
  ASSUME Reported, UNCHANGED <<healthy, reports, view, blurred>>
  PROVE  Reported'
  BY DEF Reported, OnTheWay

(* A change of health sends its report.                                    *)
LEMMA ReportedSwap ==
  ASSUME TypeOK, Reported, NEW t \in Tunnels, NEW h \in BOOLEAN, Swap(t, h)
  PROVE  Reported'
<1> USE DEF server
<1>1. CASE UNCHANGED <<healthy, since, server>>
  BY <1>1, ReportedSame
<1>2. CASE healthy' = [healthy EXCEPT ![t] = h] /\ Notify(t, h)
  <2>1. CASE t \notin Watched
    <3>1. UNCHANGED <<reports, view, blurred>> /\ \A u \in Watched : healthy'[u] = healthy[u]
      BY <1>2, <2>1, HealthAssumption DEF Notify, TypeOK
    <3> QED
      BY <3>1 DEF Reported, OnTheWay
  <2>2. CASE t \in Watched
    <3>1. /\ reports' = [reports EXCEPT ![t] = [reports[t] EXCEPT ![h] = reports[t][h] + 1]]
          /\ blurred' = [blurred EXCEPT ![t] = OnTheWay(t) > 0] /\ view' = view
      BY <1>2, <2>2 DEF Notify
    <3>2. ASSUME NEW u \in Watched, u # t PROVE ReportedOf(u)'
      <4>1. reports'[u] = reports[u] /\ blurred'[u] = blurred[u] /\ healthy'[u] = healthy[u]
        BY <1>2, <3>1, <3>2, HealthAssumption DEF TypeOK
      <4> QED
        BY <3>1, <4>1 DEF Reported, ReportedOf, OnTheWay
    <3>3. ASSUME ~blurred'[t]
          PROVE  OnTheWay(t)' = 1 /\ reports'[t][h] = 1 /\ healthy'[t] = h
      <4>1. reports[t] \in [BOOLEAN -> Nat]
        BY <2>2, HealthAssumption DEF TypeOK
      <4>2. blurred'[t] = (OnTheWay(t) > 0)
        BY <2>2, <3>1, Zenon DEF TypeOK
      <4>3. ~(reports[t][TRUE] + reports[t][FALSE] > 0)
        BY <3>3, <4>2, Zenon DEF OnTheWay
      <4>4. reports'[t] = [reports[t] EXCEPT ![h] = reports[t][h] + 1]
        BY <2>2, <3>1 DEF TypeOK
      <4>5. healthy'[t] = h
        BY <1>2, Zenon DEF TypeOK
      <4> DEFINE g == [reports[t] EXCEPT ![h] = reports[t][h] + 1]
      <4>6. g[TRUE] + g[FALSE] = 1 /\ g[h] = 1
        BY <4>1, <4>3, OneLeaves
      <4> QED
        BY <4>4, <4>5, <4>6, Zenon DEF OnTheWay
    <3>4. ReportedOf(t)'
      BY <3>3 DEF ReportedOf
    <3> QED
      BY <3>2, <3>4 DEF Reported, ReportedOf
  <2> QED
    BY <2>1, <2>2
<1> QED
  BY <1>1, <1>2 DEF Swap

(* A report arrives at the server, or is lost.                             *)
LEMMA ReportedArrival ==
  ASSUME TypeOK, Reported, NEW t \in Watched, NEW h \in BOOLEAN, Deliver(t, h) \/ LoseReport(t, h)
  PROVE  Reported'
<1>1. /\ reports' = [reports EXCEPT ![t] = [reports[t] EXCEPT ![h] = reports[t][h] - 1]]
      /\ reports[t][h] > 0 /\ healthy' = healthy
  BY DEF Deliver, LoseReport, Arrived
<1>2. ASSUME NEW u \in Watched, u # t PROVE ReportedOf(u)'
  <2>1. reports'[u] = reports[u] /\ blurred'[u] = blurred[u]
    BY <1>1, <1>2 DEF Deliver, LoseReport, TypeOK
  <2>2. view'[u] = view[u]
    BY <1>2 DEF Deliver, LoseReport, TypeOK
  <2> QED
    BY <1>1, <2>1, <2>2 DEF Reported, ReportedOf, OnTheWay
<1>3. ReportedOf(t)'
  <2> SUFFICES ASSUME ~blurred'[t] PROVE (OnTheWay(t) = 0 /\ view[t] = healthy[t])'
    BY DEF ReportedOf
  <2> DEFINE g == [reports[t] EXCEPT ![h] = reports[t][h] - 1]
  <2>1. ~LoseReport(t, h) /\ ~blurred[t]
    BY Zenon DEF LoseReport, Deliver, TypeOK
  <2>2. view'[t] = h
    BY <2>1, Zenon DEF Deliver, TypeOK
  <2>3. reports[t] \in [BOOLEAN -> Nat]
    BY HealthAssumption DEF TypeOK
  <2>4. ~(OnTheWay(t) = 0)
    <3>1. reports[t][TRUE] \in Nat /\ reports[t][FALSE] \in Nat
      BY <2>3, Zenon
    <3>2. reports[t][h] > 0
      BY <1>1
    <3>3. h = TRUE \/ h = FALSE
      BY Zenon
    <3>4. reports[t][TRUE] > 0 \/ reports[t][FALSE] > 0
      BY <3>2, <3>3, Zenon
    <3> QED
      BY <3>1, <3>4, SumNone, Zenon DEF OnTheWay
  <2>5. PICK k \in BOOLEAN : OnTheWay(t) = 1 /\ reports[t][k] = 1 /\ healthy[t] = k
    BY <2>1, <2>4, Zenon DEF Reported
  <2>6. h = k /\ g[TRUE] + g[FALSE] = 0
    BY <1>1, <2>3, <2>5, OneArrives DEF OnTheWay
  <2>7. reports'[t] = g
    BY <1>1 DEF TypeOK
  <2> QED
    BY <1>1, <2>2, <2>5, <2>6, <2>7, Zenon DEF OnTheWay
<1> QED
  BY <1>2, <1>3 DEF Reported, ReportedOf

(* The reports, action by action.                                          *)
LEMMA ReportedStep == Inv /\ [Next]_vars => Reported'
<1> SUFFICES ASSUME Inv, [Next]_vars PROVE Reported'
  OBVIOUS
<1> USE DEF server
<1>0. TypeOK /\ Chosen /\ Reported
  BY DEF Inv
<1>1. ASSUME NEW p \in Callers, \/ Arrive(p) \/ Load(p) \/ Leave(p) \/ Send(p) \/ SendData(p)
                               \/ RecordSuccess(p) \/ RecordFailure(p)
      PROVE  Reported'
  BY <1>0, <1>1, ReportedSame DEF Arrive, Load, Leave, Send, SendData, RecordSuccess, RecordFailure
<1>2. ASSUME NEW p \in Callers, NEW t \in Tunnels, Pick(p, t) PROVE Reported'
  BY <1>0, <1>2, ReportedSame DEF Pick
<1>3. ASSUME NEW p \in Callers, CountSuccess(p) \/ CountFailure(p) PROVE Reported'
  BY <1>0, <1>3, ReportedSame DEF CountSuccess, CountFailure
<1>4. ASSUME NEW p \in Callers, Recover(p) \/ Condemn(p) PROVE Reported'
  <2>1. choice[p] \in Tunnels
    BY <1>0, <1>4 DEF Recover, Condemn, Chosen, HasChoice
  <2>2. PICK h \in BOOLEAN : Swap(choice[p], h)
    BY <1>4 DEF Recover, Condemn
  <2> QED
    BY <1>0, <2>1, <2>2, ReportedSwap
<1>5. ASSUME NEW t \in Tunnels, Change(t) PROVE Reported'
  BY <1>0, <1>5, ReportedSame DEF Change
<1>6. ASSUME NEW t \in Watched, NEW h \in BOOLEAN, Deliver(t, h) \/ LoseReport(t, h) PROVE Reported'
  BY <1>0, <1>6, ReportedArrival
<1>7. CASE UNCHANGED vars
  BY <1>0, <1>7, ReportedSame DEF vars
<1> QED
  BY <1>1, <1>2, <1>3, <1>4, <1>5, <1>6, <1>7 DEF Next, Step

-------------------------------------------------------------------------------
(* The inductive invariant holds in every state.                           *)
LEMMA Invariant == Spec => []Inv
<1>1. Inv /\ [Next]_vars => Inv'
  <2> SUFFICES ASSUME Inv, [Next]_vars PROVE Inv'
    OBVIOUS
  <2>1. TypeOK /\ Chosen
    BY DEF Inv
  <2> QED
    BY <2>1, TypeStep, ChosenStep, ChoiceStep, ReportedStep DEF Inv
<1> QED
  BY <1>1, InitInv, PTL DEF Spec

(* Every variable keeps its type: a count stays below its threshold, a     *)
(* report that arrives was on its way, and a tunnel is chosen by an index  *)
(* there is (entry.go selectTunnel).                                       *)
THEOREM TypeCorrect == Spec => []TypeOK
  BY Invariant, PTL DEF Inv

(* selectTunnel, which loads one health after the other, takes no tunnel   *)
(* that was unhealthy all the while when another was healthy all the       *)
(* while, and no backup nor, with failover, one of less weight then.       *)
THEOREM ChoiceIsSound == Spec => []ChoiceSound
  BY Invariant, PTL DEF Inv

(* The server knows the health of a tunnel whose last report went alone    *)
(* and arrived (health_checker.go notifyHealthChange).                     *)
THEOREM ServerIsRight == Spec => []ServerKnows
<1>1. Reported => ServerKnows
  <2> SUFFICES ASSUME Reported, NEW t \in Watched, OnTheWay(t) = 0, ~blurred[t]
               PROVE  view[t] = healthy[t]
    BY DEF ServerKnows
  <2>1. OnTheWay(t) # 1
    OBVIOUS
  <2> QED
    BY <2>1, Zenon DEF Reported
<1> QED
  BY <1>1, Invariant, PTL DEF Inv
=============================================================================
