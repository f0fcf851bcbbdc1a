----------------------- MODULE CircuitBreaker_proofs -----------------------
(***************************************************************************)
(* Theorems about the circuit breaker, for any number of callers and any   *)
(* thresholds.  The inductive invariant is SlotsHeld: RecoveryPossible     *)
(* alone says nothing of the states in which callers are at work.          *)
(***************************************************************************)
EXTENDS CircuitBreaker, FiniteSetTheorems, TLAPS

(* Type correctness of every reachable state of the breaker. *)
THEOREM TypeCorrect == Spec => []TypeOK
<1>1. Init => TypeOK
  BY BreakerAssumption DEF Init, TypeOK, States, AllowPCs, MinBackoff
<1>2. TypeOK /\ [Next]_vars => TypeOK'
  <2> SUFFICES ASSUME TypeOK, [Next]_vars PROVE TypeOK'
    OBVIOUS
  <2> USE BreakerAssumption DEF TypeOK, States, AllowPCs, SuccessPCs, FailurePCs, Goto
  <2>1. CASE Tick
    BY <2>1 DEF Tick
  <2>2. CASE ChangeTarget
    BY <2>2 DEF ChangeTarget
  <2>3. ASSUME NEW c \in Callers, Allow(c) PROVE TypeOK'
    <3>1. CASE LoadAllow(c)
      BY <3>1 DEF LoadAllow
    <3>2. CASE Expire(c)
      BY <3>2 DEF Expire
    <3>3. CASE Probe(c)
      BY <3>3 DEF Probe
    <3>4. CASE Reset(c)
      BY <3>4 DEF Reset
    <3>5. CASE Enter(c)
      BY <3>5 DEF Enter
    <3>6. CASE Undo(c)
      BY <3>6 DEF Undo
    <3> QED
      BY <2>3, <3>1, <3>2, <3>3, <3>4, <3>5, <3>6 DEF Allow
  <2>4. ASSUME NEW c \in Callers, Request(c) PROVE TypeOK'
    BY <2>4 DEF Request, Dial, Leave, FailLate
  <2>5. ASSUME NEW c \in Callers, Release(c) PROVE TypeOK'
    BY <2>5 DEF Release
  <2>6. ASSUME NEW c \in Callers, RecordSuccess(c) PROVE TypeOK'
    <3>1. CASE LoadSuccess(c)
      BY <3>1 DEF LoadSuccess
    <3>2. CASE Close(c)
      BY <3>2 DEF Close
    <3>3. CASE Clear(c)
      BY <3>3 DEF Clear
    <3>4. CASE Relax(c)
      BY <3>4 DEF Relax, MinBackoff
    <3> QED
      BY <2>6, <3>1, <3>2, <3>3, <3>4 DEF RecordSuccess
  <2>7. ASSUME NEW c \in Callers, RecordFailure(c) PROVE TypeOK'
    <3>1. CASE StampFailure(c)
      BY <3>1 DEF StampFailure
    <3>2. CASE LoadFailure(c)
      BY <3>2 DEF LoadFailure
    <3>3. CASE CountFailure(c)
      BY <3>3 DEF CountFailure, Least
    <3>4. CASE Trip(c)
      BY <3>4 DEF Trip
    <3>5. CASE Double(c)
      BY <3>5 DEF Double, Least
    <3> QED
      BY <2>7, <3>1, <3>2, <3>3, <3>4, <3>5 DEF RecordFailure
  <2>8. CASE UNCHANGED vars
    BY <2>8 DEF vars
  <2> QED
    BY <2>1, <2>2, <2>3, <2>4, <2>5, <2>6, <2>7, <2>8 DEF Next, Caller
<1> QED
  BY <1>1, <1>2, PTL DEF Spec

-----------------------------------------------------------------------------

(* The slot holders are finitely many, so their number is a natural.       *)
LEMMA HoldersFinite == IsFiniteSet(SlotHolders) /\ Cardinality(SlotHolders) \in Nat
<1>1. SlotHolders \subseteq Callers
  BY DEF SlotHolders
<1> QED
  BY <1>1, BreakerAssumption, FS_Subset, FS_CardinalityType

(* A step after which one more caller holds a slot raises the number of    *)
(* holders by one.                                                         *)
LEMMA HolderEnters ==
  ASSUME NEW c, c \notin SlotHolders, SlotHolders' = SlotHolders \cup {c}
  PROVE  Cardinality(SlotHolders') = Cardinality(SlotHolders) + 1
  BY HoldersFinite, FS_AddElement

(* A step by which one holder gives up its slot lowers it by one.          *)
LEMMA HolderLeaves ==
  ASSUME NEW c, c \in SlotHolders, SlotHolders' = SlotHolders \ {c}
  PROVE  Cardinality(SlotHolders') = Cardinality(SlotHolders) - 1
  BY HoldersFinite, FS_RemoveElement

(* A step that takes no slot away leaves at least as many holders.         *)
LEMMA HoldersKept ==
  ASSUME SlotHolders \subseteq SlotHolders', IsFiniteSet(SlotHolders')
  PROVE  Cardinality(SlotHolders) <= Cardinality(SlotHolders')
  BY FS_Subset

(* SawNotClosed is inductive. *)
LEMMA SawNotClosedStep == ASSUME TypeOK, SawNotClosed, [Next]_vars PROVE SawNotClosed'
<1> USE DEF Goto, SawNotClosed, TypeOK
<1>1. CASE Tick \/ ChangeTarget \/ UNCHANGED vars
  BY <1>1 DEF Tick, ChangeTarget, vars
<1>2. ASSUME NEW c \in Callers, Allow(c) PROVE SawNotClosed'
  BY <1>2 DEF Allow, LoadAllow, Expire, Probe, Reset, Enter, Undo
<1>3. ASSUME NEW c \in Callers, Request(c) \/ Release(c) PROVE SawNotClosed'
  BY <1>3 DEF Request, Dial, Leave, FailLate, Release
<1>4. ASSUME NEW c \in Callers, RecordSuccess(c) PROVE SawNotClosed'
  BY <1>4 DEF RecordSuccess, LoadSuccess, Close, Clear, Relax
<1>5. ASSUME NEW c \in Callers, RecordFailure(c) PROVE SawNotClosed'
  BY <1>5 DEF RecordFailure, StampFailure, LoadFailure, CountFailure, Trip, Double
<1> QED
  BY <1>1, <1>2, <1>3, <1>4, <1>5 DEF Next, Caller

(* The step cases of the invariant: what each operation of a caller does   *)
(* to the count and to the set of holders.                                 *)
LEMMA SlotsHeldStep ==
  ASSUME ~Leaky, TypeOK, TypeOK', SawNotClosed, SlotsHeld, [Next]_vars
  PROVE  SlotsHeld'
<1> USE DEF Goto
<1>0. IsFiniteSet(SlotHolders')
  <2>1. SlotHolders' \subseteq Callers
    BY DEF SlotHolders
  <2> QED
    BY <2>1, BreakerAssumption, FS_Subset
<1>a. ASSUME SlotHolders \subseteq SlotHolders', halfOpenCount' <= halfOpenCount,
             state' = "half-open" => state = "half-open",
             \A c \in Callers : pc[c] = "reset" => pc'[c] = "reset"
      PROVE  SlotsHeld'
  <2>1. Cardinality(SlotHolders) <= Cardinality(SlotHolders')
    BY <1>0, <1>a, HoldersKept
  <2>2. Cardinality(SlotHolders') \in Nat /\ Cardinality(SlotHolders) \in Nat
    BY <1>0, HoldersFinite, FS_CardinalityType
  <2> QED
    BY <1>a, <2>1, <2>2 DEF SlotsHeld, TypeOK
<1>1. CASE Tick \/ ChangeTarget \/ UNCHANGED vars
  <2>1. UNCHANGED <<state, halfOpenCount, pc, seen>>
    BY <1>1 DEF Tick, ChangeTarget, vars
  <2>2. SlotHolders' = SlotHolders
    BY <2>1 DEF SlotHolders
  <2> QED
    BY <2>1, <2>2, <1>a DEF TypeOK
<1>2. ASSUME NEW c \in Callers, LoadAllow(c) PROVE SlotsHeld'
  <2>1. SlotHolders \subseteq SlotHolders'
    BY <1>2 DEF LoadAllow, SlotHolders, TypeOK
  <2> QED
    BY <2>1, <1>2, <1>a DEF LoadAllow, TypeOK
<1>3. ASSUME NEW c \in Callers, Expire(c) PROVE SlotsHeld'
  <2>1. SlotHolders \subseteq SlotHolders'
    BY <1>3 DEF Expire, SlotHolders, TypeOK
  <2> QED
    BY <2>1, <1>3, <1>a DEF Expire, TypeOK
<1>4. ASSUME NEW c \in Callers, Probe(c) PROVE SlotsHeld'
  <2>1. CASE state = seen[c]
    <3>1. pc'[c] = "reset"
      BY <1>4, <2>1 DEF Probe, TypeOK
    <3> QED
      BY <3>1 DEF SlotsHeld
  <2>2. CASE state # seen[c]
    <3>1. SlotHolders \subseteq SlotHolders'
      BY <1>4, <2>2 DEF Probe, SlotHolders, TypeOK
    <3> QED
      BY <3>1, <1>4, <2>2, <1>a DEF Probe, TypeOK
  <2> QED
    BY <2>1, <2>2
<1>5. ASSUME NEW c \in Callers, Reset(c) PROVE SlotsHeld'
  <2>1. halfOpenCount' = 0 /\ Cardinality(SlotHolders') \in Nat
    BY <1>5, <1>0, FS_CardinalityType DEF Reset
  <2> QED
    BY <2>1 DEF SlotsHeld
<1>6. ASSUME NEW c \in Callers, Enter(c) PROVE SlotsHeld'
  <2>1. c \notin SlotHolders /\ SlotHolders' = SlotHolders \cup {c}
    BY <1>6 DEF Enter, SlotHolders, SawNotClosed, TypeOK
  <2>2. Cardinality(SlotHolders') = Cardinality(SlotHolders) + 1
    BY <2>1, HolderEnters
  <2>3. halfOpenCount' = halfOpenCount + 1 /\ state' = state
    BY <1>6 DEF Enter
  <2>4. (\E d \in Callers : pc[d] = "reset") => (\E d \in Callers : pc'[d] = "reset")
    BY <1>6 DEF Enter, TypeOK
  <2> QED
    BY <2>2, <2>3, <2>4, HoldersFinite DEF SlotsHeld, TypeOK
<1>7. ASSUME NEW c \in Callers, Undo(c) \/ Release(c) PROVE SlotsHeld'
  <2>1. c \in SlotHolders /\ SlotHolders' = SlotHolders \ {c}
    BY <1>7 DEF Undo, Release, SlotHolders, TypeOK
  <2>2. Cardinality(SlotHolders') = Cardinality(SlotHolders) - 1
    BY <2>1, HolderLeaves
  <2>3. halfOpenCount' = halfOpenCount - 1 /\ state' = state
    BY <1>7 DEF Undo, Release
  <2>4. (\E d \in Callers : pc[d] = "reset") => (\E d \in Callers : pc'[d] = "reset")
    BY <1>7 DEF Undo, Release, TypeOK
  <2> QED
    BY <2>2, <2>3, <2>4, HoldersFinite DEF SlotsHeld, TypeOK
<1>8. ASSUME NEW c \in Callers, Request(c) PROVE SlotsHeld'
  <2>1. SlotHolders \subseteq SlotHolders'
    BY <1>8 DEF Request, Dial, Leave, FailLate, SlotHolders, TypeOK
  <2> QED
    BY <2>1, <1>8, <1>a DEF Request, Dial, Leave, FailLate, TypeOK
<1>9. ASSUME NEW c \in Callers, LoadSuccess(c) \/ LoadFailure(c) PROVE SlotsHeld'
  <2>1. CASE state = "half-open"
    <3>1. SlotHolders \subseteq SlotHolders'
      BY <1>9, <2>1 DEF LoadSuccess, LoadFailure, SlotHolders, TypeOK
    <3> QED
      BY <3>1, <1>9, <1>a DEF LoadSuccess, LoadFailure, TypeOK
  <2>2. CASE state # "half-open"
    BY <1>9, <2>2 DEF LoadSuccess, LoadFailure, SlotsHeld
  <2> QED
    BY <2>1, <2>2
<1>10. ASSUME NEW c \in Callers, Close(c) \/ Clear(c) \/ Relax(c) PROVE SlotsHeld'
  <2>1. SlotHolders \subseteq SlotHolders'
    BY <1>10 DEF Close, Clear, Relax, SlotHolders, TypeOK
  <2> QED
    BY <2>1, <1>10, <1>a DEF Close, Clear, Relax, TypeOK
<1>11. ASSUME NEW c \in Callers, StampFailure(c) \/ CountFailure(c) PROVE SlotsHeld'
  <2>1. SlotHolders \subseteq SlotHolders'
    BY <1>11 DEF StampFailure, CountFailure, SlotHolders, TypeOK
  <2> QED
    BY <2>1, <1>11, <1>a DEF StampFailure, CountFailure, TypeOK
<1>12. ASSUME NEW c \in Callers, Trip(c) \/ Double(c) PROVE SlotsHeld'
  <2>1. SlotHolders \subseteq SlotHolders'
    BY <1>12 DEF Trip, Double, SlotHolders, TypeOK
  <2>2. state' = "half-open" => state = "half-open"
    BY <1>12 DEF Trip, Double, TypeOK, States
  <2> QED
    BY <2>1, <2>2, <1>12, <1>a DEF Trip, Double, TypeOK
<1> QED
  BY <1>1, <1>2, <1>3, <1>4, <1>5, <1>6, <1>7, <1>8, <1>9, <1>10, <1>11, <1>12
  DEF Next, Caller, Allow, RecordSuccess, RecordFailure

(* SlotsHeld is an invariant when every caller with a slot records:        *)
(* the increments and decrements of halfOpenCount by Allow and Record*     *)
(* never leave it above the number of callers that will lower it.          *)
THEOREM SlotsAlwaysHeld == ASSUME ~Leaky PROVE Spec => []SlotsHeld
<1>1. Init => SawNotClosed /\ SlotsHeld
  BY DEF Init, SawNotClosed, SlotsHeld
<1>2. TypeOK /\ TypeOK' /\ SawNotClosed /\ SlotsHeld /\ [Next]_vars => SawNotClosed' /\ SlotsHeld'
  BY SawNotClosedStep, SlotsHeldStep
<1> QED
  BY <1>1, <1>2, TypeCorrect, PTL DEF Spec

(* An idle half-open breaker admits the next request, for any number of    *)
(* callers, thresholds and maximum backoff: recovery is never blocked by a *)
(* slot that nobody holds.                                                 *)
THEOREM RecoveryAlwaysPossible == ASSUME ~Leaky PROVE Spec => []RecoveryPossible
<1>1. TypeOK /\ SlotsHeld => RecoveryPossible
  <2> SUFFICES ASSUME TypeOK, SlotsHeld, \A c \in Callers : pc[c] = "idle", state = "half-open"
               PROVE  halfOpenCount < HalfOpenMax
    BY DEF RecoveryPossible
  <2>1. SlotHolders = {}
    BY DEF SlotHolders
  <2>2. Cardinality(SlotHolders) = 0
    BY <2>1, FS_EmptySet
  <2> QED
    BY <2>2, BreakerAssumption DEF SlotsHeld, TypeOK
<1> QED
  BY <1>1, TypeCorrect, SlotsAlwaysHeld, PTL
=============================================================================
