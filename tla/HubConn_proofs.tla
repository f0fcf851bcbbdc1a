--------------------------- MODULE HubConn_proofs ---------------------------
(* Proofs about HubConn and ConfigFile. *)
EXTENDS HubConn, SequenceTheorems, TLAPS

(* SaveServerURL keeps the types of the file and of its callers' locals.   *)
LEMMA RewrittenType == ASSUME NEW f \in Seq(Lines) PROVE Rewritten(f) \in Seq(Lines)
<1> DEFINE g == [i \in DOMAIN f |-> IF IsUrl(f[i]) THEN "new url" ELSE f[i]]
<1>1. g \in Seq(Lines)
  <2>1. \A i \in 1..Len(f) : f[i] \in Lines
    OBVIOUS
  <2>2. DOMAIN f = 1..Len(f) /\ Len(f) \in Nat
    OBVIOUS
  <2>3. "new url" \in Lines
    BY DEF Lines
  <2>4. g \in [1..Len(f) -> Lines]
    BY <2>1, <2>2, <2>3
  <2> QED
    BY <2>2, <2>4, SeqDef
<1>2. Append(f, "new url") \in Seq(Lines)
  <2>1. "new url" \in Lines
    BY DEF Lines
  <2> QED
    BY <2>1, AppendProperties
<1> QED
  BY <1>1, <1>2 DEF Rewritten

(* Writing a line leaves a file of lines, holes included.                  *)
LEMMA WriteAtType ==
  ASSUME NEW f \in Seq(Lines), NEW n \in Nat, NEW line \in Lines
  PROVE  WriteAt(f, n, line) \in Seq(Lines)
<1> DEFINE m == IF n > Len(f) THEN n ELSE Len(f)
<1>1. m \in Nat
  OBVIOUS
<1>2. \A i \in 1..m : (IF i = n THEN line ELSE IF i <= Len(f) THEN f[i] ELSE "hole") \in Lines
  <2> SUFFICES ASSUME NEW i \in 1..m
               PROVE  (IF i = n THEN line ELSE IF i <= Len(f) THEN f[i] ELSE "hole") \in Lines
    OBVIOUS
  <2>1. i <= Len(f) => f[i] \in Lines
    BY ElementOfSeq, LenProperties
  <2>2. "hole" \in Lines
    BY DEF Lines
  <2> QED
    BY <2>1, <2>2
<1>3. WriteAt(f, n, line) \in [1..m -> Lines]
  BY <1>2 DEF WriteAt
<1> QED
  BY <1>1, <1>3, SeqDef

(* What SaveServerURL does to the types of the file, step by step.         *)
LEMMA SaveType ==
  ASSUME FileTypeOK, NEW s \in Savers, Save(s) \/ SaveReturns(s) \/ CallSave(s)
  PROVE  FileTypeOK'
<1> USE DEF FileTypeOK, Steps
<1>1. CASE ReadFile(s)
  BY <1>1, RewrittenType DEF ReadFile
<1>2. CASE Truncate(s)
  BY <1>2 DEF Truncate
<1>3. CASE WriteLine(s)
  <2>1. copy[s][written[s] + 1] \in Lines /\ written[s] + 1 \in Nat
    BY <1>3 DEF WriteLine
  <2>2. file' \in Seq(Lines)
    BY <1>3, <2>1, WriteAtType DEF WriteLine
  <2> QED
    BY <1>3, <2>2 DEF WriteLine
<1>4. CASE SaveReturns(s) \/ CallSave(s)
  BY <1>4, EmptySeq DEF SaveReturns, CallSave
<1> QED
  BY <1>1, <1>2, <1>3, <1>4 DEF Save

(* Every variable keeps its type; the Events channel never holds more than *)
(* its capacity.                                                           *)
LEMMA DieType ==
  ASSUME TypeOK, NEW how \in Endings, Die(how)
  PROVE  TypeOK'
<1>1. <<>> \in Seq(Messages) /\ <<>> \in Seq(Lines) /\ Len(<<>>) = 0
  BY EmptySeq
<1>2. FileTypeOK'
  BY <1>1 DEF TypeOK, FileTypeOK, Die, ForgetSavers, Steps
<1>3. queue' \in [Conns -> Seq(Messages)] /\ \A c \in Conns : Len(queue'[c]) <= Capacity
  BY <1>1, HubAssumption DEF Die
<1> QED
  BY <1>2, <1>3 DEF TypeOK, Die, HubPCs, env

(* Types, action by action.                                                *)
LEMMA TypeStep == ASSUME TypeOK, [Next]_vars PROVE TypeOK'
<1> USE HubAssumption DEF HubGoto, RunGoto, ReadGoto, NextRead
<1>0. ASSUME UNCHANGED fileVars PROVE FileTypeOK'
  BY <1>0 DEF TypeOK, FileTypeOK, fileVars
<1>1. CASE UNCHANGED vars
  BY <1>1, <1>0 DEF TypeOK, vars, env, loop, conns
<1>2. CASE Hub
  <2>1. CASE Dial
    BY <2>1, <1>0 DEF Dial, TypeOK, HubPCs, env, loop, conns
  <2>2. CASE DialFails \/ LeaveLoop
    BY <2>2, <1>0 DEF DialFails, LeaveLoop, TypeOK, HubPCs, env, loop, conns
  <2>3. CASE TakeEvent
    <3>1. cur \in Conns /\ queue[cur] \in Seq(Messages) /\ queue[cur] # <<>>
      BY <2>3 DEF TakeEvent, TypeOK
    <3>2. Tail(queue[cur]) \in Seq(Messages) /\ Len(Tail(queue[cur])) <= Capacity
      BY <3>1 DEF TypeOK
    <3>3. FileTypeOK'
      BY <2>3, <1>0, SaveType DEF TakeEvent, TypeOK
    <3> QED
      BY <2>3, <3>1, <3>2, <3>3 DEF TakeEvent, TypeOK, HubPCs, env
  <2>4. CASE HandleEvent
    <3>1. FileTypeOK'
      BY <2>4, <1>0, SaveType DEF HandleEvent, TypeOK
    <3> QED
      BY <2>4, <3>1 DEF HandleEvent, TypeOK, HubPCs, env, conns
  <2>5. CASE HubClose
    <3>1. CASE hub = "leave"
      BY <2>5, <3>1, <1>0 DEF HubClose, MarkClosed, TypeOK, HubPCs, env
    <3>2. CASE hub = "events" /\ cur \notin shut
      BY <2>5, <3>2, <1>0 DEF HubClose, CloseEvents, TypeOK, HubPCs, env
    <3>3. CASE hub = "events" /\ cur \in shut
      BY <2>5, <3>3, DieType DEF HubClose, CloseEvents, Endings
    <3>4. CASE hub = "socket"
      BY <2>5, <3>4, <1>0 DEF HubClose, CloseSocket, TypeOK, HubPCs, env
    <3> QED
      BY <2>5, <3>1, <3>2, <3>3, <3>4 DEF HubClose
  <2>6. CASE Backoff
    BY <2>6, <1>0 DEF Backoff, TypeOK, HubPCs, env
  <2> QED
    BY <1>2, <2>1, <2>2, <2>3, <2>4, <2>5, <2>6 DEF Hub
<1>3. CASE StopProcess
  BY <1>3, DieType DEF StopProcess, Endings
<1>4. CASE Restart
  BY <1>4, <1>0 DEF Restart, TypeOK, env, loop, conns
<1>5. CASE Network \/ Cancel
  BY <1>5, <1>0 DEF Network, Cancel, TypeOK, env, loop, conns
<1>6. ASSUME NEW c \in Conns, LoseLink(c) \/ WriteFails(c) \/ WriterEnds(c) \/ ReadFails(c)
      PROVE  TypeOK'
  BY <1>6, <1>0 DEF LoseLink, WriteFails, WriterEnds, ReadFails, TypeOK, env, loop
<1>7. ASSUME NEW c \in Conns, Receive(c) PROVE TypeOK'
  BY <1>7, <1>0 DEF Receive, TypeOK, loop
<1>8. ASSUME NEW c \in Conns, RunClose(c) PROVE TypeOK'
  <2>1. CASE runner[c] = "wait"
    BY <1>8, <2>1, <1>0 DEF RunClose, MarkClosed, TypeOK, env, loop
  <2>2. CASE runner[c] = "events" /\ c \notin shut
    <3>1. shut' = shut \cup {c} /\ runner' = [runner EXCEPT ![c] = "socket"]
      BY <1>8, <2>2 DEF RunClose, CloseEvents
    <3>2. UNCHANGED <<env, process, cancelled, hub, cur, link, closed, queue, reader, writer, msg,
                      fileVars>>
      BY <1>8, <2>2 DEF RunClose, CloseEvents
    <3> QED
      BY <3>1, <3>2, <1>0 DEF TypeOK, env
  <2>3. CASE runner[c] = "events" /\ c \in shut
    BY <1>8, <2>3, DieType DEF RunClose, CloseEvents, Endings
  <2>4. CASE runner[c] = "socket"
    <3>1. link' = [link EXCEPT ![c] = "down"] /\ runner' = [runner EXCEPT ![c] = "done"]
      BY <1>8, <2>4 DEF RunClose, CloseSocket
    <3>2. UNCHANGED <<env, process, cancelled, loop, closed, shut, queue, reader, writer, msg,
                      fileVars>>
      BY <1>8, <2>4 DEF RunClose
    <3> QED
      BY <3>1, <3>2, <1>0 DEF TypeOK, env, loop
  <2> QED
    BY <1>8, <2>1, <2>2, <2>3, <2>4 DEF RunClose
<1>9. ASSUME NEW c \in Conns, Dispatch(c) PROVE TypeOK'
  <2>1. FileTypeOK'
    BY <1>9, <1>0, SaveType DEF Dispatch, AfterDispatch, TypeOK
  <2>2. msg[c] \in Messages
    BY <1>9 DEF Dispatch, AfterDispatch, Messages
  <2>3. queue' \in [Conns -> Seq(Messages)] /\ \A d \in Conns : Len(queue'[d]) <= Capacity
    BY <1>9, <2>2 DEF Dispatch, TypeOK
  <2>4. msg' = [msg EXCEPT ![c] = None] /\ reader' \in {[reader EXCEPT ![c] = l] : l \in {"off", "read", "save"}}
    BY <1>9 DEF Dispatch, AfterDispatch
  <2>5. UNCHANGED <<env, process, cancelled, loop, link, closed, shut, runner, writer>>
    BY <1>9 DEF Dispatch
  <2> QED
    BY <2>1, <2>3, <2>4, <2>5 DEF TypeOK, env, loop
<1>10. ASSUME NEW c \in Conns, DispatchPanics(c) PROVE TypeOK'
  BY <1>10, DieType DEF DispatchPanics, Endings
<1>11. ASSUME NEW c \in Conns, HandleCommand(c) PROVE TypeOK'
  <2>1. FileTypeOK'
    BY <1>11, <1>0, SaveType DEF HandleCommand, TypeOK
  <2> QED
    BY <1>11, <2>1 DEF HandleCommand, TypeOK, env, loop
<1>12. ASSUME NEW s \in Savers, Saver(s) PROVE TypeOK'
  <2>1. CASE SaveStep(s)
    <3>1. FileTypeOK'
      BY <2>1, SaveType DEF SaveStep, TypeOK
    <3> QED
      BY <2>1, <3>1 DEF SaveStep, TypeOK, env, loop, conns
  <2>2. CASE Exit(s)
    BY <2>2, DieType DEF Exit, Endings
  <2> QED
    BY <1>12, <2>1, <2>2 DEF Saver
<1> QED
  BY <1>1, <1>2, <1>3, <1>4, <1>5, <1>6, <1>7, <1>8, <1>9, <1>10, <1>11, <1>12
  DEF Next, Environment, Reader

(* TypeOK holds for any connections, capacity and file: the Events channel *)
(* never holds more than its capacity, whoever fills it.                   *)
THEOREM TypeCorrect == Spec => []TypeOK
<1>1. Init => TypeOK
  <2> SUFFICES ASSUME Init PROVE TypeOK
    OBVIOUS
  <2>1. <<>> \in Seq(Messages) /\ <<>> \in Seq(Lines) /\ Len(<<>>) = 0
    BY EmptySeq
  <2>2. Original \in Seq(Lines)
    BY FileAssumption, SeqMonotonic
  <2>3. FileTypeOK
    BY <2>1, <2>2 DEF Init, FileInit, FileTypeOK, Steps
  <2>4. queue \in [Conns -> Seq(Messages)] /\ \A c \in Conns : Len(queue[c]) <= Capacity
    BY <2>1, HubAssumption DEF Init
  <2>5. /\ link \in [Conns -> {"none", "up", "down"}]
        /\ runner \in [Conns -> {"off", "wait", "events", "socket", "done"}]
        /\ reader \in [Conns -> {"off", "read", "dispatch", "handle", "save"}]
        /\ writer \in [Conns -> {"off", "on"}] /\ msg \in [Conns -> Messages \cup {None}]
    BY DEF Init
  <2>6. changes \in 0..MaxChanges
    BY HubAssumption DEF Init
  <2>7. reachable \in BOOLEAN /\ cancelled \in BOOLEAN
    BY DEF Init
  <2> QED
    BY <2>3, <2>4, <2>5, <2>6, <2>7 DEF Init, TypeOK, HubPCs
<1>2. TypeOK /\ [Next]_vars => TypeOK'
  BY TypeStep
<1> QED
  BY <1>1, <1>2, PTL DEF Spec

-----------------------------------------------------------------------------
(* One closer of each connection. *)

(* A new process has no connection to close. *)
LEMMA DieCloser == ASSUME NEW how, Die(how) PROVE OneCloser'
  BY DEF Die, OneCloser

(* Only runHubConnection closes its channel, once, action by action.       *)
LEMMA CloserStep ==
  ASSUME TypeOK, OneCloser, EventsClosedOnce, [Next]_vars
  PROVE  OneCloser' /\ EventsClosedOnce'
<1> USE HubAssumption DEF HubGoto, RunGoto, ReadGoto, NextRead, EventsClosedOnce
<1>0. ASSUME UNCHANGED <<process, hub, cur, closed, shut, runner>>
      PROVE  OneCloser' /\ EventsClosedOnce'
  BY <1>0 DEF OneCloser
<1>1. CASE UNCHANGED vars
  BY <1>1, <1>0 DEF vars, loop, conns
<1>2. CASE Hub
  <2>1. CASE Dial
    BY <2>1 DEF Dial, Idle, OneCloser, TypeOK
  <2>2. CASE DialFails \/ LeaveLoop \/ TakeEvent \/ HandleEvent \/ Backoff
    <3>1. UNCHANGED <<process, closed, shut, runner>> /\ hub' # "events"
      BY <2>2 DEF DialFails, LeaveLoop, TakeEvent, HandleEvent, Backoff, conns
    <3> QED
      BY <3>1 DEF OneCloser
  <2>3. CASE HubClose
    <3>1. CASE hub = "leave"
      <4>1. cur \in Conns /\ UNCHANGED <<process, cur, shut, runner>>
        BY <2>3, <3>1 DEF HubClose, TypeOK
      <4>2. CASE cur \in closed
        BY <2>3, <3>1, <4>1, <4>2 DEF HubClose, MarkClosed, OneCloser
      <4>3. CASE cur \notin closed
        <5>1. closed' = closed \cup {cur}
          BY <2>3, <3>1, <4>3 DEF HubClose, MarkClosed
        <5>2. cur \in closed' /\ \A d \in Conns : d \notin closed' => d \notin closed
          BY <4>1, <5>1 DEF TypeOK
        <5> QED
          BY <4>1, <4>3, <5>2 DEF OneCloser
      <4> QED
        BY <4>2, <4>3
    <3>2. CASE hub = "events"
      <4>1. cur \notin shut /\ cur \in Conns
        BY <3>2 DEF OneCloser, TypeOK
      <4> QED
        <5>1. shut' = shut \cup {cur} /\ hub' = "socket" /\ runner' = runner
          BY <2>3, <3>2, <4>1 DEF HubClose, CloseEvents
        <5>2. UNCHANGED <<process, cur, closed>>
          BY <2>3, <3>2, <4>1 DEF HubClose, CloseEvents
        <5>3. cur \in closed /\ runner[cur] # "events"
          BY <3>2 DEF OneCloser
        <5> QED
          BY <4>1, <5>1, <5>2, <5>3 DEF OneCloser
    <3>3. CASE hub = "socket"
      BY <2>3, <3>3 DEF HubClose, OneCloser
    <3> QED
      BY <2>3, <3>1, <3>2, <3>3 DEF HubClose
  <2> QED
    BY <1>2, <2>1, <2>2, <2>3 DEF Hub
<1>3. CASE StopProcess
  BY <1>3, DieCloser DEF StopProcess, Die
<1>4. CASE Restart
  BY <1>4 DEF Restart, OneCloser, loop, conns
<1>5. CASE Network \/ Cancel
  BY <1>5, <1>0 DEF Network, Cancel, loop, conns
<1>6. ASSUME NEW c \in Conns,
             \/ LoseLink(c) \/ Receive(c) \/ WriteFails(c) \/ WriterEnds(c)
             \/ ReadFails(c) \/ Dispatch(c) \/ HandleCommand(c)
      PROVE  OneCloser' /\ EventsClosedOnce'
  BY <1>6, <1>0
  DEF LoseLink, Receive, WriteFails, WriterEnds, ReadFails, Dispatch, HandleCommand, loop
<1>7. ASSUME NEW c \in Conns, RunClose(c) PROVE OneCloser' /\ EventsClosedOnce'
  <2>1. CASE runner[c] = "wait"
    <3>1. UNCHANGED <<process, hub, cur, shut>>
      BY <1>7, <2>1 DEF RunClose, loop
    <3>2. CASE c \in closed
      <4>1. closed' = closed /\ runner' = [runner EXCEPT ![c] = "done"]
        BY <1>7, <2>1, <3>2 DEF RunClose, MarkClosed
      <4> QED
        BY <3>1, <4>1 DEF OneCloser, TypeOK
    <3>3. CASE c \notin closed
      <4>1. /\ closed' = closed \cup {c}
            /\ runner' = [runner EXCEPT ![c] = "events"]
        BY <1>7, <2>1, <3>3 DEF RunClose, MarkClosed
      <4>2. c \in closed' /\ \A d \in Conns : (d \notin closed' => d \notin closed) /\ (d \in closed => d \in closed')
        BY <4>1 DEF TypeOK
      <4>3. \A d \in Conns : runner'[d] = "events" <=> d = c \/ runner[d] = "events"
        BY <4>1 DEF TypeOK
      <4>4. hub = "events" => cur \in Conns /\ cur # c
        BY <3>3 DEF OneCloser, TypeOK
      <4> QED
        BY <3>1, <3>3, <4>2, <4>3, <4>4 DEF OneCloser
    <3> QED
      BY <3>2, <3>3
  <2>2. CASE runner[c] = "events"
    <3>1. c \notin shut /\ c \in closed
      BY <2>2 DEF OneCloser
    <3>2. UNCHANGED <<process, hub, cur, closed>>
      BY <1>7, <2>2, <3>1 DEF RunClose, CloseEvents
    <3>3. shut' = shut \cup {c} /\ runner' = [runner EXCEPT ![c] = "socket"]
      BY <1>7, <2>2, <3>1 DEF RunClose, CloseEvents
    <3>4. \A d \in Conns \ {c} : (d \in shut' <=> d \in shut) /\ runner'[d] = runner[d]
      BY <3>3 DEF TypeOK
    <3>5. runner'[c] = "socket" /\ (hub = "events" => cur \in Conns \ {c})
      BY <2>2, <3>3 DEF OneCloser, TypeOK
    <3> QED
      BY <3>1, <3>2, <3>4, <3>5 DEF OneCloser
  <2>3. CASE runner[c] = "socket"
    BY <1>7, <2>3 DEF RunClose, OneCloser, TypeOK, loop
  <2> QED
    BY <1>7, <2>1, <2>2, <2>3 DEF RunClose
<1>8. ASSUME NEW c \in Conns, DispatchPanics(c) PROVE OneCloser' /\ EventsClosedOnce'
  BY <1>8, DieCloser DEF DispatchPanics, Die
<1>9. ASSUME NEW s \in Savers, Saver(s) PROVE OneCloser' /\ EventsClosedOnce'
  <2>1. CASE SaveStep(s)
    BY <2>1, <1>0 DEF SaveStep, loop, conns
  <2>2. CASE Exit(s)
    BY <2>2, DieCloser DEF Exit, Die
  <2> QED
    BY <1>9, <2>1, <2>2 DEF Saver
<1> QED
  BY <1>1, <1>2, <1>3, <1>4, <1>5, <1>6, <1>7, <1>8, <1>9 DEF Next, Environment, Reader

(* Run and the deferred Close of runHubOnce never close the Events channel *)
(* twice, for any number of connections whose goroutines overlap.          *)
THEOREM EventsAlwaysClosedOnce == Spec => []EventsClosedOnce
<1>1. Init => OneCloser /\ EventsClosedOnce
  BY DEF Init, OneCloser, EventsClosedOnce
<1>2. TypeOK /\ OneCloser /\ EventsClosedOnce /\ [Next]_vars => OneCloser' /\ EventsClosedOnce'
  BY CloserStep
<1> QED
  BY <1>1, <1>2, TypeCorrect, PTL DEF Spec
=============================================================================
