-------------------------- MODULE TunnelClient_proofs --------------------------
(***************************************************************************)
(* Proofs about TunnelClient, for any connections, endpoints and limits.   *)
(***************************************************************************)
EXTENDS TunnelClient, TLAPS

(* The connection being set up, the one replaced and the one in use are    *)
(* the only ones that may be open; the first two exist only at the steps   *)
(* of connect that hold them.                                              *)
Held ==
  /\ fresh # Nil <=> pc \in {"secure", "greet", "store"}
  /\ pc \notin {"mark", "close"} => old = Nil
  /\ \A c \in Conns : socket[c] # "closed" => c \in {conn, fresh, old}

(* Until Stop takes it, the field conn is there when connected says so.    *)
InUse ==
  /\ pc = "clear" => ~connected
  /\ stop = "no" => /\ pc = "mark" => conn # Nil
                    /\ connected => conn # Nil

(* A Stop that no connect escaped: none begins once ctx is done, and none  *)
(* was past its dial when connected was reset.                             *)
Caught ==
  /\ stop # "no" => cancelled
  /\ stop \in {"close", "wait", "returned"} /\ ~late =>
       pc \notin {"secure", "greet", "store", "mark"} /\ ~connected
  /\ stop \in {"wait", "returned"} /\ ~late => conn = Nil
  /\ stop = "returned" => pc = "done"

(* What a sender may find under the lock: the field of a message client is *)
(* nil or a connection nobody has closed, because connect closes only what *)
(* is not, or no longer, in the field.  smux has no senders.               *)
Usable ==
  /\ fresh # Nil => fresh # conn /\ socket[fresh] # "closed"
  /\ old # Nil => old # conn
  /\ kind # "smux" /\ conn # Nil => socket[conn] # "closed"
  /\ kind = "smux" => pc # "read" /\ \A s \in Senders : sending[s] = "no"

Inv == TypeOK /\ Held /\ InUse /\ Caught /\ Usable /\ NoCloseUnderWrite

(* The counter of failures starts again at a refresh.                      *)
LEMMA PauseBound == \A n \in Nat : (n + 1) % RefreshAfter \in 0..(RefreshAfter - 1)
  BY ClientAssumption

(* A pause leaves the counter below the next refresh.                      *)
LEMMA PauseType ==
  ASSUME TypeOK, Pause
  PROVE  tries' \in 0..(RefreshAfter - 1) /\ pc' = "wait"
<1>1. tries \in Nat
  BY ClientAssumption DEF TypeOK
<1> QED
  BY <1>1, PauseBound DEF Pause, Go

(* A client that was not started holds nothing.                            *)
LEMMA InitInv == Init => Inv
<1> SUFFICES ASSUME Init PROVE Inv
  OBVIOUS
<1>1. TypeOK
  <2>1. 0 \in 0..RetryMax /\ 0 \in 0..(RefreshAfter - 1)
    BY ClientAssumption
  <2>2. peer \in [up : BOOLEAN, at : Pairs] /\ target \in Pairs
    BY DEF Init
  <2> QED
    BY <2>1, <2>2 DEF Init, TypeOK, Loop
<1>2. Held /\ InUse /\ Caught /\ Usable /\ NoCloseUnderWrite
  BY DEF Init, Held, InUse, Caught, Usable, NoCloseUnderWrite
<1> QED
  BY <1>1, <1>2 DEF Inv

(* Whether Stop came late is a Boolean.                                    *)
LEMMA MarkType == StopMark => late' \in BOOLEAN
  BY DEF StopMark

(* The types, action by action.                                            *)
LEMMA TypeStep == TypeOK /\ [Next]_vars => TypeOK'
<1> SUFFICES ASSUME TypeOK, [Next]_vars PROVE TypeOK'
  OBVIOUS
<1>0. Pause => tries' \in 0..(RefreshAfter - 1) /\ pc' = "wait"
  BY PauseType
<1> USE ClientAssumption DEF TypeOK, Go, ours, Loop, Connecting, Over, Closed
<1>1. CASE Dial \/ Secure \/ Greet
  BY <1>1 DEF Dial, Secure, Greet
<1>2. CASE DialFails \/ SecureFails \/ GreetFails
  <2>1. socket' \in [Conns -> {"open", "lost", "closed"}] /\ fresh' = Nil
    BY <1>2 DEF DialFails, SecureFails, GreetFails, FailAt
  <2>2. AfterFailure /\ UNCHANGED <<kind, sending, target, old, reading, conn, connected, cancelled, heart, stop, late, peer>>
    BY <1>2 DEF DialFails, SecureFails, GreetFails, FailAt
  <2>3. mode' \in {"first", "retry", "run"} /\ attempt' \in 0..RetryMax
    BY <2>2, ClientAssumption DEF AfterFailure
  <2>4. pc' \in {"head", "wait", "failed"} /\ tries' \in 0..(RefreshAfter - 1)
    BY <2>2, <1>0 DEF AfterFailure
  <2> QED
    BY <2>1, <2>2, <2>3, <2>4
<1>3. CASE Store \/ MarkConnected \/ CloseOld
  <2>1. 0 \in 0..RetryMax /\ 0 \in 0..(RefreshAfter - 1)
    BY ClientAssumption
  <2>2. CASE Store
    BY <2>2 DEF Store
  <2>3. CASE MarkConnected
    BY <2>3 DEF MarkConnected
  <2>4. CASE CloseOld
    BY <2>1, <2>4 DEF CloseOld
  <2> QED
    BY <1>3, <2>2, <2>3, <2>4
<1>4. CASE RetryHead \/ Wait
  BY <1>4, <1>0 DEF RetryHead, Wait
<1>5. CASE Refresh \/ RefreshFails
  <2>1. target' \in Pairs
    BY <1>5 DEF Refresh, RefreshFails
  <2>2. pc' \in {"dial", "wait"} /\ tries' \in 0..(RefreshAfter - 1)
    BY <1>5, <1>0 DEF Refresh, RefreshFails, AfterRefresh
  <2> QED
    BY <1>5, <2>1, <2>2 DEF Refresh, RefreshFails
<1>6. CASE Monitor
  <2>1. CASE Check \/ Sleep
    BY <2>1 DEF Check, Sleep
  <2>2. CASE PickConn
    BY <2>2, <1>0 DEF PickConn
  <2>3. CASE Read
    <3>1. sending' \in [Senders -> {"no", "lock", "write"}] /\ pc' \in {"check", "forward", "send"}
      BY <2>3 DEF Read, Senders
    <3> QED
      BY <2>3, <3>1 DEF Read
  <2>7. CASE Handled
    BY <2>7 DEF Handled
  <2>6. CASE ReadFails
    BY <2>6 DEF ReadFails
  <2>4. CASE Clear
    BY <2>4, <1>0 DEF Clear
  <2>5. CASE Watch
    <3>1. connected' \in BOOLEAN
      BY <2>5 DEF Watch
    <3>2. tries' \in 0..(RefreshAfter - 1) /\ pc' \in {"sleep", "wait"}
      BY <2>5, <1>0 DEF Watch
    <3> QED
      BY <2>5, <3>1, <3>2 DEF Watch
  <2> QED
    BY <1>6, <2>1, <2>2, <2>3, <2>4, <2>5, <2>6, <2>7 DEF Monitor
<1>7. CASE HeartbeatEnds \/ CancelParent \/ StopCancel \/ StopReturn
  <2>1. cancelled' \in BOOLEAN
    BY <1>7 DEF HeartbeatEnds, CancelParent, StopCancel, StopReturn
  <2>2. heart' \in {"on", "off", "done"} /\ stop' \in {"no", "mark", "close", "wait", "returned"}
    BY <1>7 DEF HeartbeatEnds, CancelParent, StopCancel, StopReturn
  <2> QED
    BY <1>7, <2>1, <2>2 DEF HeartbeatEnds, CancelParent, StopCancel, StopReturn
<1>8. CASE StopMark \/ StopClose
  <2>1. CASE StopMark
    <3>1. late' \in BOOLEAN /\ connected' \in BOOLEAN
      BY <2>1, MarkType DEF StopMark
    <3>2. UNCHANGED <<ours, sending, pc, socket, conn, fresh, cancelled, heart, peer>> /\ stop' = "close"
      BY <2>1 DEF StopMark
    <3> QED
      BY <3>1, <3>2
  <2>2. CASE StopClose
    BY <2>2 DEF StopClose
  <2> QED
    BY <1>8, <2>1, <2>2
<1>9. ASSUME NEW c \in Conns, Lose(c) PROVE TypeOK'
  BY <1>9 DEF Lose
<1>10. CASE KeepAliveTimeout \/ PeerChanges
  <2>1. socket' \in [Conns -> {"open", "lost", "closed"}]
    BY <1>10 DEF KeepAliveTimeout, PeerChanges
  <2>2. peer' \in [up : BOOLEAN, at : Pairs]
    BY <1>10 DEF KeepAliveTimeout, PeerChanges
  <2> QED
    BY <1>10, <2>1, <2>2 DEF KeepAliveTimeout, PeerChanges
<1>11. ASSUME NEW s \in Senders, SendMessage(s) \/ TakeLock(s) \/ WriteReturns(s) PROVE TypeOK'
  BY <1>11 DEF SendMessage, TakeLock, WriteReturns
<1>12. CASE UNCHANGED vars
  BY <1>12 DEF vars
<1> QED
  BY <1>1, <1>2, <1>3, <1>4, <1>5, <1>6, <1>7, <1>8, <1>9, <1>10, <1>11, <1>12
     DEF Next, Connect, Retry, Stop, Send

(* What a step leaves behind, action by action.                            *)
LEMMA HoldStep == Inv /\ [Next]_vars => (Held /\ InUse /\ Caught)'
<1> SUFFICES ASSUME Inv, [Next]_vars PROVE (Held /\ InUse /\ Caught)'
  OBVIOUS
<1> USE ClientAssumption
    DEF Inv, TypeOK, Held, InUse, Caught, Go, ours, Closed
<1>1. CASE Dial \/ Secure \/ Greet
  BY <1>1 DEF Dial, Secure, Greet
<1>2. CASE DialFails \/ SecureFails \/ GreetFails
  BY <1>2 DEF DialFails, SecureFails, GreetFails, FailAt, AfterFailure, Pause
<1>3. CASE Store \/ MarkConnected \/ CloseOld
  BY <1>3 DEF Store, MarkConnected, CloseOld
<1>4. CASE RetryHead \/ Wait
  BY <1>4 DEF RetryHead, Wait, Pause
<1>5. CASE Refresh \/ RefreshFails
  BY <1>5 DEF Refresh, RefreshFails, AfterRefresh, Pause
<1>6. CASE Check \/ PickConn \/ Read \/ Handled \/ ReadFails
  BY <1>6 DEF Check, PickConn, Read, Handled, ReadFails, Pause
<1>7. CASE Clear \/ Watch \/ Sleep
  BY <1>7 DEF Clear, Watch, Sleep, Pause
<1>8. CASE HeartbeatEnds \/ Stop \/ CancelParent
  BY <1>8 DEF HeartbeatEnds, CancelParent, Stop, StopCancel, StopMark, StopClose, StopReturn, Connecting
<1>9. ASSUME NEW c \in Conns, Lose(c) PROVE (Held /\ InUse /\ Caught)'
  BY <1>9 DEF Lose
<1>10. CASE KeepAliveTimeout \/ PeerChanges
  BY <1>10 DEF KeepAliveTimeout, PeerChanges
<1>11. CASE Send
  BY <1>11 DEF Send, SendMessage, TakeLock, WriteReturns
<1>12. CASE UNCHANGED vars
  BY <1>12 DEF vars
<1> QED
  BY <1>1, <1>2, <1>3, <1>4, <1>5, <1>6, <1>7, <1>8, <1>9, <1>10, <1>11, <1>12
     DEF Next, Connect, Retry, Monitor

(* What the field and its writers may be, action by action.                *)
LEMMA UseStep == Inv /\ [Next]_vars => (Usable /\ NoCloseUnderWrite)'
<1> SUFFICES ASSUME Inv, [Next]_vars PROVE (Usable /\ NoCloseUnderWrite)'
  OBVIOUS
<1> USE ClientAssumption
    DEF Inv, TypeOK, Held, Usable, NoCloseUnderWrite, Go, ours, Closed
<1>1. CASE Dial \/ Secure \/ Greet
  BY <1>1 DEF Dial, Secure, Greet
<1>2. CASE DialFails \/ SecureFails \/ GreetFails
  BY <1>2 DEF DialFails, SecureFails, GreetFails, FailAt, AfterFailure, Pause
<1>3. CASE Store \/ MarkConnected \/ CloseOld
  BY <1>3 DEF Store, MarkConnected, CloseOld, Locked
<1>4. CASE Retry
  BY <1>4 DEF Retry, RetryHead, Wait, Refresh, RefreshFails, AfterRefresh, Pause
<1>5. CASE Monitor
  <2>1. CASE Check \/ PickConn \/ Handled \/ ReadFails \/ Watch \/ Sleep
    BY <2>1 DEF Check, PickConn, Handled, ReadFails, Watch, Sleep, Pause
  <2>2. CASE Read
    BY <2>2 DEF Read, Senders
  <2>3. CASE Clear
    BY <2>3 DEF Clear, Locked, Pause
  <2> QED
    BY <1>5, <2>1, <2>2, <2>3 DEF Monitor
<1>6. CASE HeartbeatEnds \/ Stop \/ CancelParent
  BY <1>6 DEF HeartbeatEnds, CancelParent, Stop, StopCancel, StopMark, StopClose, StopReturn, Locked
<1>7. ASSUME NEW s \in Senders, SendMessage(s) \/ TakeLock(s) \/ WriteReturns(s)
      PROVE  (Usable /\ NoCloseUnderWrite)'
  BY <1>7 DEF SendMessage, TakeLock, WriteReturns
<1>8. ASSUME NEW c \in Conns, Lose(c) PROVE (Usable /\ NoCloseUnderWrite)'
  BY <1>8 DEF Lose
<1>9. CASE KeepAliveTimeout \/ PeerChanges
  BY <1>9 DEF KeepAliveTimeout, PeerChanges
<1>10. CASE UNCHANGED vars
  BY <1>10 DEF vars
<1> QED
  BY <1>1, <1>2, <1>3, <1>4, <1>5, <1>6, <1>7, <1>8, <1>9, <1>10 DEF Next, Connect, Send

(* The inductive invariant holds in every state.                           *)
LEMMA Invariant == Spec => []Inv
<1>1. Inv /\ [Next]_vars => Inv'
  BY TypeStep, HoldStep, UseStep DEF Inv
<1> QED
  BY <1>1, InitInv, PTL DEF Spec

(* Every variable keeps its type: above all, Start gives up after its last *)
(* retry and the backoff never runs past the next refresh.                 *)
THEOREM TypeCorrect == Spec => []TypeOK
  BY Invariant, PTL DEF Inv

(* A client that is not being stopped holds no connection but the one it   *)
(* uses, outside connect (client_conn.go:186, tls_client_conn.go,          *)
(* smux_client.go:229).                                                    *)
THEOREM NothingElseOpen == Spec => []NoneLeft
<1>1. ASSUME Inv, pc \notin Connecting PROVE {c \in Conns : socket[c] # "closed"} \subseteq {conn}
  <2>1. fresh = Nil /\ old = Nil
    BY <1>1 DEF Inv, Held, Connecting
  <2> QED
    BY <1>1, <2>1, ClientAssumption DEF Inv, Held
<1>2. Inv => NoneLeft
  BY <1>1 DEF Inv, InUse, NoneLeft
<1> QED
  BY <1>2, Invariant, PTL

(* Stop of a client leaves nothing open, unless a connect was past its     *)
(* dial when Stop began.                                                   *)
THEOREM StoppedIsClosed == Spec => []StopLeavesNothing
<1>1. ASSUME Inv, stop = "returned", ~late PROVE ~connected /\ \A c \in Conns : socket[c] = "closed"
  <2>1. pc = "done" /\ conn = Nil /\ ~connected
    BY <1>1 DEF Inv, Caught
  <2>2. fresh = Nil /\ old = Nil
    BY <1>1, <2>1 DEF Inv, Held
  <2> QED
    BY <1>1, <2>1, <2>2, ClientAssumption DEF Inv, Held
<1>2. Inv => StopLeavesNothing
  BY <1>1 DEF StopLeavesNothing
<1> QED
  BY <1>2, Invariant, PTL

(* While a goroutine is inside Write, nobody closes the connection it      *)
(* writes to or takes it out of the field (client.go:138): Stop, the read  *)
(* loop after an error, or a connect that replaces it.                     *)
THEOREM WritesAreSafe == Spec => []NoCloseUnderWrite
  BY Invariant, PTL DEF Inv
=============================================================================
