----------------------------- MODULE TunnelClient -----------------------------
(***************************************************************************)
(* The client end of a tunnel in its three variants: WebSocket messages    *)
(* (internal/tunnel/client*.go), TLS messages (tls_client*.go) and smux    *)
(* sessions (smux_client.go).  Start connects, with retries; then one      *)
(* goroutine reads the tunnel, or watches the smux session, and connects   *)
(* again when it is lost; another sends heartbeats, the forwarder's send   *)
(* messages; Stop runs against them.  All that use the connection of the   *)
(* message clients take writeMu, which a sender holds while it writes.     *)
(* Waiting times are left out, what a wait can be ended by is not.  What   *)
(* the messages mean is in TunnelSession.                                  *)
(***************************************************************************)
EXTENDS Naturals, FiniteSets

CONSTANTS
  Kinds,        \* the variants looked at, among "ws", "tls" and "smux"
  Conns,        \* names for the connections open at a time
  Nil,          \* no connection
  Places,       \* where the other end may listen: its endpoints
  Tokens,       \* the tokens it may accept
  Users,        \* the goroutines of the forwarder that call SendMessage
  RetryMax,     \* initialRetryMax
  RefreshAfter  \* refreshAfterAttempts

ASSUME ClientAssumption ==
  /\ Kinds \subseteq {"ws", "tls", "smux"} /\ Nil \notin Conns
  /\ "heartbeat" \notin Users /\ "loop" \notin Users
  /\ RetryMax \in Nat /\ RefreshAfter \in Nat \ {0}

VARIABLES
  kind,       \* which of the three clients this is
  pc,         \* the next step of Start, then of readLoop or sessionMonitor
  mode,       \* who called connect: Start, its retry loop, or reconnect
  attempt,    \* the retry of Start
  tries,      \* Backoff.attempt, up to the next refresh
  target,     \* the fields endpoint and token
  socket,     \* the state of each connection, as the client sees it
  conn,       \* the field conn (and session)
  connected,  \* the field connected
  fresh,      \* local variable: the connection being set up
  old,        \* local variable: oldConn
  reading,    \* local variable: the connection the loop reads
  cancelled,  \* is ctx done?
  heart,      \* the goroutine of heartbeatLoop
  stop,       \* the next step of Stop
  sending,    \* where each sender is in SendMessage: it waits for writeMu or writes
  late,       \* was a connect past its dial when Stop began?
  peer        \* the other end: is it up, where, and the token it accepts

ours == <<kind, mode, attempt, tries, target, old, reading>>
vars == <<ours, sending, pc, socket, conn, connected, fresh, cancelled, heart, stop, late, peer>>

Senders    == {"heartbeat", "loop"} \cup Users
Loop       == {"check", "pick", "read", "send", "forward", "clear", "sleep"}
Connecting == {"secure", "greet", "store", "mark", "close"}
Over       == {"failed", "done", "panicked"}
Pairs      == [place : Places, token : Tokens]

TypeOK ==
  /\ kind \in Kinds
  /\ pc \in {"dial", "head", "refresh", "wait"} \cup Loop \cup Connecting \cup Over
  /\ mode \in {"first", "retry", "run"} /\ attempt \in 0..RetryMax
  /\ tries \in 0..(RefreshAfter - 1) /\ target \in Pairs
  /\ socket \in [Conns -> {"open", "lost", "closed"}]
  /\ conn \in Conns \cup {Nil} /\ fresh \in Conns \cup {Nil}
  /\ old \in Conns \cup {Nil} /\ reading \in Conns \cup {Nil}
  /\ connected \in BOOLEAN /\ cancelled \in BOOLEAN /\ late \in BOOLEAN
  /\ heart \in {"off", "on", "done"}
  /\ sending \in [Senders -> {"no", "lock", "write"}]
  /\ stop \in {"no", "mark", "close", "wait", "returned"}
  /\ peer \in [up : BOOLEAN, at : Pairs]

(* NewClient is given an endpoint resolved just before.                    *)
Init ==
  /\ kind \in Kinds
  /\ pc = "dial" /\ mode = "first" /\ attempt = 0 /\ tries = 0
  /\ socket = [c \in Conns |-> "closed"]
  /\ conn = Nil /\ fresh = Nil /\ old = Nil /\ reading = Nil
  /\ connected = FALSE /\ cancelled = FALSE /\ late = FALSE
  /\ heart = "off" /\ stop = "no" /\ sending = [s \in Senders |-> "no"]
  /\ peer \in [up : BOOLEAN, at : Pairs] /\ target = peer.at

Go(p) == pc' = p
Due(n) == n % RefreshAfter = 0
Closed(c) == IF c = Nil THEN socket ELSE [socket EXCEPT ![c] = "closed"]
Locked == \E s \in Senders : sending[s] = "write"
Reachable == peer.up /\ target.place = peer.at.place

-------------------------------------------------------------------------------
(* connect                                                                 *)

(* The dial, bound to ctx, with a timeout of ten seconds.                  *)
Dial ==
  /\ pc = "dial" /\ ~cancelled /\ Reachable
  /\ \E c \in Conns :
       /\ socket[c] = "closed" /\ c # conn
       /\ socket' = [socket EXCEPT ![c] = "open"]
       /\ fresh' = c
  /\ Go("secure")
  /\ UNCHANGED <<ours, sending, conn, connected, cancelled, heart, stop, late, peer>>

(* tlsConn.Handshake, which knows neither ctx nor a deadline.              *)
Secure ==
  /\ pc = "secure" /\ socket[fresh] = "open"
  /\ Go("greet")
  /\ UNCHANGED <<ours, sending, socket, conn, connected, fresh, cancelled, heart, stop, late, peer>>

(* The tunnel handshake: the token is sent, a result awaited ten seconds.  *)
Greet ==
  /\ pc = "greet" /\ socket[fresh] = "open" /\ target.token = peer.at.token
  /\ Go("store")
  /\ UNCHANGED <<ours, sending, socket, conn, connected, fresh, cancelled, heart, stop, late, peer>>

(* A connect that fails closes what it opened.  Start gives up after its   *)
(* last retry, reconnect never does: its backoff counts another attempt.   *)
Pause == tries' = (tries + 1) % RefreshAfter /\ Go("wait")

(* Mutant: one retry too many. *)
AfterFailureOneMore ==
  \/ mode = "run" /\ Pause /\ UNCHANGED <<mode, attempt>>
  \/ /\ mode # "run" /\ attempt <= RetryMax
     /\ mode' = "retry" /\ attempt' = attempt + 1 /\ Go("head")
     /\ UNCHANGED tries
  \/ /\ mode # "run" /\ attempt > RetryMax /\ Go("failed")
     /\ UNCHANGED <<mode, attempt, tries>>

AfterFailure ==
  \/ /\ mode = "run" /\ Pause
     /\ UNCHANGED <<mode, attempt>>
  \/ /\ mode # "run" /\ attempt < RetryMax
     /\ mode' = "retry" /\ attempt' = attempt + 1 /\ Go("head")
     /\ UNCHANGED tries
  \/ /\ mode # "run" /\ attempt = RetryMax
     /\ Go("failed")
     /\ UNCHANGED <<mode, attempt, tries>>

(* Mutant: the error path forgets conn.Close(). *)
FailAtLeaving(step) ==
  /\ pc = step
  /\ fresh' = Nil
  /\ AfterFailure
  /\ UNCHANGED <<kind, sending, target, old, reading, socket, conn, connected, cancelled,
                 heart, stop, late, peer>>

FailAt(step) ==
  /\ pc = step
  /\ socket' = Closed(fresh) /\ fresh' = Nil
  /\ AfterFailure
  /\ UNCHANGED <<kind, sending, target, old, reading, conn, connected, cancelled,
                 heart, stop, late, peer>>

DialFails   == FailAt("dial")
SecureFails == FailAt("secure")
GreetFails  == FailAt("greet")

(* Under the lock the new connection replaces the old.                     *)
Store ==
  /\ pc = "store" /\ ~Locked
  /\ old' = conn /\ conn' = fresh /\ fresh' = Nil
  /\ Go("mark")
  /\ UNCHANGED <<kind, sending, mode, attempt, tries, target, reading, socket, connected,
                 cancelled, heart, stop, late, peer>>

MarkConnected ==
  /\ pc = "mark"
  /\ connected' = TRUE
  /\ Go("close")
  /\ UNCHANGED <<ours, sending, socket, conn, fresh, cancelled, heart, stop, late, peer>>

(* The old connection is closed and connect returns; Start makes the       *)
(* goroutines, of which smux has no heartbeat.                             *)
CloseOld ==
  /\ pc = "close"
  /\ socket' = Closed(old) /\ old' = Nil
  /\ tries' = 0 /\ attempt' = 0 /\ mode' = "run"
  /\ heart' = IF mode # "run" /\ kind # "smux" THEN "on" ELSE heart
  /\ Go("check")
  /\ UNCHANGED <<kind, sending, target, reading, conn, connected, fresh, cancelled, stop,
                 late, peer>>

-------------------------------------------------------------------------------
(* The loops of Start and of reconnect                                     *)

RetryHead ==
  /\ pc = "head"
  /\ \/ cancelled /\ Go("failed") /\ UNCHANGED tries
     \/ ~cancelled /\ Due(attempt) /\ Go("refresh") /\ UNCHANGED tries
     \/ ~cancelled /\ ~Due(attempt) /\ Pause
  /\ UNCHANGED <<kind, sending, mode, attempt, target, old, reading, socket, conn, connected, fresh,
                 cancelled, heart, stop, late, peer>>

(* Mutant: the select has no case for ctx. *)
WaitDeaf ==
  /\ pc = "wait"
  /\ Go(IF mode = "run" /\ Due(tries) THEN "refresh" ELSE "dial")
  /\ UNCHANGED <<ours, sending, socket, conn, connected, fresh, cancelled, heart, stop, late, peer>>

(* The timer, or ctx; when both are ready select takes either.             *)
Wait ==
  /\ pc = "wait"
  /\ \/ cancelled /\ Go(IF mode = "run" THEN "done" ELSE "failed")
     \/ Go(IF mode = "run" /\ Due(tries) THEN "refresh" ELSE "dial")
  /\ UNCHANGED <<ours, sending, socket, conn, connected, fresh, cancelled, heart, stop, late, peer>>

AfterRefresh ==
  \/ mode = "run" /\ Go("dial") /\ UNCHANGED tries
  \/ mode # "run" /\ Pause

(* Mutant: the endpoint is taken only with another token. *)
RefreshByToken ==
  /\ pc = "refresh"
  /\ target' = IF peer.at.token # target.token THEN peer.at ELSE target
  /\ AfterRefresh
  /\ UNCHANGED <<kind, sending, mode, attempt, old, reading, socket, conn, connected, fresh,
                 cancelled, heart, stop, late, peer>>

(* endpointRefresher asks the control server.  The token that comes with   *)
(* the endpoint is taken only when the endpoint is another one.            *)
Refresh ==
  /\ pc = "refresh"
  /\ target' = IF peer.at.place # target.place THEN peer.at ELSE target
  /\ AfterRefresh
  /\ UNCHANGED <<kind, sending, mode, attempt, old, reading, socket, conn, connected, fresh,
                 cancelled, heart, stop, late, peer>>

RefreshFails ==
  /\ pc = "refresh"
  /\ AfterRefresh
  /\ UNCHANGED <<kind, sending, mode, attempt, target, old, reading, socket, conn, connected, fresh,
                 cancelled, heart, stop, late, peer>>

-------------------------------------------------------------------------------
(* readLoop and sessionMonitor                                             *)

Check ==
  /\ pc = "check"
  /\ Go(IF cancelled THEN "done" ELSE "pick")
  /\ UNCHANGED <<ours, sending, socket, conn, connected, fresh, cancelled, heart, stop, late, peer>>

(* ws reads c.conn as it is, without the lock, and calls ReadMessage of    *)
(* nil if Stop came between; tls looks under the lock and connects again.  *)
PickConn ==
  /\ pc = "pick" /\ kind # "smux"
  /\ kind = "tls" => ~Locked
  /\ \/ conn # Nil /\ Go("read") /\ UNCHANGED tries
     \/ conn = Nil /\ kind = "ws" /\ Go("panicked") /\ UNCHANGED tries
     \/ conn = Nil /\ kind = "tls" /\ Pause
  /\ reading' = conn
  /\ UNCHANGED <<kind, sending, mode, attempt, target, old, socket, conn, connected, fresh,
                 cancelled, heart, stop, late, peer>>

(* A message arrives and is handled.  For one of a connection it does not  *)
(* know the forwarder answers with a Close through this tunnel; a relay    *)
(* passes it to its other tunnel, where it waits as long as that one does. *)
Read ==
  /\ pc = "read" /\ socket[reading] = "open"
  /\ \/ Go("check") /\ UNCHANGED sending
     \/ Go("forward") /\ UNCHANGED sending
     \/ Go("send") /\ sending' = [sending EXCEPT !["loop"] = "lock"]
  /\ reading' = Nil
  /\ UNCHANGED <<kind, mode, attempt, tries, target, old, socket, conn, connected, fresh,
                 cancelled, heart, stop, late, peer>>

Handled ==
  /\ \/ pc = "forward"
     \/ pc = "send" /\ sending["loop"] = "no"
  /\ Go("check")
  /\ UNCHANGED <<ours, sending, socket, conn, connected, fresh, cancelled, heart, stop, late, peer>>

ReadFails ==
  /\ pc = "read" /\ socket[reading] # "open"
  /\ connected' = FALSE
  /\ Go("clear")
  /\ reading' = Nil
  /\ UNCHANGED <<kind, sending, mode, attempt, tries, target, old, socket, conn, fresh,
                 cancelled, heart, stop, late, peer>>

(* Under the lock the connection is closed and forgotten; then reconnect.  *)
Clear ==
  /\ pc = "clear" /\ ~Locked
  /\ socket' = Closed(conn) /\ conn' = Nil
  /\ Pause
  /\ UNCHANGED <<kind, sending, mode, attempt, target, old, reading, connected, fresh,
                 cancelled, heart, stop, late, peer>>

(* sessionMonitor looks at the session, and again five seconds later.      *)
SessionAlive == conn # Nil /\ socket[conn] # "closed"

Watch ==
  /\ pc = "pick" /\ kind = "smux"
  /\ \/ SessionAlive /\ Go("sleep") /\ UNCHANGED <<tries, connected>>
     \/ ~SessionAlive /\ connected' = FALSE /\ Pause
  /\ UNCHANGED <<kind, sending, mode, attempt, target, old, reading, socket, conn, fresh,
                 cancelled, heart, stop, late, peer>>

Sleep ==
  /\ pc = "sleep"
  /\ Go("check")
  /\ UNCHANGED <<ours, sending, socket, conn, connected, fresh, cancelled, heart, stop, late, peer>>

(* SendMessage, called by the forwarder's goroutines and, for a ping whose *)
(* answer only Ping waits for, by heartbeatLoop.                           *)
SendMessage(s) ==
  /\ s # "loop" /\ kind # "smux" /\ sending[s] = "no"
  /\ s = "heartbeat" => heart = "on"
  /\ sending' = [sending EXCEPT ![s] = "lock"]
  /\ UNCHANGED <<ours, pc, socket, conn, connected, fresh, cancelled, heart, stop, late, peer>>

(* It takes writeMu and writes, unless the connection is gone.             *)
TakeLock(s) ==
  /\ sending[s] = "lock" /\ ~Locked
  /\ sending' = [sending EXCEPT ![s] = IF conn = Nil THEN "no" ELSE "write"]
  /\ UNCHANGED <<ours, pc, socket, conn, connected, fresh, cancelled, heart, stop, late, peer>>

(* Write has no deadline: it ends when the other end reads, or with an     *)
(* error when the connection is lost.                                      *)
WriteReturns(s) ==
  /\ sending[s] = "write"
  /\ sending' = [sending EXCEPT ![s] = "no"]
  /\ UNCHANGED <<ours, pc, socket, conn, connected, fresh, cancelled, heart, stop, late, peer>>

WriteFails(s) == WriteReturns(s) /\ socket[conn] # "open"

(* heartbeatLoop looks at ctx between two pings.                           *)
HeartbeatEnds ==
  /\ heart = "on" /\ cancelled /\ sending["heartbeat"] = "no"
  /\ heart' = "done"
  /\ UNCHANGED <<ours, sending, pc, socket, conn, connected, fresh, cancelled, stop, late, peer>>

-------------------------------------------------------------------------------
(* Stop, called once Start has returned the client to its caller           *)

StopCancel ==
  /\ stop = "no" /\ mode = "run"
  /\ stop' = "mark" /\ cancelled' = TRUE
  /\ UNCHANGED <<ours, sending, pc, socket, conn, connected, fresh, heart, late, peer>>

StopMark ==
  /\ stop = "mark"
  /\ stop' = "close" /\ connected' = FALSE
  /\ late' = (pc \in Connecting \ {"close"})
  /\ UNCHANGED <<ours, sending, pc, socket, conn, fresh, cancelled, heart, peer>>

(* Mutant: the field is cleared, the connection left open. *)
StopCloseForgets ==
  /\ stop = "close" /\ ~Locked
  /\ stop' = "wait" /\ conn' = Nil
  /\ UNCHANGED <<ours, sending, pc, socket, connected, fresh, cancelled, heart, late, peer>>

(* Mutant: the connection is closed first, writeMu taken for the field. *)
StopCloseUnlocked ==
  /\ stop = "close"
  /\ socket' = Closed(conn)
  /\ IF Locked THEN UNCHANGED <<stop, conn>> ELSE stop' = "wait" /\ conn' = Nil
  /\ UNCHANGED <<ours, sending, pc, connected, fresh, cancelled, heart, late, peer>>

(* Under the lock, which a write may hold, the connection is closed.       *)
StopClose ==
  /\ stop = "close" /\ ~Locked
  /\ stop' = "wait"
  /\ socket' = Closed(conn) /\ conn' = Nil
  /\ UNCHANGED <<ours, sending, pc, connected, fresh, cancelled, heart, late, peer>>

StopReturn ==
  /\ stop = "wait" /\ pc = "done" /\ heart # "on"
  /\ stop' = "returned"
  /\ UNCHANGED <<ours, sending, pc, socket, conn, connected, fresh, cancelled, heart, late, peer>>

(* The agent itself is being stopped: Stop of the client follows.          *)
CancelParent ==
  /\ cancelled' = TRUE
  /\ UNCHANGED <<ours, sending, pc, socket, conn, connected, fresh, heart, stop, late, peer>>

-------------------------------------------------------------------------------
(* The network and the other end                                           *)

Lose(c) ==
  /\ socket[c] = "open"
  /\ socket' = [socket EXCEPT ![c] = "lost"]
  /\ UNCHANGED <<ours, sending, pc, conn, connected, fresh, cancelled, heart, stop, late, peer>>

(* smux misses the answers to its keepalives and closes the session.       *)
KeepAliveTimeout ==
  /\ kind = "smux" /\ conn # Nil /\ socket[conn] = "lost"
  /\ socket' = Closed(conn)
  /\ UNCHANGED <<ours, sending, pc, conn, connected, fresh, cancelled, heart, stop, late, peer>>

(* It stops, comes back, there or elsewhere, or takes another token.       *)
PeerChanges ==
  /\ peer' \in [up : BOOLEAN, at : Pairs]
  /\ socket' = IF peer.up /\ peer'.up /\ peer'.at.place = peer.at.place THEN socket
               ELSE [c \in Conns |-> IF socket[c] = "open" THEN "lost" ELSE socket[c]]
  /\ UNCHANGED <<ours, sending, pc, conn, connected, fresh, cancelled, heart, stop, late>>

Connect == Dial \/ Secure \/ Greet \/ DialFails \/ SecureFails \/ GreetFails
             \/ Store \/ MarkConnected \/ CloseOld
Retry   == RetryHead \/ Wait \/ Refresh \/ RefreshFails
Monitor == Check \/ PickConn \/ Read \/ Handled \/ ReadFails \/ Clear \/ Watch \/ Sleep
Send    == \E s \in Senders : SendMessage(s) \/ TakeLock(s) \/ WriteReturns(s)
Stop    == StopCancel \/ StopMark \/ StopClose \/ StopReturn

Next ==
  \/ Connect \/ Retry \/ Monitor
  \/ Send \/ HeartbeatEnds \/ Stop \/ CancelParent
  \/ \E c \in Conns : Lose(c)
  \/ KeepAliveTimeout \/ PeerChanges

Spec == Init /\ [][Next]_vars

(* What Start and the loop do without waiting for another goroutine, and   *)
(* what ends by itself: not a TLS handshake nor a Write on an open         *)
(* connection, whose other end may not answer or read, nor what a relay's  *)
(* message waits for.                                                      *)
Runs ==
  \/ DialFails \/ GreetFails
  \/ SecureFails /\ socket[fresh] # "open"
  \/ MarkConnected \/ CloseOld
  \/ RetryHead \/ Refresh \/ RefreshFails \/ Wait
  \/ Check \/ ReadFails \/ Watch \/ Sleep
  \/ Handled /\ pc = "send"

(* What the loop, Stop and the end of heartbeatLoop wait for: writeMu, or  *)
(* a select in which ctx is ready beside a timer.                          *)
Admitted ==
  \/ Store \/ Clear \/ PickConn \/ TakeLock("loop")
  \/ StopClose \/ HeartbeatEnds
  \/ Wait /\ pc' \in {"done", "failed"}

(* Goroutines run, timers fire, keepalives time out.  A dial, a tunnel     *)
(* handshake or a refresh that could succeed again and again does so at    *)
(* some time; so does what waits for a mutex, which starves nobody, or for *)
(* a select.  Strong fairness of Admitted asks less than that of each of   *)
(* its actions.                                                            *)
Fairness ==
  /\ WF_vars(Runs) /\ SF_vars(Admitted)
  /\ SF_vars(Dial) /\ SF_vars(Greet) /\ SF_vars(Refresh)
  /\ SF_vars(TakeLock("heartbeat")) /\ WF_vars(\E s \in Senders : WriteFails(s))
  /\ WF_vars(StopMark \/ StopReturn) /\ WF_vars(KeepAliveTimeout)

FairSpec == Spec /\ Fairness

-------------------------------------------------------------------------------
(* Properties                                                              *)

(* Except while a connect is under way a client that is not being stopped  *)
(* holds no connection but the one it uses, and says it is connected only  *)
(* when it has one: every failed set-up, every lost and every replaced     *)
(* connection was closed.                                                  *)
NoneLeft ==
  stop = "no" =>
    /\ pc \notin Connecting => {c \in Conns : socket[c] # "closed"} \subseteq {conn}
    /\ connected => conn # Nil

(* A client that was stopped holds nothing open and is not connected, with *)
(* one exception: a connect past its dial when Stop begins stores its      *)
(* connection after Stop has cleared the field, and nothing ever closes it *)
(* (client_conn.go:186).                                                   *)
StopLeavesNothing ==
  stop = "returned" /\ ~late => ~connected /\ \A c \in Conns : socket[c] = "closed"

(* "Hold write lock before closing to prevent concurrent write"            *)
(* (client.go:138, tls_client.go:134): while a goroutine is inside Write,  *)
(* neither Stop, nor the read loop after an error, nor a connect that      *)
(* replaces the connection closes it or takes the field away.              *)
NoCloseUnderWrite ==
  \A s \in Senders : sending[s] = "write" => conn # Nil /\ socket[conn] # "closed"

(* Start returns, having given up after RetryMax retries if need be, and   *)
(* so does Stop, except in the waits that ctx does not end.  A TLS         *)
(* handshake nobody answers has no deadline, and a Write to an end that    *)
(* reads no more has none either: it keeps Stop out of writeMu, so that    *)
(* Stop never closes the connection that would end the Write.  And the     *)
(* read loop may be in a message the other tunnel of a relay does not take.*)
Hangs == pc = "secure" /\ socket[fresh] = "open"
Stuck ==
  \/ pc = "forward"
  \/ Locked /\ socket[conn] = "open"

CallsReturn ==
  \/ <>[]Hangs
  \/ /\ pc = "dial" /\ mode = "first" ~> (pc = "failed" \/ mode = "run")
     /\ \/ stop = "mark" ~> stop = "returned" \/ pc = "panicked"
        \/ <>[]Stuck

(* The client gets back to the other end, wherever it went, once that      *)
(* stays up and connections hold.  Not so when it takes another token at   *)
(* the same place: the refreshed token is dropped (client_conn.go:228).    *)
TokenHolds == target.place = peer.at.place => target.token = peer.at.token
Alive      == connected /\ conn # Nil /\ socket[conn] = "open"
Breaks     == SecureFails \/ \E c \in Conns : socket[c] = "open" /\ socket'[c] = "lost"

Reconnects ==
  <>[](peer.up /\ TokenHolds) /\ <>[][peer' = peer /\ ~Breaks]_vars =>
    \/ []<>(Alive \/ cancelled \/ pc \in Over)
    \/ <>[]Hangs \/ <>[](pc = "forward")
=============================================================================
