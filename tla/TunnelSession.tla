---------------------------- MODULE TunnelSession ----------------------------
(***************************************************************************)
(* One rule across two agents: the entry forwarder accepts TCP connections *)
(* and multiplexes them over a tunnel to the exit forwarder, which dials   *)
(* the target for each (internal/forwarder/entry.go, exit.go, common.go;   *)
(* internal/tunnel/client*.go, server.go and their TLS twins).  Goroutines *)
(* of a side: a pump for every connection, which reads its socket and      *)
(* sends into the tunnel; the write loop of every connection; the read     *)
(* loop of every tunnel, which queues for the write loops.  The client     *)
(* dials a new tunnel when one is lost, and the agent may restart the exit *)
(* forwarder under a tunnel that stays.  A step is one operation on a      *)
(* socket, a channel or a locked map.  Bytes are numbered reads.           *)
(***************************************************************************)
EXTENDS Integers, Sequences

CONSTANTS
  Conns,      \* TCP connections of one life of the entry forwarder, by connection id
  MaxTunnels, \* bound: tunnel connections
  MaxExits,   \* bound: exit forwarders of the rule, one after the other
  Capacity,   \* of a write queue
  MaxReads,   \* bound: reads that return data at an end of a connection, by side
  MaxFaults,  \* bound: tunnels lost or given up, exit forwarders stopped
  None

Tunnels == 1..MaxTunnels  \* in the order they are dialled
Exits   == 1..MaxExits    \* in the order they are made

Sides == {"entry", "exit"}
Other(s) == IF s = "entry" THEN "exit" ELSE "entry"

(* Read loops: one of the client, one of the server for every tunnel.      *)
ClientLoop == 0
Loops == {ClientLoop} \cup Tunnels
SideOf(l) == IF l = ClientLoop THEN "entry" ELSE "exit"

Messages == [type : {"connect", "data", "close"}, conn : Conns, item : Nat]
Message(type, k, i) == [type |-> type, conn |-> k, item |-> i]

ASSUME SessionAssumption ==
  /\ MaxTunnels \in Nat \ {0} /\ MaxExits \in Nat \ {0}
  /\ Capacity \in Nat \ {0} /\ MaxReads \in [Sides -> Nat] /\ MaxFaults \in Nat
  /\ None \notin Nat /\ None \notin Conns /\ None \notin [conn : Conns, item : Nat]

VARIABLES
  link,     \* the state of each tunnel connection
  wire,     \* wire[s][t]: what side s has written to t and the other has not read
  tunnel,   \* Client.conn
  server,   \* the next step of handleTunnel for each tunnel
  captured, \* its local variable handler
  current,  \* Server.connHandler
  overtaken,\* history: tunnels whose adopted handler was itself replaced meanwhile
  handler,  \* Server.handlers of the rule
  exits,    \* what became of each exit forwarder
  sender,   \* its field tunnel
  owner,    \* the exit forwarder that dialled the target of a connection
  end,      \* the two ends of every connection
  hand,     \* the data a read loop is about to queue, past every look at closed
  panic,    \* what ended a process, if anything
  faults    \* number of losses and restarts

net    == <<link, wire, tunnel>>
setup  == <<server, captured, current, overtaken>>
swap   == <<handler, exits, sender>>
vars   == <<net, setup, swap, owner, end, hand, panic, faults>>

(* held: in the map conns.  state and queue: of its connState.  pump: the  *)
(* next step of handleTCPConn or readFromTarget.  got: what its write loop *)
(* has written.  peer: has the outside closed its end?                     *)
Ends == [held : BOOLEAN, state : {"none", "open", "failed", "closed"}, queue : Seq(Nat),
         pump : {"off", "connect", "read", "send", "closing", "done"},
         read : Nat, got : Seq(Nat), peer : {"open", "closed"}]

TypeOK ==
  /\ link \in [Tunnels -> {"new", "up", "lost"}]
  /\ wire \in [Sides -> [Tunnels -> Seq(Messages)]]
  /\ tunnel \in Tunnels \cup {None}
  /\ server \in [Tunnels -> {"off", "choose", "register", "recheck", "adopt", "sender", "read", "gone"}]
  /\ captured \in [Tunnels -> Exits \cup {None}] /\ current \in [Tunnels -> Exits \cup {None}]
  /\ overtaken \subseteq Tunnels
  /\ handler \in Exits \cup {None}
  /\ exits \in [Exits -> {"new", "published", "notified", "added", "running", "stopping", "stopped"}]
  /\ sender \in [Exits -> Tunnels \cup {None}]
  /\ owner \in [Conns -> Exits \cup {None}]
  /\ end \in [Sides -> [Conns -> Ends]]
  /\ \A s \in Sides, k \in Conns : /\ Len(end[s][k].queue) <= Capacity
                                   /\ end[s][k].read <= MaxReads[s]
  /\ hand \in [Loops -> [conn : Conns, item : Nat] \cup {None}]
  /\ panic \in {"no", "send on closed", "nil context"}
  /\ faults \in 0..MaxFaults

Init ==
  /\ link = [t \in Tunnels |-> IF t = 1 THEN "up" ELSE "new"]
  /\ wire = [s \in Sides |-> [t \in Tunnels |-> <<>>]]
  /\ tunnel = 1
  /\ server = [t \in Tunnels |-> IF t = 1 THEN "choose" ELSE "off"]
  /\ captured = [t \in Tunnels |-> None] /\ current = [t \in Tunnels |-> None]
  /\ overtaken = {}
  /\ handler = None /\ exits = [x \in Exits |-> "new"] /\ sender = [x \in Exits |-> None]
  /\ owner = [k \in Conns |-> None]
  /\ end = [s \in Sides |-> [k \in Conns |->
       [held |-> FALSE, state |-> "none", queue |-> <<>>, pump |-> "off",
        read |-> 0, got |-> <<>>, peer |-> "open"]]]
  /\ hand = [l \in Loops |-> None]
  /\ panic = "no" /\ faults = 0

-----------------------------------------------------------------------------
(* SendMessage.  A write to a lost tunnel may still return no error; an    *)
(* exit forwarder without a sender sends nothing and goes on.              *)
Route(s, k) == IF s = "entry" THEN tunnel ELSE sender[owner[k]]

CanSend(s, k) == s = "exit" \/ tunnel # None

CanFail(s, k) == LET t == Route(s, k) IN
  IF t = None THEN s = "entry" ELSE link[t] = "lost"

Put(w, s, k, m) == LET t == Route(s, k) IN
  IF t = None \/ link[t] # "up" THEN w ELSE [w EXCEPT ![s][t] = Append(@, m)]

(* connState.Close: what is still queued is dropped. *)
Shut(c) == [c EXCEPT !.state = IF @ = "none" THEN @ ELSE "closed", !.queue = <<>>]

(* Mutant: the other side is not told. *)
CloseConnSilently(s, k, w, c) ==
  /\ end' = [end EXCEPT ![s][k] = IF c.held THEN [Shut(c) EXCEPT !.held = FALSE] ELSE c]
  /\ wire' = w

(* closeTCPConn, with c for the end as the caller has left it: whoever     *)
(* takes the connection out of the map closes it and sends Close.          *)
CloseConn(s, k, w, c) ==
  /\ end' = [end EXCEPT ![s][k] = IF c.held THEN [Shut(c) EXCEPT !.held = FALSE] ELSE c]
  /\ wire' = IF c.held THEN Put(w, s, k, Message("close", k, 0)) ELSE w

-----------------------------------------------------------------------------
(* The pump of a connection. *)

(* tcpAcceptLoop, handleTCPConn; a connection the breaker rejects is       *)
(* closed at once and leaves no trace.                                     *)
Accept(k) ==
  /\ end["entry"][k].pump = "off"
  /\ end' = [end EXCEPT !["entry"][k].pump = "connect", !["entry"][k].held = TRUE,
                        !["entry"][k].state = "open"]
  /\ UNCHANGED <<net, setup, swap, owner, hand, panic, faults>>

PumpGoto(s, k, l) == end' = [end EXCEPT ![s][k].pump = l]

(* The Connect message, or the Data message for the last read. *)
Send(s, k) ==
  LET c == end[s][k]
      m == IF c.pump = "connect" THEN Message("connect", k, 0) ELSE Message("data", k, c.read)
  IN /\ c.pump \in {"connect", "send"}
     /\ \/ CanSend(s, k) /\ PumpGoto(s, k, "read") /\ wire' = Put(wire, s, k, m)
        \/ CanFail(s, k) /\ PumpGoto(s, k, "closing") /\ UNCHANGED wire
     /\ UNCHANGED <<link, tunnel, setup, swap, owner, hand, panic, faults>>

(* readFromTarget looks at the context of its forwarder, which Start sets. *)
Started(s, k) == s = "exit" => exits[owner[k]] \in {"running", "stopping", "stopped"}
Stopped(s, k) == s = "exit" /\ exits[owner[k]] \in {"stopping", "stopped"}

ReadData(s, k) ==
  LET c == end[s][k] IN
  /\ c.pump = "read" /\ Started(s, k) /\ ~Stopped(s, k)
  /\ c.state # "closed" /\ c.peer = "open" /\ c.read < MaxReads[s]
  /\ end' = [end EXCEPT ![s][k].pump = "send", ![s][k].read = @ + 1]
  /\ UNCHANGED <<net, setup, swap, owner, hand, panic, faults>>

(* Mutant: closing the connState leaves the socket, and Read, as they are. *)
ReadEndsByPeer(s, k) ==
  LET c == end[s][k] IN
  /\ c.pump = "read" /\ Started(s, k)
  /\ c.peer = "closed" \/ Stopped(s, k)
  /\ PumpGoto(s, k, "closing")
  /\ UNCHANGED <<net, setup, swap, owner, hand, panic, faults>>

ReadEnds(s, k) ==
  LET c == end[s][k] IN
  /\ c.pump = "read" /\ Started(s, k)
  /\ c.state = "closed" \/ c.peer = "closed" \/ Stopped(s, k)
  /\ PumpGoto(s, k, "closing")
  /\ UNCHANGED <<net, setup, swap, owner, hand, panic, faults>>

ReadPanics(k) ==
  /\ end["exit"][k].pump = "read" /\ ~Started("exit", k)
  /\ panic' = "nil context"
  /\ UNCHANGED <<net, setup, swap, owner, end, hand, faults>>

(* The deferred closeTCPConn. *)
EndPump(s, k) ==
  /\ end[s][k].pump = "closing"
  /\ CloseConn(s, k, wire, [end[s][k] EXCEPT !.pump = "done"])
  /\ UNCHANGED <<link, tunnel, setup, swap, owner, hand, panic, faults>>

(* Mutant: an item that may have been written is kept, to be tried again.  *)
DeliverAgain(s, k) ==
  LET c == end[s][k] IN
  /\ c.state = "open" /\ c.queue # <<>> /\ Len(c.got) < 3
  /\ \E q \in {c.queue, Tail(c.queue)} :
       end' = [end EXCEPT ![s][k].queue = q, ![s][k].got = Append(@, Head(c.queue))]
  /\ UNCHANGED <<net, setup, swap, owner, hand, panic, faults>>

(* writeLoop: a failed write ends it, and marks the connection.            *)
Deliver(s, k) ==
  LET c == end[s][k] IN
  /\ c.state = "open" /\ c.queue # <<>>
  /\ end' = [end EXCEPT ![s][k] =
       [c EXCEPT !.queue = Tail(@), !.got = Append(@, Head(c.queue))]]
  /\ UNCHANGED <<net, setup, swap, owner, hand, panic, faults>>

DeliveryFails(s, k) ==
  LET c == end[s][k] IN
  /\ c.state = "open" /\ c.queue # <<>> /\ c.peer = "closed"
  /\ end' = [end EXCEPT ![s][k] = [c EXCEPT !.queue = Tail(@), !.state = "failed"]]
  /\ UNCHANGED <<net, setup, swap, owner, hand, panic, faults>>

OutsideCloses(s, k) ==
  /\ end[s][k].state # "none" /\ end[s][k].peer = "open"
  /\ end' = [end EXCEPT ![s][k].peer = "closed"]
  /\ UNCHANGED <<net, setup, swap, owner, hand, panic, faults>>

-----------------------------------------------------------------------------
(* The read loops: readLoop, handleMessage and the handlers. *)

(* The tunnel a loop reads, the first message on it, and what remains.     *)
Source(l) == IF l = ClientLoop THEN tunnel ELSE l
Reading(l) == /\ hand[l] = None
              /\ IF l = ClientLoop THEN tunnel # None ELSE server[l] = "read"
Pending(l) == wire[Other(SideOf(l))][Source(l)]
Rest(l) == [wire EXCEPT ![Other(SideOf(l))][Source(l)] = Tail(@)]

(* Is the connection in the map of the forwarder that handles the message? *)
Has(l, k) == /\ end[SideOf(l)][k].held
             /\ l # ClientLoop => owner[k] = current[l]

(* HandleData and Write up to the send: closed connections are skipped.    *)
ReceiveData(l) ==
  /\ Reading(l) /\ Pending(l) # <<>> /\ Head(Pending(l)).type = "data"
  /\ LET m == Head(Pending(l)) IN
     hand' = IF Has(l, m.conn) /\ end[SideOf(l)][m.conn].state = "open"
             THEN [hand EXCEPT ![l] = [conn |-> m.conn, item |-> m.item]] ELSE hand
  /\ wire' = Rest(l)
  /\ UNCHANGED <<link, tunnel, setup, swap, owner, end, panic, faults>>

Queued(c, i) == [c EXCEPT !.queue = Append(@, i)]

(* Mutant: the capacity of the channel is not respected. *)
EnqueueUnbounded(l, s, k, i) ==
  /\ end[s][k].state \in {"open", "failed"}
  /\ end' = [end EXCEPT ![s][k] = Queued(@, i)]
  /\ UNCHANGED wire

(* Mutant: data that finds the queue full is dropped. *)
EnqueueOrDrop(l, s, k, i) ==
  LET c == end[s][k] IN
  /\ c.state \in {"open", "failed"}
  /\ end' = IF Len(c.queue) < Capacity THEN [end EXCEPT ![s][k] = Queued(c, i)] ELSE end
  /\ UNCHANGED wire

(* Write sends on the queue, or after its timeout on a full one returns    *)
(* ErrQueueFull; it returns ErrClosed if it is only its own look at closed *)
(* that finds the connection so.  On an error HandleData closes it.        *)
Enqueue(l, s, k, i) ==
  LET c == end[s][k] IN
  \/ /\ c.state \in {"open", "failed"} /\ Len(c.queue) < Capacity
     /\ end' = [end EXCEPT ![s][k] = Queued(c, i)]
     /\ UNCHANGED wire
  \/ /\ c.state \in {"failed", "closed"} \/ Len(c.queue) >= Capacity
     /\ CloseConn(s, k, wire, c)

Write(l) ==
  /\ hand[l] # None
  /\ Enqueue(l, SideOf(l), hand[l].conn, hand[l].item)
  /\ hand' = [hand EXCEPT ![l] = None]
  /\ UNCHANGED <<link, tunnel, setup, swap, owner, panic, faults>>

(* Closed between the look and the send, the channel panics: also while    *)
(* the send waits for room.                                                *)
WritePanics(l) ==
  /\ hand[l] # None /\ end[SideOf(l)][hand[l].conn].state = "closed"
  /\ panic' = "send on closed"
  /\ UNCHANGED <<net, setup, swap, owner, end, hand, faults>>

ReceiveClose(l) ==
  /\ Reading(l) /\ Pending(l) # <<>> /\ Head(Pending(l)).type = "close"
  /\ LET k == Head(Pending(l)).conn IN
     IF Has(l, k) THEN CloseConn(SideOf(l), k, Rest(l), end[SideOf(l)][k])
                  ELSE wire' = Rest(l) /\ UNCHANGED end
  /\ UNCHANGED <<link, tunnel, setup, swap, owner, hand, panic, faults>>

(* HandleConnect: the target is dialled by the read loop itself; the       *)
(* breaker may forbid it, and it may fail.                                 *)
ReceiveConnect(t) ==
  /\ Reading(t) /\ Pending(t) # <<>> /\ Head(Pending(t)).type = "connect"
  /\ LET k == Head(Pending(t)).conn IN
     /\ owner' = [owner EXCEPT ![k] = current[t]]
     /\ \/ /\ end' = [end EXCEPT !["exit"][k].held = TRUE, !["exit"][k].state = "open",
                                 !["exit"][k].pump = "read"]
           /\ wire' = Rest(t)
        \/ /\ UNCHANGED end
           /\ LET x == sender[current[t]] IN
              wire' = IF x = None \/ link[x] # "up" THEN Rest(t)
                      ELSE [Rest(t) EXCEPT !["exit"][x] = Append(@, Message("close", k, 0))]
  /\ UNCHANGED <<link, tunnel, setup, swap, hand, panic, faults>>

-----------------------------------------------------------------------------
(* Loss of a tunnel, and the client's reconnect. *)

Fault == faults < MaxFaults /\ faults' = faults + 1

Prefixes(q) == {SubSeq(q, 1, n) : n \in 0..Len(q)}

(* Some of what is under way still arrives. *)
Lose(t) ==
  /\ link[t] = "up" /\ Fault
  /\ link' = [link EXCEPT ![t] = "lost"]
  /\ \E p \in Prefixes(wire["entry"][t]), q \in Prefixes(wire["exit"][t]) :
       wire' = [wire EXCEPT !["entry"][t] = p, !["exit"][t] = q]
  /\ UNCHANGED <<tunnel, setup, swap, owner, end, hand, panic>>

(* The client's read fails: readLoop clears the connection first. *)
ReadFails ==
  /\ Reading(ClientLoop) /\ link[tunnel] = "lost" /\ Pending(ClientLoop) = <<>>
  /\ tunnel' = None
  /\ UNCHANGED <<link, wire, setup, swap, owner, end, hand, panic, faults>>

(* reconnect and connect; the server's performHandshake. *)
Dial ==
  /\ tunnel = None
  /\ \E t \in Tunnels :
       /\ link[t] = "new" /\ \A u \in Tunnels : u < t => link[u] # "new"
       /\ tunnel' = t
       /\ link' = [link EXCEPT ![t] = "up"]
       /\ server' = [server EXCEPT ![t] = "choose"]
  /\ UNCHANGED <<wire, captured, current, overtaken, swap, owner, end, hand, panic, faults>>

-----------------------------------------------------------------------------
(* handleTunnel. *)

ServerGoto(t, l) == server' = [server EXCEPT ![t] = l]

Choose(t) ==
  /\ server[t] = "choose" /\ handler # None
  /\ captured' = [captured EXCEPT ![t] = handler]
  /\ ServerGoto(t, "register")
  /\ UNCHANGED <<net, current, overtaken, swap, owner, end, hand, panic, faults>>

(* Ten looks, half a second apart, found no handler. *)
GiveUp(t) ==
  /\ server[t] = "choose" /\ handler = None /\ Fault
  /\ link' = [link EXCEPT ![t] = "lost"]
  /\ wire' = [wire EXCEPT !["entry"][t] = <<>>]
  /\ ServerGoto(t, "gone")
  /\ UNCHANGED <<tunnel, captured, current, overtaken, swap, owner, end, hand, panic>>

Register(t) ==
  /\ server[t] = "register"
  /\ current' = [current EXCEPT ![t] = captured[t]]
  /\ ServerGoto(t, "recheck")
  /\ UNCHANGED <<net, captured, overtaken, swap, owner, end, hand, panic, faults>>

(* Mutant: the handler is not looked at again. *)
RecheckNever(t) ==
  /\ server[t] = "recheck"
  /\ ServerGoto(t, "sender")
  /\ UNCHANGED <<net, captured, current, overtaken, swap, owner, end, hand, panic, faults>>

Recheck(t) ==
  /\ server[t] = "recheck"
  /\ captured' = [captured EXCEPT ![t] = handler]
  /\ ServerGoto(t, IF handler = captured[t] THEN "sender" ELSE "adopt")
  /\ UNCHANGED <<net, current, overtaken, swap, owner, end, hand, panic, faults>>

(* AddHandler may have replaced this handler as well, and have gone past    *)
(* this tunnel.                                                            *)
Adopt(t) ==
  /\ server[t] = "adopt"
  /\ current' = [current EXCEPT ![t] = captured[t]]
  /\ overtaken' = IF captured[t] = handler THEN overtaken ELSE overtaken \cup {t}
  /\ ServerGoto(t, "sender")
  /\ UNCHANGED <<net, captured, swap, owner, end, hand, panic, faults>>

SetSender(t) ==
  /\ server[t] = "sender"
  /\ sender' = [sender EXCEPT ![captured[t]] = t]
  /\ ServerGoto(t, "read")
  /\ UNCHANGED <<net, captured, current, overtaken, handler, exits, owner, end, hand, panic, faults>>

(* OnTunnelDisconnect: every connection is closed, and stays in the map    *)
(* for its pump to take out.                                               *)
ShutAll(x) == [end EXCEPT !["exit"] = [k \in Conns |->
  IF @[k].held /\ owner[k] = x THEN Shut(@[k]) ELSE @[k]]]

(* The read fails: the handler captured above is told. *)
Disconnect(t) ==
  /\ server[t] = "read" /\ hand[t] = None /\ link[t] = "lost" /\ Pending(t) = <<>>
  /\ end' = ShutAll(captured[t])
  /\ current' = [current EXCEPT ![t] = None]
  /\ ServerGoto(t, "gone")
  /\ UNCHANGED <<net, captured, overtaken, swap, owner, hand, panic, faults>>

-----------------------------------------------------------------------------
(* The agent's startForwarder and stopForwarder, and AddHandler. *)

ExitGoto(x, l) == exits' = [exits EXCEPT ![x] = l]

(* AddHandler: the first handler of a rule has nothing to replace. *)
Publish(x) ==
  /\ exits[x] = "new" /\ \A y \in Exits : y < x => exits[y] = "stopped"
  /\ handler' = x
  /\ ExitGoto(x, IF handler = None THEN "added" ELSE "published")
  /\ UNCHANGED <<net, setup, sender, owner, end, hand, panic, faults>>

Notify(x) ==
  /\ exits[x] = "published"
  /\ end' = ShutAll(x - 1)
  /\ ExitGoto(x, "notified")
  /\ UNCHANGED <<net, setup, handler, sender, owner, hand, panic, faults>>

(* Under connMu: every registered tunnel is given the new handler, which   *)
(* keeps the last of them, in no particular order, as its sender.          *)
Rewire(x) ==
  LET registered == {t \in Tunnels : current[t] # None} IN
  /\ exits[x] = "notified"
  /\ current' = [t \in Tunnels |-> IF t \in registered THEN x ELSE None]
  /\ \E t \in IF registered = {} THEN {sender[x]} ELSE registered :
       sender' = [sender EXCEPT ![x] = t]
  /\ overtaken' = {}
  /\ ExitGoto(x, "added")
  /\ UNCHANGED <<net, server, captured, handler, owner, end, hand, panic, faults>>

(* ExitForwarder.Start. *)
Start(x) ==
  /\ exits[x] = "added"
  /\ ExitGoto(x, "running")
  /\ UNCHANGED <<net, setup, handler, sender, owner, end, hand, panic, faults>>

(* ExitForwarder.Stop: no Close is sent, and the map is cleared.           *)
Stop(x) ==
  /\ exits[x] = "running" /\ x + 1 \in Exits /\ Fault
  /\ end' = [ShutAll(x) EXCEPT !["exit"] = [k \in Conns |->
               IF owner[k] = x THEN [@[k] EXCEPT !.held = FALSE] ELSE @[k]]]
  /\ ExitGoto(x, "stopping")
  /\ UNCHANGED <<net, setup, handler, sender, owner, hand, panic>>

(* Its wg.Wait. *)
StopReturns(x) ==
  /\ exits[x] = "stopping"
  /\ \A k \in Conns : owner[k] = x => end["exit"][k].pump \in {"off", "done"}
  /\ ExitGoto(x, "stopped")
  /\ UNCHANGED <<net, setup, handler, sender, owner, end, hand, panic, faults>>

-----------------------------------------------------------------------------
Pump(s, k) == Send(s, k) \/ ReadEnds(s, k) \/ EndPump(s, k)

Loop(l) == ReceiveData(l) \/ Write(l) \/ ReceiveClose(l)

HandleTunnel(t) ==
  \/ Choose(t) \/ Register(t) \/ Recheck(t) \/ Adopt(t) \/ SetSender(t)
  \/ Loop(t) \/ ReceiveConnect(t) \/ Disconnect(t)

Client == ReadFails \/ Dial \/ Loop(ClientLoop)

Agent(x) == Publish(x) \/ Notify(x) \/ Rewire(x) \/ Start(x) \/ StopReturns(x)

Running ==
  \/ Client
  \/ \E s \in Sides, k \in Conns :
       \/ Pump(s, k) \/ Deliver(s, k)
       \/ ReadData(s, k) \/ DeliveryFails(s, k) \/ OutsideCloses(s, k)
  \/ \E k \in Conns : Accept(k) \/ ReadPanics(k)
  \/ \E l \in Loops : WritePanics(l)
  \/ \E t \in Tunnels : HandleTunnel(t) \/ Lose(t) \/ GiveUp(t)
  \/ \E x \in Exits : Agent(x) \/ Stop(x)

(* A panic ends the process it happens in: the model stops with it. *)
Next == panic = "no" /\ Running

Spec == Init /\ [][Next]_vars

(* The scheduler runs every goroutine that can run.  Nothing is assumed of *)
(* clients and targets, nor of the network: reads may never return data.   *)
FairSpec ==
  /\ Spec
  /\ WF_vars(panic = "no" /\ Client)
  /\ \A s \in Sides, k \in Conns : WF_vars(panic = "no" /\ Pump(s, k))
  /\ \A t \in Tunnels : WF_vars(panic = "no" /\ HandleTunnel(t))
  /\ \A x \in Exits : WF_vars(panic = "no" /\ Agent(x))

-----------------------------------------------------------------------------
Faulty == panic # "no" \/ faults > 0

Sent(s, k) == end[s][k].read - (IF end[s][k].pump = "send" THEN 1 ELSE 0)

(* What is on the way to an end: the item its read loop has in hand, if    *)
(* any, and the places of its data in the tunnel.                          *)
InHand(s, k) ==
  LET h == hand[IF s = "entry" THEN ClientLoop ELSE 1]
  IN IF h # None /\ h.conn = k THEN {h.item} ELSE {}

Places(q, k) == {p \in 1..Len(q) : q[p].type = "data" /\ q[p].conn = k}

(* As long as no tunnel is lost and no forwarder restarted, what an end    *)
(* writes is what the other end has read, in order and without a gap; and  *)
(* while it is open nothing of it is lost: what was sent is in its queue,  *)
(* then in the hand of its read loop, then in the tunnel.                  *)
StreamIntact ==
  faults = 0 => \A s \in Sides, k \in Conns :
    LET c == end[s][k]
        written == Len(c.got)
        taken == written + Len(c.queue)
        q == wire[Other(s)][1]
    IN /\ \A i \in 1..written : c.got[i] = i
       /\ c.state = "open" =>
            /\ \A i \in 1..Len(c.queue) : c.queue[i] = written + i
            /\ InHand(s, k) \subseteq {taken + 1}
            /\ {q[p].item : p \in Places(q, k)} = (taken + 1)..Sent(Other(s), k) \ InHand(s, k)
            /\ \A p, r \in Places(q, k) : p < r => q[p].item < q[r].item

(* The double check of handleTunnel and the loop of AddHandler between     *)
(* them leave no tunnel with a handler that has been replaced, unless the  *)
(* handler the double check found is replaced before it is adopted.        *)
HotSwapReachesAll ==
  handler # None /\ exits[handler] \notin {"published", "notified"} =>
    \A t \in Tunnels \ overtaken :
      server[t] \in {"sender", "read"} => current[t] = handler

(* A connection that has been closed leaves no goroutine behind, however   *)
(* it was closed: by its peer, a full queue, a lost tunnel or a restart.   *)
ConnsEnd ==
  \A s \in Sides, k \in Conns :
    end[s][k].state = "closed" ~> (end[s][k].pump = "done" \/ panic # "no")

(* When one end is done the other end ends as well, unless the tunnel or   *)
(* the exit forwarder is lost: nobody tells the entry of that.             *)
EndsTogether ==
  <>[](\/ Faulty
       \/ \A k \in Conns :
            /\ end["entry"][k].pump = "done" => end["exit"][k].pump \in {"off", "done"}
            /\ end["exit"][k].pump = "done" => end["entry"][k].pump = "done")

(* What is delivered at an end was read at the other, once, and in order   *)
(* and without a gap until the first loss; a closed end delivers nothing:  *)
(* also when a tunnel is lost with data on both sides of it, when two read *)
(* loops serve one connection, and when the exit forwarder is replaced.    *)
Abstract == INSTANCE Channels WITH
  sent   <- [s \in Sides |-> [k \in Conns |-> end[s][k].read]],
  got    <- [s \in Sides |-> [k \in Conns |-> end[s][k].got]],
  ended  <- [s \in Sides |-> [k \in Conns |-> end[s][k].state = "closed"]],
  broken <- faults > 0

ImplementsChannels == Abstract!Spec
=============================================================================
