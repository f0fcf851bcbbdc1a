------------------------------ MODULE HubConn -------------------------------
(***************************************************************************)
(* The agent's connection to its hub: HubConn (internal/forward/hub.go)    *)
(* and the loop that makes a new one when it is lost (internal/agent/      *)
(* hub.go).  Goroutines: hubLoop, and of each connection Run, readPump and *)
(* writePump, which may outlive the connection.  A step is one channel or  *)
(* socket operation, or one critical section of hc.mu.  What is sent is    *)
(* left out: Send never blocks and changes nothing the others read.        *)
(***************************************************************************)
EXTENDS ConfigFile, FiniteSets

CONSTANTS
  Conns,       \* identities of connections; reused once their goroutines have ended
  Capacity,    \* of the Events channel
  MaxChanges,  \* bound: api_url_changed commands the server sends
  None

(* config_sync or probe_task; a command; the command api_url_changed *)
Messages == {"event", "command", "api"}

ASSUME HubAssumption ==
  /\ Savers = Conns \cup {"hub"} /\ "hub" \notin Conns
  /\ None \notin Conns /\ None \notin Messages
  /\ Capacity \in Nat \ {0} /\ MaxChanges \in Nat

VARIABLES
  reachable,  \* can the hub be reached?
  changes,    \* api_url_changed commands sent
  process,    \* "running", or how the process ended
  cancelled,  \* is a.ctx done?
  hub, cur,   \* hubLoop's next step, and the connection it serves
  link,       \* the websocket
  closed,     \* the connections with hc.closed; hc.done is closed with it
  shut,       \* the connections whose Events channel is closed
  queue,      \* what it holds
  runner, reader, writer, \* the next step of Run, readPump and writePump
  msg         \* the message readPump has read

env   == <<reachable, changes>>
loop  == <<hub, cur>>
conns == <<link, closed, shut, queue, runner, reader, writer, msg>>
vars  == <<env, process, cancelled, loop, conns, fileVars>>

Endings == {"stopped", "exited", "sent on closed", "closed twice"}
HubPCs  == {"dial", "serve", "handle", "save", "leave", "events", "socket", "backoff", "end"}

TypeOK ==
  /\ FileTypeOK
  /\ reachable \in BOOLEAN /\ changes \in 0..MaxChanges
  /\ process \in {"running"} \cup Endings /\ cancelled \in BOOLEAN
  /\ hub \in HubPCs /\ cur \in Conns \cup {None}
  /\ hub \in {"serve", "handle", "save", "leave", "events", "socket"} => cur \in Conns
  /\ link \in [Conns -> {"none", "up", "down"}]
  /\ closed \subseteq Conns /\ shut \subseteq Conns
  /\ queue \in [Conns -> Seq(Messages)] /\ \A c \in Conns : Len(queue[c]) <= Capacity
  /\ runner \in [Conns -> {"off", "wait", "events", "socket", "done"}]
  /\ reader \in [Conns -> {"off", "read", "dispatch", "handle", "save"}]
  /\ writer \in [Conns -> {"off", "on"}]
  /\ msg \in [Conns -> Messages \cup {None}]

Init ==
  /\ FileInit
  /\ reachable = TRUE /\ changes = 0 /\ process = "running" /\ cancelled = FALSE
  /\ hub = "dial" /\ cur = None
  /\ link = [c \in Conns |-> "none"]
  /\ closed = {} /\ shut = {}
  /\ queue = [c \in Conns |-> <<>>] /\ msg = [c \in Conns |-> None]
  /\ runner = [c \in Conns |-> "off"] /\ reader = [c \in Conns |-> "off"]
  /\ writer = [c \in Conns |-> "off"]

-----------------------------------------------------------------------------
(* The network, the server and the operator. *)

Network ==
  /\ reachable' = ~reachable
  /\ link' = [c \in Conns |-> IF reachable /\ link[c] = "up" THEN "down" ELSE link[c]]
  /\ UNCHANGED <<changes, process, cancelled, loop, closed, shut, queue, runner, reader, writer,
                 msg, fileVars>>

(* The server drops the connection, or a pong does not arrive in time:     *)
(* also because readPump was busy with a command for longer than that.     *)
LoseLink(c) ==
  /\ link[c] = "up"
  /\ link' = [link EXCEPT ![c] = "down"]
  /\ UNCHANGED <<env, process, cancelled, loop, closed, shut, queue, runner, reader, writer,
                 msg, fileVars>>

(* SIGTERM: Agent.Stop cancels the context. *)
Cancel ==
  /\ process = "running" /\ ~cancelled /\ cancelled' = TRUE
  /\ UNCHANGED <<env, process, loop, conns, fileVars>>

(* The process ends and its goroutines with it; the file stays as it is.   *)
Die(how) ==
  /\ process' = how /\ cancelled' = FALSE
  /\ hub' = "dial" /\ cur' = None
  /\ link' = [c \in Conns |-> "none"]
  /\ closed' = {} /\ shut' = {}
  /\ queue' = [c \in Conns |-> <<>>] /\ msg' = [c \in Conns |-> None]
  /\ runner' = [c \in Conns |-> "off"] /\ reader' = [c \in Conns |-> "off"]
  /\ writer' = [c \in Conns |-> "off"]
  /\ ForgetSavers
  /\ UNCHANGED <<env, file>>

(* Stop waits for hubLoop. *)
StopProcess == cancelled /\ hub = "end" /\ Die("stopped")

HasToken == \E i \in DOMAIN file : file[i] = "token"

(* The service manager starts the agent again; without a token it gives up *)
(* at once.                                                                *)
Restart ==
  /\ process # "running"
  /\ process' = IF HasToken THEN "running" ELSE process
  /\ UNCHANGED <<env, cancelled, loop, conns, fileVars>>

-----------------------------------------------------------------------------
(* HubConn.Close, for the goroutine that runs it: under hc.mu the flag,    *)
(* then the Events channel, then the socket.                               *)

(* Mutant: the flag is not consulted. *)
MarkAlways(c, yes, no) == closed' = closed \cup {c} /\ yes

(* The first to close goes on with yes, any other with no. *)
MarkClosed(c, yes, no) ==
  \/ c \notin closed /\ closed' = closed \cup {c} /\ yes
  \/ c \in closed /\ UNCHANGED closed /\ no

(* Closing a closed channel panics. *)
CloseEvents(c, go) ==
  IF c \notin shut
  THEN /\ shut' = shut \cup {c} /\ go
       /\ UNCHANGED <<env, process, cancelled, cur, link, closed, queue, reader,
                      writer, msg, fileVars>>
  ELSE Die("closed twice")

(* Mutant: the socket is left to the peer. *)
SocketLeft(c) == UNCHANGED link

CloseSocket(c) == link' = [link EXCEPT ![c] = "down"]

-----------------------------------------------------------------------------
(* runHubWithReconnect and runHubOnce. *)

HubGoto(l) == hub' = l

Idle(c) == /\ runner[c] \in {"off", "done"} /\ reader[c] = "off" /\ writer[c] = "off"

(* ConnectHub, the message handler, then Run with its two pumps.           *)
Dial ==
  /\ process = "running" /\ hub = "dial" /\ ~cancelled /\ reachable
  /\ \E c \in Conns :
       /\ Idle(c)
       /\ cur' = c
       /\ link' = [link EXCEPT ![c] = "up"]
       /\ closed' = closed \ {c} /\ shut' = shut \ {c}
       /\ queue' = [queue EXCEPT ![c] = <<>>]
       /\ runner' = [runner EXCEPT ![c] = "wait"]
       /\ reader' = [reader EXCEPT ![c] = "read"] /\ writer' = [writer EXCEPT ![c] = "on"]
  /\ HubGoto("serve")
  /\ UNCHANGED <<env, process, cancelled, msg, fileVars>>

(* Mutant: a failed dial ends the loop. *)
DialGivesUp ==
  /\ process = "running" /\ hub = "dial" /\ (cancelled \/ ~reachable)
  /\ HubGoto("end")
  /\ UNCHANGED <<env, process, cancelled, cur, conns, fileVars>>

DialFails ==
  /\ process = "running" /\ hub = "dial" /\ (cancelled \/ ~reachable)
  /\ HubGoto(IF cancelled THEN "end" ELSE "backoff")
  /\ UNCHANGED <<env, process, cancelled, cur, conns, fileVars>>

(* The select of runHubOnce takes any case that is ready: the context, the *)
(* result of Run, or the Events channel, closed and drained.               *)
LeaveLoop ==
  /\ hub = "serve"
  /\ cancelled \/ runner[cur] = "done" \/ (cur \in shut /\ queue[cur] = <<>>)
  /\ HubGoto("leave")
  /\ UNCHANGED <<env, process, cancelled, cur,  conns, fileVars>>

TakeEvent ==
  /\ hub = "serve" /\ queue[cur] # <<>>
  /\ queue' = [queue EXCEPT ![cur] = Tail(@)]
  /\ \/ Head(queue[cur]) # "api" /\ HubGoto("handle") /\ UNCHANGED fileVars
     \/ Head(queue[cur]) = "api" /\ HubGoto("save") /\ CallSave("hub")
  /\ UNCHANGED <<env, process, cancelled, cur, link, closed, shut, runner, reader,
                 writer, msg>>

(* handleConfigSync or a probe; or handleAPIURLChanged gives up.           *)
HandleEvent ==
  /\ \/ hub = "handle" /\ UNCHANGED fileVars
     \/ hub = "save" /\ ~Saved("hub") /\ SaveReturns("hub")
  /\ HubGoto("serve")
  /\ UNCHANGED <<env, process, cancelled, cur, conns>>

(* The deferred Close, then the backoff. *)
HubClose ==
  \/ /\ hub = "leave"
     /\ MarkClosed(cur, HubGoto("events"), HubGoto("backoff"))
     /\ UNCHANGED <<env, process, cancelled, cur, link, shut, queue, runner,
                    reader, writer, msg, fileVars>>
  \/ hub = "events" /\ CloseEvents(cur, HubGoto("socket") /\ UNCHANGED runner)
  \/ /\ hub = "socket" /\ CloseSocket(cur) /\ HubGoto("backoff")
     /\ UNCHANGED <<env, process, cancelled, cur, closed, shut, queue, runner,
                    reader, writer, msg, fileVars>>

(* What is left in the Events channel of a closed connection is dropped.  *)
Backoff ==
  /\ hub = "backoff"
  /\ HubGoto(IF cancelled THEN "end" ELSE "dial") /\ cur' = None
  /\ queue' = [c \in Conns |-> IF c = cur THEN <<>> ELSE queue[c]]
  /\ UNCHANGED <<env, process, cancelled, link, closed, shut, runner, reader, writer, msg, fileVars>>

-----------------------------------------------------------------------------
(* Run: when the first pump has ended, Close; then its result. *)

RunGoto(c, l) == runner' = [runner EXCEPT ![c] = l]

RunClose(c) ==
  \/ /\ runner[c] = "wait" /\ (reader[c] = "off" \/ writer[c] = "off")
     /\ MarkClosed(c, RunGoto(c, "events"), RunGoto(c, "done"))
     /\ UNCHANGED <<env, process, cancelled, loop, link, shut, queue, reader, writer, msg, fileVars>>
  \/ runner[c] = "events" /\ CloseEvents(c, RunGoto(c, "socket") /\ UNCHANGED hub)
  \/ /\ runner[c] = "socket" /\ CloseSocket(c) /\ RunGoto(c, "done")
     /\ UNCHANGED <<env, process, cancelled, loop, closed, shut, queue, reader, writer, msg, fileVars>>

-----------------------------------------------------------------------------
(* writePump ends with the context, with done, or when a write fails: on a *)
(* dead link the next ping does.  A write may also miss its deadline.      *)

WriterEnds(c) ==
  /\ writer[c] = "on" /\ (cancelled \/ c \in closed \/ link[c] = "down")
  /\ writer' = [writer EXCEPT ![c] = "off"]
  /\ UNCHANGED <<env, process, cancelled, loop, link, closed, shut, queue, runner, reader, msg, fileVars>>

WriteFails(c) ==
  /\ writer[c] = "on" /\ link[c] = "up"
  /\ writer' = [writer EXCEPT ![c] = "off"]
  /\ UNCHANGED <<env, process, cancelled, loop, link, closed, shut, queue, runner, reader, msg, fileVars>>

-----------------------------------------------------------------------------
(* readPump, dispatchEvent and the message handler. *)

ReadGoto(c, l) == reader' = [reader EXCEPT ![c] = l]

(* The loop looks at the context before each read. *)
NextRead(c) == ReadGoto(c, IF cancelled THEN "off" ELSE "read")

ReadFails(c) ==
  /\ reader[c] = "read" /\ link[c] = "down" /\ ReadGoto(c, "off")
  /\ UNCHANGED <<env, process, cancelled, loop, link, closed, shut, queue, runner, writer, msg, fileVars>>

Receive(c) ==
  /\ reader[c] = "read" /\ link[c] = "up"
  /\ \E m \in Messages :
       /\ m = "api" => changes < MaxChanges
       /\ changes' = IF m = "api" THEN changes + 1 ELSE changes
       /\ msg' = [msg EXCEPT ![c] = m]
       /\ ReadGoto(c, IF m = "command" THEN "handle" ELSE "dispatch")
  /\ UNCHANGED <<reachable, process, cancelled, loop, link, closed, shut, queue, runner, writer, fileVars>>

(* api_url_changed goes both to Events and to the handler. *)
AfterDispatch(c) ==
  \/ msg[c] = "event" /\ NextRead(c) /\ UNCHANGED fileVars
  \/ msg[c] = "api" /\ ReadGoto(c, "save") /\ CallSave(c)

(* Mutant: the capacity of the channel is not respected. *)
DispatchUnbounded(c) ==
  /\ reader[c] = "dispatch" /\ c \notin shut
  /\ queue' = [queue EXCEPT ![c] = Append(@, msg[c])]
  /\ msg' = [msg EXCEPT ![c] = None]
  /\ AfterDispatch(c)
  /\ UNCHANGED <<env, process, cancelled, loop, link, closed, shut, runner, writer>>

(* The select with a default drops the event if the channel is full.       *)
Dispatch(c) ==
  /\ reader[c] = "dispatch" /\ c \notin shut
  /\ queue' = IF Len(queue[c]) < Capacity
              THEN [queue EXCEPT ![c] = Append(@, msg[c])] ELSE queue
  /\ msg' = [msg EXCEPT ![c] = None]
  /\ AfterDispatch(c)
  /\ UNCHANGED <<env, process, cancelled, loop, link, closed, shut, runner, writer>>

(* On a closed channel the send is ready, and panics. *)
DispatchPanics(c) == reader[c] = "dispatch" /\ c \in shut /\ Die("sent on closed")

HandleCommand(c) ==
  /\ \/ reader[c] = "handle" /\ UNCHANGED fileVars
     \/ reader[c] = "save" /\ ~Saved(c) /\ SaveReturns(c)
  /\ NextRead(c) /\ msg' = [msg EXCEPT ![c] = None]
  /\ UNCHANGED <<env, process, cancelled, loop, link, closed, shut, queue, runner, writer>>

(* handleAPIURLChanged, by hubLoop or a readPump: once saved, os.Exit.     *)
SaveStep(s) == Save(s) /\ UNCHANGED <<env, process, cancelled, loop, conns>>
Exit(s)     == Saved(s) /\ Die("exited")

-----------------------------------------------------------------------------
Hub == Dial \/ DialFails \/ LeaveLoop \/ TakeEvent \/ HandleEvent \/ HubClose \/ Backoff

Reader(c) == ReadFails(c) \/ Dispatch(c) \/ DispatchPanics(c) \/ HandleCommand(c)

Saver(s) == SaveStep(s) \/ Exit(s)

Environment == Network \/ Cancel \/ (\E c \in Conns : LoseLink(c) \/ Receive(c) \/ WriteFails(c))

Next ==
  \/ Hub \/ StopProcess \/ Environment \/ Restart
  \/ \E c \in Conns : RunClose(c) \/ WriterEnds(c) \/ Reader(c)
  \/ \E s \in Savers : Saver(s)

Spec == Init /\ [][Next]_vars

(* The scheduler runs every goroutine that can run, the tickers fire, and  *)
(* the service manager restarts the process.                               *)
FairSpec ==
  /\ Spec
  /\ WF_vars(Hub \/ Saver("hub")) /\ WF_vars(StopProcess) /\ WF_vars(Restart)
  /\ \A c \in Conns : /\ WF_vars(RunClose(c)) /\ WF_vars(WriterEnds(c))
                      /\ WF_vars(Reader(c) \/ Saver(c))

-----------------------------------------------------------------------------
(* Run and the deferred Close of runHubOnce may both close the connection: *)
(* the Events channel is closed by one of them.                            *)
EventsClosedOnce == process # "closed twice"

(* Why: the flag makes one goroutine the closer, and the channel is open   *)
(* until that one has closed it.                                           *)
OneCloser ==
  /\ \A c \in Conns : /\ c \notin closed => c \notin shut /\ runner[c] # "events"
                      /\ runner[c] = "events" => c \notin shut
  /\ hub = "events" => cur \in closed /\ cur \notin shut /\ runner[cur] # "events"

(* A closed connection leaves no goroutine behind. *)
PumpsEnd == \A c \in Conns : c \in closed ~> (reader[c] = "off" /\ writer[c] = "off")

Connected == process = "running" /\ cur # None /\ link[cur] = "up" /\ cur \notin closed

(* While the hub can be reached, nobody stops the agent and its            *)
(* configuration is whole, it is connected again and again, whatever       *)
(* becomes of single connections.                                          *)
Reconnects == <>[](reachable /\ ~cancelled /\ HasToken) => []<>Connected
=============================================================================
