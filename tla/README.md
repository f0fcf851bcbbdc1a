# A TLA+ model of orris-client

orris-client is the node agent of a port-forwarding service.  A control server
gives each agent a set of rules; for each rule the agent runs a *forwarder*
(direct, entry, exit, relay, chain, SMUX ...), which may need a *tunnel* to
another agent.  The hard part is not the copying of bytes but what surrounds it:
several goroutines keep the running forwarders in step with rules that change
under them, and the forwarders keep many connections going over tunnels and
targets that come and go.

This directory holds TLA+ modules translated from the Go source, TLC
configurations that check them on small instances, and TLAPS proofs for every
value of the constants.  `PROJECT.json` maps each definition to the lines it
stands for and lists the hazards, runs, mutants, findings and theorems.

    tlc -workers 2 -config sync_hub.cfg MCRuleSync     # one run
    tlapm RuleSync_proofs.tla                          # one proof module

## 1. Inventory

| component | state | operations | what is hard | what makes it correct |
|---|---|---|---|---|
| Rule synchronisation `internal/agent` (forwarder_manager, hub, tunnel_manager) | rules, blockedProtocols, configVersion, forwarders, tunnels, ruleStatus | syncRules, handleConfigSync (full, added, updated, removed, blocked), restart_rule, stop_rule, startForwarder, stopForwarder, updateRuleCache | three goroutines and a refresher; startForwarder holds no lock between its steps; partial failures; lost and overtaken events | the agent is what the server published at the version it acknowledged; nothing runs that nobody can stop |
| Locks of the agent | rulesMu, forwardersMu, ruleStatusMu, tunnelsMu | the nestings of the operations above and of the reports | RWMutex, several goroutines | no circular wait |
| Circuit breaker `forwarder/common.go` | five atomic words | Allow, RecordSuccess, RecordFailure | no lock, a compare-and-swap here, an increment there | the target is always tried again |
| Hub connection `forward/hub.go`, `agent/hub.go` | Events and send channels, closed flag, backoff | ConnectHub, Send, Run, Close, readPump, writePump, reconnect loop | closing channels under senders, a new connection while the old handler still runs | both pumps end, no send on a closed channel, reconnection |
| Configuration `internal/config` | one file | SaveServerURL (from two goroutines), loading from flags and environment | read, truncate and write without a lock, then exit | a new URL is the only thing that changes in the file |
| Tunnel protocol `forwarder/entry, exit, relay, boundary_relay` | connection tables, connState queues, closed map | Connect, Data, Close, UDP messages, Stop | connection ids reused after a restart, slow consumers, half-open peers | bytes of a connection reach that connection, in order; every connection ends at both ends |
| Tunnel client `tunnel/client*`, its TLS twin, `smux_client` | conn (or session), connected, endpoint and token, backoff | Start with retries, connect, readLoop or sessionMonitor, reconnect, heartbeatLoop, Stop | Stop against a connect under way and against senders that hold writeMu over their writes, a field read without its lock, waits without a deadline | every connection but the one in use is closed, and none under a write; Start and Stop return unless the other end leaves a handshake or a write hanging; otherwise the client finds its peer again |
| Tunnel server `tunnel/server.go` | handlers by rule, connections | AddHandler (hot swap), RemoveHandler, handshake, disconnect | registration against swap, late disconnect notices | messages go to the newest handler, over a live connection |
| SMUX tunnels | session, streams | Open, Accept, Stop | streams are the library's | a stopped forwarder stops its client |
| Direct forwarders | listener, UDP client table | Start, Stop, accept, copy | shared breaker | as above |
| Health checker and selection `forwarder/health_checker`, `entry` | counts and health by tunnel, in atomics | RecordSuccess, RecordFailure, GetHealthyIndices, selectTunnel | no lock: the health changes while a choice is made of it; reports in goroutines of their own | a choice some moment justifies; the server knows the healths; a rule comes back |
| Rule cache `rulecache`, `agent/cache.go` | snapshot on disk, debounce timer, dirty flag | persist, Save (temp file and rename), Load, startFromCache | crash between change and save, start while the server is away | the agent restarts from rules it once had, and from the latest it had time to write |
| Traffic and status reporting `agent/reporting` | counters, pendingTraffic | collect and reset, send or fall back to HTTP, keep, final report | two reporters at shutdown, failure between reset and delivery | traffic is reported once, and not lost by one failed report |
| Probes, API client, self-update, logger, status collector, installer | none that outlives a call, or a file | request and response | - | not modelled: input and output without protocol state |

How they interact.  `hubLoop` receives the events `readPump` queued in
`conn.Events`; commands are run by `readPump` itself; `syncLoop` polls.  All three
call `startForwarder` and `stopForwarder`, which call into the tunnel client
(`SetHandler`, `Start`, `Stop`), the tunnel server (`AddHandler`) and the
forwarder.  A reconnecting tunnel calls back into the agent for a fresh rule and
overwrites it in `a.rules`.  Forwarders share a breaker between the goroutines of
their connections and report health to the agent.

## 2. Plan

The order is by what a mistake costs.  Done:

1. `RuleSync`, `AgentLocks`: the goroutines that start and stop forwarders.
2. `CircuitBreaker`: the lock-free state machine in the path of each connection.
3. `RuleSync_proofs`, `CircuitBreaker_proofs`.
4. `HubConn` on `ConfigFile`: pumps, channels, Close, the agent's reconnect loop
   and what it does when the server's URL changes; `HubConn_proofs`.
5. `TunnelSession`: entry and exit forwarder of a rule over a tunnel that is lost
   and comes back, with the tunnel server's registration and hot swap; the
   abstract `Channels`, which it implements.
6. `TunnelClient`: the life of a client's connection, in its three variants.
7. `TunnelHealth`: health of several tunnels and the choice among them.
8. `RuleCache` and `Traffic`, with their proofs: what survives a crash.
9. `TunnelSession_proofs`, with the refinement of `Channels`;
   `TunnelClient_proofs`; `TunnelHealth_proofs`; the hub-alone properties in
   `RuleSync_proofs`.  Every invariant the runs check is now a theorem.

To follow, in this order:

10. The rest of the tunnel path: the entry's Stop, after which connection ids are
   used again; tunnels of bounded capacity, to show or exclude that both ends
   wait for each other; the relay between two tunnels; UDP.
11. An abstract `Agent` (rules and a set of running rules, started and stopped one
   at a time) that `RuleSync` with "hub" alone implements; shutdown (`stopAll`)
   as a further worker of `RuleSync`, and a set of command goroutines, since
   `HubConn` shows that the readPump of an old connection may still be in a
   command when the next one starts another.

## 3. What is modelled

### RuleSync

One worker per goroutine that may change the set of forwarders: `"hub"` is
`hubLoop`, `"poll"` is `syncLoop`, `"cmd"` is the read pump that runs
restart_rule and stop_rule.  A step is one critical section, or one call whose
effect another goroutine can see; `pc[w]` names the next one, `ret[w]` what
follows `startForwarder` or `stopForwarder`.

| TLA+ | Go |
|---|---|
| `rules`, `blocked`, `configVersion` | `a.rules`, `a.blockedProtocols`, `a.configVersion` |
| `forwarders`, `tunnels`, `status` | the maps of these names; `forwarders` is a set with at most one element per rule |
| `alive`, `up` | forwarders and tunnel clients started and not stopped, whether or not the agent still refers to them |
| `handler` | the handler a tunnel client or server hands its messages to |
| `events` | `conn.Events` and what the server has in flight |
| `plan`, `old`, `todo`, `cur`, `hand`, `ev` | locals of the handlers: the rules fetched, the rules before, the rules left in the loop, the rule at hand, the forwarder under construction, the event |
| `shared` | the slice `syncRules` ranges over is still the one in `a.rules`, so that `updateRuleCache` writes into it |
| `srv`, `srvVer`, `srvBlk`, `history` | the control server, modelled from what it sends |

`PollFetch`, `PollAdopt`, `PollReconcile` and the two loops are `syncRules`;
`HubAccept` and `HubSkip` are the version check of `handleConfigSync`,
`FullAdopt` is `handleFullSync` up to the release of its locks, `Block`,
`CopyRules`, `Evict` are `updateBlockedProtocols`, `Forget` and
`UpdateRulesList` the end of `handleIncrementalSync`; `Check` to `Mark` are
`startForwarder` with `getOrCreateTunnel*` and the `start*Forwarder` functions it
dispatches to, told apart by `Kind`; `StopForwarder` is `stopForwarder`.

Every start may fail at every point where the code returns an error.  The server
may edit, publish, drop an event (`Lossy`), or overtake its own events with a
full synchronisation at any time.

Abstractions, all of them in the data:

- A content of a rule is a model value with a protocol and a listening socket;
  two contents differ in a field `ruleConfigChanged` compares.  A rule keeps the
  kind it has: `Kind` maps a rule, not a content.
- The kinds are the branches that differ in what they create and clean up:
  `"exit"` stands for every rule served by the tunnel server (exit, boundary
  relay, SMUX exit), `"smux"` for every rule whose forwarder owns its client,
  `"direct"` for direct and direct chain.  The tunnels of a load-balanced rule
  (`"multi"`) are one client: they are created, stored and stopped together.
- A `"smux"` rule binds its socket in `Start`, as the SMUX entry does.  The rules that
  `SetSmuxHandler` registers (forwarder_manager.go:694, 760, 792: SMUX exit, relay and
  boundary relay) have a table of their own in the tunnel server, which is not
  modelled; the exit has the control of `"exit"`.
- A refresher runs between two attempts of a client that is dialling (`Dialling`):
  after a loss, and in `Start`'s initial attempts, when the client is in
  the hands of the worker and not yet in `a.tunnels`.
- An event carries one edit; the code accepts several at once and handles them
  one after the other.  `SetHandler` of a relay is part of `Attach`.
- The first `syncRules` of `Agent.Start` is the poll, which may come at any
  time; what a start from the cache begins with is in `RuleCache`.  Shutdown
  (`stopAll`) is not modelled, nor
  are the tunnel servers' own rule list, tokens and health configuration, which
  no property reads, nor `persistRuleCache`, which is in `RuleCache`.
- Identities of clients and forwarders are reused once nothing refers to them.

### AgentLocks

Each operation is the sequence of its `Lock`, `RLock` and unlock calls
(`Program`), each mutex an RWMutex in which a waiting writer keeps new readers
out, as in Go.  `NoDeadlock` asks for no set of goroutines that wait for one
another, which finds a deadlock of some goroutines while others run on.

### CircuitBreaker

A step is one atomic load, store, add or compare-and-swap of one caller.
`backoff` counts in units of `cbMinBackoff`; `age` is the time since the last
failure, up to the longest backoff; `failures` stops at the larger threshold,
where every comparison with it has the same outcome.  Allow's loads of
lastFailureTime and of the backoff are one step: an interleaving between them can
also be had between that step and the compare-and-swap.  The callers are the
forwarders: an admitted request dials and records the result; a connection
admitted earlier may record a late failure; a caller may also return and record
nothing, as the UDP paths of exit.go and direct.go do: one that holds a half-open
slot does so only with `Leaky`.

### ConfigFile and HubConn

`ConfigFile` is `SaveServerURL`, one step per system call: the read, the
truncating open, each line written at the writer's own offset (a write past the
end leaves a hole).  Lines have one length, so that an offset is a line number;
`"new url"` is the line written by any of the saves.  A save may be refused
before it touches the file; a write does not fail.

`HubConn` extends it with the goroutines of the hub connection.

| TLA+ | Go |
|---|---|
| `hub`, `cur` | where `runHubWithReconnect` and `runHubOnce` are, and their `conn` |
| `runner`, `reader`, `writer` | where `Run`, `readPump` and `writePump` of each connection are |
| `closed`, `shut`, `queue`, `link` | `hc.closed` with `hc.done`; whether `hc.Events` is closed; what it holds; `hc.conn` |
| `process`, `cancelled` | whether the agent runs and how it ended; `a.ctx` |

`MarkClosed`, `CloseEvents` and `CloseSocket` are the three parts of `Close`
that others can see between, run by `RunClose` and by the deferred call,
`HubClose`.  `Dispatch`, `DispatchPanics` and `AfterDispatch` are
`dispatchEvent` and the call of the handler that follows; an api_url_changed
goes both ways.  `SaveStep` and `Exit` are `handleAPIURLChanged`.

Abstractions:

- The queue of what is sent is left out: `Send` never blocks, and a full or
  closed queue changes nothing the other goroutines read.  So is `a.hubConn`,
  which only the senders read.
- What a command or a config_sync does to the rules is in `RuleSync`; here the
  goroutine is busy and then returns (`HandleCommand`, `HandleEvent`).  That is an
  assumption, which `PumpsEnd` and `Reconnects` rest on: a goroutine caught in
  finding 2, or starting a tunnel whose TLS handshake hangs, never does.
  A read deadline that passes while it is
  busy is `LoseLink`.
- `readPump`'s look at the context is part of the step before it; the backoff
  has no length; a connection's identity is reused once its goroutines ended,
  and what is left in its channel is forgotten when `hubLoop` leaves it.
- The service manager restarts the process after every ending (the unit has
  `Restart=always`), and the agent gives up at once if the file has no token.

### TunnelSession

One rule, one entry agent and one exit agent.  The goroutines of a side are a
pump for every connection, which reads its socket and sends into the tunnel, a
write loop for every connection, and the read loop of every tunnel, which queues for
the write loops.  Around them are the client's reconnect, the server's
`handleTunnel` of every tunnel, and the agent that replaces the exit forwarder.

| TLA+ | Go |
|---|---|
| `link`, `wire` | a WebSocket between the agents: its state, and what one side wrote and the other has not read |
| `tunnel` | `Client.conn` of the entry's tunnel client |
| `server`, `captured`, `current`, `handler` | the next step of `handleTunnel` and its local `handler`; `Server.connHandler`; `Server.handlers` of the rule |
| `exits`, `sender` | the exit forwarders, one after the other: between `AddHandler`, `Start` and `Stop`; the field `tunnel` of each |
| `overtaken` | history: the tunnels whose `handleTunnel` adopted a handler that had been replaced since its double check |
| `owner` | the exit forwarder in whose `conns` a connection is |
| `end` | for each side and connection: whether it is in `conns`; `connState` (`state`, `queue`, what its write loop has written, `got`); the next step of `handleTCPConn` or `readFromTarget` (`pump`, `read`); whether the outside has closed its socket |
| `hand` | data a read loop is about to queue, when it has looked at `closed` for the last time |
| `panic` | a send on a closed queue; a nil context |

`Accept`, `Send`, `ReadData`, `ReadEnds`, `EndPump` are the pump; `Deliver` and
`DeliveryFails` are `writeLoop`; `ReceiveConnect`, `ReceiveData`, `Write`,
`ReceiveClose` are the handlers a read loop calls, `Write` being the send
inside `connState.Write`; `CloseConn` is `closeTCPConn`.  `Choose` to `SetSender`
are the set-up of `handleTunnel` with its double check, `Publish`, `Notify`,
`Rewire` are `AddHandler`.  `ReadPanics` is a target that the read loop dials
and reads before `Start` has set the forwarder's context.

Abstractions:

- Bytes are numbered reads; a Data message carries one.  A request the breaker
  rejects and a failed dial are the same branch of `HandleConnect`.
- `Deliver` writes one item, where `writeLoop` takes up to 128 from the queue and
  writes them at once (common.go:228-280): what it has taken counts as still in the
  queue until it is written.
- The WebSocket client and server stand for their TLS twins, which have the same
  control; their accepting and authenticating a connection is part of `Dial`.
  The number of retries of a reconnect and its waits are left out; ten looks for a handler
  are one step, `GiveUp`.
- A write to a tunnel never blocks and, on a lost tunnel, may return no
  error, as a write to a TCP socket does.  A tunnel that is lost may still deliver
  a prefix of what is under way.
- TCP connections only, in one life of the entry forwarder: a connection id is
  used once.  The relay, UDP and `ExitForwarder.Start` failing for a missing
  target are not modelled.
- `Rewire` visits the registered tunnels in an order nobody knows, as Go
  ranges over a map; the last is the new forwarder's sender.

**Channels.**  What a rule promises to the two ends of a connection: a channel
in each direction, numbered items, `Read`, `Deliver`, `End`, and `Break` for
the first loss.  `TunnelSession` implements it (`ImplementsChannels`): `sent` and
`got` are the counters of an end, `ended` its closed flag, `broken` whether a
tunnel was lost or a forwarder restarted.  Every step of the session, through
wires, queues and hands, is a step of the channels or none.  That `Channels` lets
items overtake each other after the first loss is needed: the read loop of the
old tunnel and that of the new one serve the same connection.

### TunnelClient

One client, of a kind chosen at the start: `"ws"`, `"tls"` or `"smux"`.

| TLA+ | Go |
|---|---|
| `pc`, `mode`, `attempt`, `tries` | the next step of `Start`, then of `readLoop` or `sessionMonitor`; who called `connect`; the counters of the two retry loops |
| `conn`, `connected`, `target` | the fields `conn` (for SMUX with `session`), `connected`, `endpoint` with `token` |
| `fresh`, `old`, `reading` | locals of `connect` and `readLoop` |
| `socket` | the connections themselves, whoever refers to them |
| `cancelled`, `heart`, `stop` | `ctx`, `heartbeatLoop`, the next step of `Stop` |
| `sending` | of each goroutine that may be inside `SendMessage`: whether it waits for `writeMu` or holds it in a `Write`; these are `heartbeatLoop`, the loop itself, and `Users`, the forwarder's goroutines |
| `peer` | the other end: whether it is up, where, and with what token |

`Dial`, `Secure`, `Greet`, `Store`, `MarkConnected`, `CloseOld` are `connect`,
each with the way it fails (`FailAt`); `RetryHead`, `Wait`, `Refresh` are the
loops of `Start` and `reconnect`; `Check`, `PickConn`, `Read`, `Handled`,
`ReadFails`, `Clear` are `readLoop`, `Watch` and `Sleep` `sessionMonitor`;
`SendMessage`, `TakeLock`, `WriteReturns` are `SendMessage`.  The kinds differ
where the code does: ws reads `c.conn` without the lock, tls looks for nil, and
smux learns of a loss from its session.  Waits have no length.

`writeMu` is held by whoever is in `"write"` (`Locked`), and `Store`, `Clear`,
`StopClose` and tls's `PickConn`, which take it, wait until nobody is.  A `Write`
has no deadline: it returns when the other end reads, and surely only
when the connection is lost (`WriteFails`).  The `sessionMu` of smux is never held
over input or output, so that smux has no senders here.  A message the loop has
read may have it answer with a Close through the same tunnel (`"send"`), or, in a
relay, pass it to the other tunnel (`"forward"`), which ends when that one takes it.

The control server's answer to a refresh is the truth of that moment or an error,
and the refresher returns.  That is an assumption: it takes `rulesMu`
(tunnel_manager.go:283, 365), and finding 2 is a way in which nobody gets
that lock any more.

### TunnelHealth

`failures`, `successes` and `healthy` are the atomics of `healthState`; `pc`,
`next`, `seen`, `choice` the locals of a goroutine that serves a connection:
`Load` one atomic after the other in `GetHealthyIndices`, `Pick` by
`SelectFailover` or `SelectWeighted` (random: every outcome), `Send` and,
by its result, `RecordSuccess` or `RecordFailure`, whose operations are steps of their
own up to `Swap`, the compare-and-swap that starts a goroutine for a report.
`Deliver` and `LoseReport` are those goroutines, in any order.  The counts stop
below their threshold, where one more has the same outcome.  `since`, `blurred`
are history.  `Chooser`, `Watched` and `MaxReports` bound what is followed;
`MaxReports` delays a swap that would be one report too many.

### RuleCache

The rules (with token and block list) and the endpoints are versions, the file a
snapshot of them, part of one, or none.  `PersistRuleCache` puts the signal into
a channel of one place; `Wake` to `SaveRename` are `cachePersistLoop`,
`writeRuleCache` (two copies under two locks) and `Save`, one step per system
call, each of which may fail or be the last before a `Crash`.  A start is from the
server, with or without resolved exits, or from a file `Load` accepts.  Only the
process crashes: without an fsync the code promises nothing of the machine.

### Traffic

A unit is what one rule counts between two reports.  It is in one of the places a
unit can be: the forwarder's counter, `trafficLoop`'s local `hand`,
`pendingTraffic`, the items of the final report, the hub connection's queue.
`Collect` to `SavePendingTraffic` are `reportTraffic`; `StopCancel` to `Stopped`
are `Agent.Stop`, whose final report runs beside a `trafficLoop` that may still be
in the middle of its own.  `lost` records what goes in one of the ways the code
has: a forwarder stopped between two reports, the hub's queue, the limit of
pendingTraffic, a final report that fails, a crash.  `doubtful` is what a call
that failed may have delivered: it is sent again.

## 4. The runs

| run | instance | shows |
|---|---|---|
| `sync_hub` | hub alone; a SMUX, an exit and a load-balanced rule; two contents of different protocols, both blockable; 3 edits, 2 events in flight, none lost | between events the rules are the server's at the acknowledged version and each forwarder runs that content (`AgentAtItsVersion`); "running" is reported exactly for what runs (`StatusTruthful`); a block evicts everything (`BlockedNotRunning`); nothing runs unregistered, and messages reach the registered forwarder over a live client (`RegisteredIsWired`), although any start may fail and full synchronisations overtake events |
| `sync_all` | hub, poll and commands, an entry rule, a refresher, events lost, 2 edits | with restart and stop in the middle of a start no tunnel client escapes (`TunnelsTracked`), no listener (`NoOrphanListener`), and no stopped forwarder stays registered (`RegisteredIsAlive`); the proofs cover the other kinds, `TunnelsTracked` those without load balancing |
| `sync_eventual` | poll alone, fair; a chain rule whose tunnel refreshes it | **violated**: see finding 1 |
| `locks` | all operations of five goroutines | **violated**: see finding 2 |
| `breaker` | two callers, thresholds 2 and 3, one probe, backoff 1 to 2, target up and down at will | a half-open breaker nobody works on admits the next request (`RecoveryPossible`); once the target stays up it closes for good (`Recovers`) |
| `hub_conn` | two connections, one place in Events, one change of URL, a file of URL and token | nobody closes an Events channel twice (`EventsClosedOnce`); the pumps of a closed connection end, whatever they are doing (`PumpsEnd`); while the hub is there the agent connects again and again, through panics and restarts too (`Reconnects`) |
| `session` | one connection, two tunnels, two exit forwarders, queues of one, two reads at the entry and one at the exit, one loss or restart, fair | while nothing is lost each end writes what the other has read, in order and without a gap (`StreamIntact`); no tunnel keeps a handler that was replaced once during its set-up (`HotSwapReachesAll`); a closed connection leaves no pump behind (`ConnsEnd`); the two ends end together (`EndsTogether`); and whatever happens the session implements `Channels` (`ImplementsChannels`) |
| `client` | one client of each kind, two connections at a time, two places and two tokens, `heartbeatLoop`, the loop and one goroutine of the forwarder sending, two retries with a refresh at the second | no connection is left open by a failed set-up, a loss or a replacement (`NoneLeft`), nor by Stop, with one exception (`StopLeavesNothing`); no connection is closed, nor the field cleared, under a goroutine that is writing (`NoCloseUnderWrite`); Start returns unless a TLS handshake hangs, and Stop unless, besides, a write hangs that keeps it out of writeMu or the loop is held by a relay's other tunnel (`CallsReturn`); the client is connected again to a peer that moved, over an open connection (`Reconnects`) |
| `health` | two callers, two tunnels, failover with a backup or weights 1 and 2, thresholds 2 and 1 | a choice made of healths of different moments is no worse than some moment justifies (`ChoiceSound`); once its reports have arrived the server knows a tunnel's health, unless they overtook each other (`ServerKnows`); an all-unhealthy rule comes back when the tunnel its fallback takes does (`ServesByFallback`) |
| `failover` | one caller, failover with weights 1 and 2 | **violated**: see finding 3 |
| `cache` | three versions of the rules, the last without rules, two of the endpoints; saves that fail, crashes at every system call | once there is a whole cache file there always is (`FileStaysWhole`); what an agent that stays up was told is on disk in the end (`Saved`), after failed saves and tunnels' refreshes by the next sync (`SavedBySync`); no agent starts from part of a file (`TypeOK`) |
| `traffic` | three units, a limit of two pending | no unit is in two reports, billed twice, or gone but in a known way (`EachUnitOnce`), though two reporters share the counters; all are billed in the end or lost in one (`Billed`) |

`AgentAtItsVersion`, `StatusTruthful`, `BlockedNotRunning` and `RegisteredIsWired`
are stated for the hub alone on purpose: with the poll beside it they fail, for
the reasons the hazards list (the block list read before a slow start, the status
written after the map).  What a run assumes is in its cfg: `Workers`,
`Lossy` and `Refreshing`.

**Bounds.**  `MaxVersion` edits, `MaxQueue` events in flight; the poll, the
commands, full synchronisations and refreshes are unbounded.  Two edits suffice
for a rule to be added and changed or removed while a start is under way, three
for it to come back; one rule is enough for the races, which are all between two
operations on the same rule, and three rules of different kinds for the loops of
a full synchronisation.  `TunnelIds` and `ForwarderIds` are as many as can be
referred to at once in these instances, plus one that has escaped.  Two callers
reach every race of two operations on the breaker's words; the proof covers any
number.  Two connections (`Conns`) are the one being served and an old one whose
pump is still busy; a third only if two old pumps are, which relates to nothing
new: pumps of different connections share the file only.  `Capacity` 1 makes
Events full, and `MaxChanges` 1 already sets two goroutines to work on the file.
In `session` one connection is enough: the properties are of one connection or of
none, and connections share nothing but the read loops.  Two reads at the entry
fill a queue of one and leave the second in the loop's hand, or go over two
tunnels; with one fault, two tunnels and
two exit forwarders a tunnel is lost while its successor is set up, or the
forwarder replaced while a tunnel registers.  In `client` two connections are the
old and the new one; the two retries of `Start` are one without a refresh and one with;
and one user of the connection besides `heartbeatLoop` and the loop makes two
goroutines wait for a lock that a third holds.  In `health`
two callers reach every race of two operations on the atomics, and one watched
tunnel with one report of each health on the way the two orders of a pair.  In
`cache` three versions are one on disk, one in the writer's hand and one that
comes meanwhile.  In `traffic` three units are one in each reporter and one
pending, and fill a limit of two.  Symmetry is over identities no definition tells apart (tunnels,
forwarders, and contents where protocol and socket are the same), and only in
runs of invariants.  `Essence`, the VIEW of `sync_all`, leaves out the reported
status and the server's history: no guard and none of the properties of that
run reads them.  Deadlock is not checked in `session`, `cache` and `traffic`, which come to rest
once their bounded traffic or versions are used up, nor in `client`, `health` and
`failover`, where a client that was stopped or a caller without connections
rests; there the liveness properties say what must not wait for ever.

**Fairness.**  `RuleSync!FairSpec` is weak fairness of each worker: the Go
scheduler runs every runnable goroutine, and the ticker of `syncLoop` makes the
poll start again.  The server, lost events and refreshes have none.
`CircuitBreaker!FairSpec` adds that time passes and that clients keep
connecting, without which nothing calls Allow and the breaker rightly stays
open.  `HubConn!FairSpec` is weak fairness of hubLoop, of Run and the pumps of
each connection (their tickers fire, and their deadlines end a call on a dead
socket), of the save a goroutine is in, and of the service manager.  The network,
the server's messages, the loss of a link and SIGTERM have none; `Reconnects`
assumes of them only that the hub is reachable from some time on.
`TunnelSession!FairSpec` is weak fairness of each pump (its sends and its end,
not its reads), of the client, of `handleTunnel` of each tunnel and of the agent
that replaces the forwarder.  Clients, targets, write loops (a peer may not read) and
the network have none.
`TunnelClient!FairSpec`: goroutines run, timers fire, smux keepalives time out
(`Runs`); what waits for `writeMu` gets it when it is free again and again, because Go's
mutex starves nobody, and of a timer and a context that are both ready select
does not always take the timer (`Admitted`); an attempt (dial, tunnel handshake,
refresh) that could succeed again and again does at some time, because the backoff is
capped and the retries are endless.  Nothing ends a TLS handshake or a `Write` on an
open connection, whose other end may neither answer nor read, nor what a relay's
message waits for: `CallsReturn` and `Reconnects` except a client that stays there,
and TLC finds each exception to be needed.
`TunnelHealth!FairSpec`: every goroutine that
serves a connection, random choices that avoid no tunnel for ever, and reports;
not that clients keep coming.  `RuleCache`: syncs end and the loop runs, though the
disk may fail it every time.  `Traffic`: the loops and Stop run, what is queued is
sent or lost, and an HTTP call made again and again succeeds at some time
(strong fairness of `ReportTraffic`); between two ticks `trafficLoop` sees that
its context is done.

## 5. Findings

1. *An outdated forwarder is never corrected* (`sync_eventual`).  The refresher
   of a reconnecting tunnel overwrites the rule in `a.rules`; the next poll
   compares the server's rule with that and sees no change, while the forwarder
   still runs the old content.  The comment on `syncLoop` promises eventual
   consistency.
2. *A circular wait* (`locks`).  `getOrCreateTunnel` holds tunnelsMu and reads
   the token under rulesMu, against the documented order; a full synchronisation
   and a `stopForwarder` close the cycle.
3. *A backup that is never tried* (`failover`).  An unhealthy tunnel becomes
   healthy only by a connection sent over it.  Once all tunnels of a failover rule
   are unhealthy the fallback takes the heaviest every time, up or not; while it
   stays away each new connection fails, with the backup up again.  There is no
   periodic check.  `ServesByFallback` is what does hold.

What else the models reach, of which no run is made because no property that
excludes it holds:

- `CircuitBreaker` with `Leaky`: the UDP paths that return without a recorded result
  keep the half-open slot, and the breaker never probes again (exit.go:218).
- `HubConn!DispatchPanics`: a send on Events after `Close` closed it
  (forward/hub.go:668), where the comment calls it safe.
- `HubConn` without `HasToken`: `hubLoop` and `readPump` both handle one
  api_url_changed, one reads the file the other has truncated, writes
  that, and exits; the agent cannot start again (config.go:281).
- `TunnelSession!WritePanics`: `connState.Write` looks at `closed` and then sends on
  a queue that is closed meanwhile (common.go:301).  `ReadPanics`: a target
  is read before `Start` gave the forwarder its context.
- The double check of `handleTunnel` reads `handlers` under one mutex and stores what
  it found under another (server.go:329-336, tls_server.go:324-331).  If
  `AddHandler` replaces that handler in between, the tunnel, registered already,
  has the newest one, and the store puts back the one just replaced: not "the
  latest handler" of the comment that follows.  It takes two replacements in one
  set-up (`MaxExits = 3`, `MaxFaults = 2`); such a tunnel is in `overtaken`, which
  `HotSwapReachesAll` excepts until the next replacement.
- After a tunnel was lost, the bytes of one connection may be reordered: two read
  loops of the exit serve it (why `Channels` allows it once `broken`).
- `TunnelClient`: a connect past its dial when Stop begins leaves an open
  connection and `connected = TRUE` (`late`, client_conn.go:186); ws reads a nil
  connection (`"panicked"`, client_io.go:44); a TLS handshake has no deadline; Stop
  waits without end for `writeMu` (client.go:139, tls_client.go:135) while a sender is in
  a `Write` without deadline to an end that reads no more (client_io.go:26), and so never
  closes the connection that would end that `Write`; a token refreshed without a new
  endpoint is dropped (client_conn.go:228).
- `TunnelHealth`: a success between the count of a failure and its swap does not stop
  the swap; reports may arrive in the wrong order (health_checker.go:259).
- `RuleCache`: a refresh by a tunnel asks for no save, and a failed save is not
  tried again before the next sync asks for one (both are `missed`); the snapshot of an agent without rules replaces the
  last one and is then refused by `Load` (rulecache.go:59); after a start with
  unresolved exits the empty endpoint cache replaces the known one.
- `Traffic`: a report that fails after `FinalMerge` leaves its units pending in a
  process that ends; a call that fails after the server took it is sent again
  (`doubtful`).

Two limits of the code that no document denies are in the statement of the
properties instead.  `StreamIntact` and `EndsTogether` say nothing after the
first lost tunnel or restart of the exit forwarder: the entry is not told, keeps
its connections, and sends their data to a forwarder that does not know
them.  And `connState.Close` drops what is queued, so `StreamIntact` asks
for completeness of an end only while it is open.

## 6. Proofs

For every value of the constants, from the assumptions named in the modules
(`ConstantsAssumption`, `BreakerAssumption`, `HubAssumption`, `CacheAssumption`,
`TrafficAssumption`, `ClientAssumption`, `HealthAssumption`, `SessionAssumption`: types
of the constants, distinctness of `None` from whatever it stands beside, finitely
many callers, and FailureThreshold below BlockedThreshold, as the constants of
common.go are).

`RuleSync_proofs`:

- `TypeCorrect` and `LocalsCorrect`: `TypeOK` is not inductive.  `Check` reads
  `Protocol[plan[w][cur[w]]]`, which is a protocol only if the rule about to be
  started has a content, and this depends on how the goroutine came there.
  `Control` says it: what `ret`, `plan`, `cur`, `todo` and `ev` hold at each
  `pc`.  `TypeOK /\ Control` is inductive; `OthersKept` reduces the proof to the
  worker that moves.
- `HandsCorrect`, `RegisteredAlwaysAlive`: a registered forwarder could only be
  stopped and left in the map if another goroutine registered it a second time;
  `Hands` (what a worker holds is its own, and once started runs until it is
  registered) excludes that, with `RegisteredIsAlive` itself.
- `TunnelsAlwaysTracked`: for rule sets without load balancing every running
  client is tracked.  The condition is real: `storeMultiTunnels` overwrites.
- `NoListenerOrphaned`: while the contents of a rule ask for one socket, the
  listening socket works as a lock: the second of two racing starts fails to
  bind.  The invariant is `NoOrphanListener` with `Hands`.

- `AtItsVersion`, `StatusIsTruthful`, `BlockedIsStopped`, `RegisteredAreWired`: what
  `sync_hub` checks, under the conditions of that run, `Alone`: hubLoop is the only
  worker, no event is lost, nothing refreshes a rule.  (With the poll beside it
  the properties fail.)  They speak of the moments between two events; the
  inductive invariant `Attuned` speaks of every step of a handler:
  - `Published`, of the server and the queue: each event says what the rules became at
    its version; the edits in the queue are in the order of their versions; and
    behind every full synchronisation, and behind the event in hand, lies every edit
    it does not include.  Hence an edit that is not skipped is exactly the next one:
    no event the agent accepts leaves a gap.
  - `Flow`: which event is at which `pc`, so that what hubLoop does next is known.
  - `Contents`: until the event in hand is merged `a.rules` is what the acknowledged
    version says, and what the event says from then on; each forwarder runs the
    content the one or the other gives its rule, by whether the old one has been
    stopped.  `Reported`: the status of a rule is right except while that rule is
    being started, forgotten or still to be restarted, and then it has no forwarder.
    `Barred`: nothing of a blocked protocol runs or is being started, except between
    the new block list and the eviction.
  - `Wired` (for `RegisteredAreWired`): what is alive is registered or about to be;
    its tunnel client runs and is no other rule's; the messages of its rule go to it.  It
    needs `Forgetting`: no chain rule.  A chain entry that fails to start
    stops its client and leaves it in `a.tunnels` (forwarder_manager.go:324), and the
    next start runs over it: TLC finds the counterexample, and the hypothesis excludes
    just this kind.

`CircuitBreaker_proofs`:

- `TypeCorrect`: the ranges of the words, the backoff's cap among them.
- `SlotsAlwaysHeld`, `RecoveryAlwaysPossible`: if every caller that took a
  half-open slot records a result, then in a half-open breaker the count is at most the number of callers that
  will still give a slot back (`SlotsHeld`, with the one exception of the
  caller that has not reset the count yet; `SawNotClosed` tells who took a slot).
  With no caller active the count is
  at most zero, hence below `HalfOpenMax`.  `RecoveryPossible` alone is not
  inductive, because it says nothing while a caller is active.  The hypothesis
  `~Leaky` is what the UDP paths of exit.go and direct.go violate.

`HubConn_proofs`:

- `TypeCorrect`: the types, with the bound of the Events channel; of `ConfigFile`
  it needs that a rewritten file and a file written past its end are sequences
  of lines.
- `EventsAlwaysClosedOnce`: that no channel is closed twice follows from
  `OneCloser`, which is inductive: while the flag is not set the channel is open
  and nobody is about to close it, and the one goroutine that set it is the only
  one at `"events"`.

`RuleCache_proofs`:

- `TypeCorrect`, `FileAlwaysWhole`: inductive with `RenamesWhole`: a writer about to
  rename has a whole temporary file, and the cache file is never a part.  Both
  marks of a broken file differ from every snapshot (`MarksNoSnapshots`).

`Traffic_proofs`:

- `TypeCorrect`, with the limit of pendingTraffic, and `UnitsReportedOnce`:
  `EachUnitOnce` becomes inductive with `Accounted`: a unit that was not counted
  is nowhere and not billed, and a local that is about to be assigned
  (`hand` of an idle loop, `final` before the final report) is empty, or what it
  held would be gone.  The set of units need not be finite.

`TunnelClient_proofs`:

- `TypeCorrect`, `NothingElseOpen`, `StoppedIsClosed`, `WritesAreSafe`: the invariant
  `Held` says which connections may be open (`fresh`, `old` and `conn`, told by
  `pc`), `InUse` that `connected` goes with a connection until Stop takes it, `Caught`
  where the client may still be at each step of a Stop that no connect escaped, and
  `Usable` that the connection in the field is never one this end has closed (smux's
  keepalive aside), which with the lock makes `NoCloseUnderWrite` inductive.
  `StopLeavesNothing` says nothing before Stop has returned and is far from
  inductive without them.

`TunnelHealth_proofs`:

- `ChoiceIsSound`: `Watching` says, of every tunnel, that what `since` (the history
  of its health from the first load on) calls constant still is so, and was loaded
  so if its turn has come.  What
  `selectFailover` and `selectWeighted` return of a set of tunnels is in lemmas of their
  own (`FailoverSound`, `SelectSound`): the heaviest exists because
  weights are natural numbers and tunnels finitely many.
- `ServerIsRight`: with one report on the way and nothing overtaken, that report says
  what the health is; with none, the server knows it (`Reported`).

`TunnelSession_proofs`, with the inductive invariant `Session`, the conjunction of:

- `Swap`: the types and what `HotSwapReachesAll` needs (`Handlers`: forwarders are
  published one after the other; `SetUp`: where a tunnel in set-up may be behind
  `handlers`, told by its `pc` and by where AddHandler is).
- `Connects`: the only Connect of a connection is in one place of one tunnel, or has
  been handled; so no end is opened a second time with data already under way.
- `AllApart`: no item is in two places, whatever is lost and restarted.  Most steps only
  lose (`Fades`), which the lemmas on `Carries`, `Wanes` and `ApartLess` turn into one
  argument for them all.
- `Quiet`: before the first fault there is one tunnel, one forwarder, one sender.
- `Ordered`: before the first fault the items of a connection lie in the order of their
  numbers without a gap: written, queued, in the loop's hand, in the tunnel
  (`Line` states it of a sequence by places, and `LineSend`, `LineTake` keep it).
  `StreamIntact` follows: it says the same with sets of places.

`Implementation` is that every step of the session is a step of `Channels` or a
stutter under the refinement mapping (`ReadImplements`, `DeliverImplements`,
`ClosesImplements`), and needs `AllApart` for the items that are delivered: one that
is in the queue of an end was sent, and never delivered before.

No theorem uses an ASSUME beyond those named above; the hypotheses stated in
theorems are `~Leaky`, the rules without load balancing of `TunnelsAlwaysTracked`,
`Alone` and `Forgetting`, each explained above.

Only model-checked: that there is no circular wait (`AgentLocks`: the property is
violated), and liveness, which is out of the prover's reach: `Recovers`, `PumpsEnd`,
`Reconnects`, `ConnsEnd`, `EndsTogether`, `CallsReturn`, `ServesByFallback`,
`Saved`, `SavedBySync`, `Billed`.

## 7. Not modelled

- Relays and boundary relays (only started and stopped, in `RuleSync`), UDP over a
  tunnel, the entry's Stop: items 10 and 11 of the plan.
- The set-up of SMUX streams and direct connections beyond their breaker and
  lifetime: one goroutine each that copies bytes, with no state they share.
- Of the tunnel server: Start, Stop, the verification of handshakes, probes.
- Of the reports: the debounce of the rule statuses and
  the statistics.
- Probes, the API client, self-update, loading the configuration, logging, collection
  of system statistics and the installer keep no protocol state.  One hazard of
  self-update is listed all the same: it ends with two renames, and a crash between them
  leaves no binary to start (updater.go:130).
