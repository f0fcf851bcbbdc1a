------------------------------ MODULE RuleSync ------------------------------
(***************************************************************************)
(* Rule synchronisation of the agent (internal/agent): how the goroutines  *)
(* that may change the set of running forwarders interleave.               *)
(*                                                                         *)
(*   "hub"   hubLoop, one config_sync event at a time (agent/hub.go)       *)
(*   "poll"  syncLoop, the periodic fallback syncRules                     *)
(*   "cmd"   the hub connection's readPump, which runs the restart_rule    *)
(*           and stop_rule commands itself                                 *)
(*                                                                         *)
(* and, beside them, the endpoint refresher of a reconnecting tunnel,      *)
(* which overwrites a rule in a.rules (updateRuleCache).  A step is one    *)
(* critical section, or one call another goroutine can observe; the locks  *)
(* themselves are in AgentLocks.  The control server is the environment:   *)
(* it edits its rules, numbers the edits and sends config_sync events.     *)
(***************************************************************************)
EXTENDS Naturals, Sequences, FiniteSets

CONSTANTS
  Rules,         \* rule ids
  Configs,       \* contents of a rule; two contents differ in a field ruleConfigChanged compares
  Protocols,
  Blockable,     \* protocols the server may block
  Kind,          \* [Rules -> Kinds]: the branch of startForwarder a rule takes
  Protocol,      \* [Configs -> Protocols]
  Socket,        \* the listening socket a content asks for, per content
  Workers,       \* which of "hub", "poll", "cmd" run
  Lossy,         \* may config_sync events be dropped before hubLoop sees them?
  Refreshing,    \* do tunnels reconnect and refresh their rule?
  TunnelIds,     \* identities of tunnel clients; reused once nothing refers to them
  ForwarderIds,  \* identities of forwarder objects, likewise
  MaxVersion,    \* bound: edits the server makes
  MaxQueue,      \* bound: events in flight
  None

Kinds == {"direct", "entry", "multi", "chain", "relay", "smux", "exit"}

Listens == {"direct", "entry", "multi", "chain", "smux"}     \* Start binds a socket
Reuses  == {"entry", "chain", "relay"}                       \* takes the tunnel a.tunnels has
Owns    == {"smux"}                                          \* f.Stop stops the tunnel client
Dials   == Reuses \cup Owns \cup {"multi"}                   \* needs a tunnel client
Handles == {"entry", "multi", "chain", "relay", "exit"}      \* SetHandler or AddHandler

RuleSets == [Rules -> Configs \cup {None}]
NoRules  == [r \in Rules |-> None]

Forwarder == [id : ForwarderIds, rule : Rules, cfg : Configs, tun : TunnelIds \cup {None}]

(* config_sync events: full, or one rule added, updated or removed, or the *)
(* blocked protocols; a rule added or updated comes with its content.      *)
Events == {e \in [ver : 0..MaxVersion, op : {"full", "add", "upd", "del", "blk"},
                  rule : Rules \cup {None}, rules : RuleSets, blk : SUBSET Protocols] :
             e.op \in {"add", "upd"} => e.rule \in Rules /\ e.rules[e.rule] # None}

ASSUME ConstantsAssumption ==
  /\ Kind \in [Rules -> Kinds]
  /\ Protocol \in [Configs -> Protocols] /\ Blockable \subseteq Protocols
  /\ Workers \subseteq {"hub", "poll", "cmd"}
  /\ None \notin Configs \cup Rules \cup TunnelIds \cup ForwarderIds
  /\ None \notin Forwarder /\ None \notin Events
  /\ None \notin {"starting", "running", "stopped", "error"}
  /\ Lossy \in BOOLEAN /\ Refreshing \in BOOLEAN
  /\ MaxVersion \in Nat /\ MaxQueue \in Nat

VARIABLES
  srv, srvVer, srvBlk, history,  \* the server's rules, version and block list; its rules by version
  events,                        \* conn.Events
  rules, blocked, configVersion, \* a.rules, a.blockedProtocols, a.configVersion
  forwarders,                    \* the values of a.forwarders, at most one per rule
  tunnels,                       \* a.tunnels
  handler,                       \* the forwarder that gets the messages of the rule's tunnel
  status,                        \* a.ruleStatus
  alive,                         \* forwarders started and not stopped
  up,                            \* tunnel clients started and not stopped
  pc, ret, todo, plan, old, cur, hand, ev, \* locals of the workers
  shared                         \* is a.rules still the slice the poll iterates over?

srvVars == <<srv, srvVer, srvBlk, history>>
agent   == <<rules, blocked, configVersion, forwarders, tunnels, handler, status, alive, up>>
locals  == <<pc, ret, todo, plan, old, cur, hand, ev, shared>>
vars    == <<srvVars, events, agent, locals>>

(* startForwarder; then everything *)
StartPCs == {"check", "announce", "tunnel", "attach", "start", "cleanup", "fail",
             "register", "mark"}
LoopPCs  == {"restart", "scan"}
HubPCs   == {"block", "copy", "evict", "forget", "list"}
PCs      == StartPCs \cup LoopPCs \cup HubPCs
              \cup {"idle", "adopt", "reconcile", "stop", "read", "stopped", "finish"}
RetPCs   == LoopPCs \cup {"idle", "list", "forget", "check", "read", "stopped", "finish"}

TypeOK ==
  /\ srv \in RuleSets /\ srvVer \in 0..MaxVersion /\ srvBlk \subseteq Protocols
  /\ history \in [0..MaxVersion -> RuleSets]
  /\ events \in Seq(Events)
  /\ rules \in RuleSets /\ blocked \subseteq Protocols /\ configVersion \in 0..MaxVersion
  /\ forwarders \subseteq Forwarder /\ alive \subseteq Forwarder
  /\ tunnels \in [Rules -> TunnelIds \cup {None}] /\ up \subseteq TunnelIds
  /\ handler \in [Rules -> ForwarderIds \cup {None}]
  /\ status \in [Rules -> {None, "starting", "running", "stopped", "error"}]
  /\ pc \in [Workers -> PCs] /\ ret \in [Workers -> RetPCs]
  /\ todo \in [Workers -> SUBSET Rules]
  /\ plan \in [Workers -> RuleSets] /\ old \in [Workers -> RuleSets]
  /\ cur \in [Workers -> Rules \cup {None}]
  /\ hand \in [Workers -> Forwarder \cup {None}]
  /\ ev \in Events \cup {None} /\ shared \in BOOLEAN

Init ==
  /\ srv = NoRules /\ srvVer = 0 /\ srvBlk = {}
  /\ history = [v \in 0..MaxVersion |-> NoRules]
  /\ events = <<>>
  /\ rules = NoRules /\ blocked = {} /\ configVersion = 0
  /\ forwarders = {} /\ alive = {} /\ up = {}
  /\ tunnels = [r \in Rules |-> None]
  /\ handler = [r \in Rules |-> None]
  /\ status = [r \in Rules |-> None]
  /\ pc = [w \in Workers |-> "idle"] /\ ret = [w \in Workers |-> "idle"]
  /\ todo = [w \in Workers |-> {}]
  /\ plan = [w \in Workers |-> NoRules] /\ old = [w \in Workers |-> NoRules]
  /\ cur = [w \in Workers |-> None] /\ hand = [w \in Workers |-> None]
  /\ ev = None /\ shared = FALSE

-----------------------------------------------------------------------------
(* The control server. *)

(* The event is queued, or lost: the Events channel is full or the hub is  *)
(* disconnected.                                                           *)
Send(e) ==
  \/ Len(events) < MaxQueue /\ events' = Append(events, e)
  \/ Lossy /\ UNCHANGED events

Event(op, r, S, B) == [ver |-> srvVer', op |-> op, rule |-> r, rules |-> S, blk |-> B]

Edit(op, r, S, B) ==
  /\ srvVer < MaxVersion
  /\ srv' = S /\ srvBlk' = B /\ srvVer' = srvVer + 1
  /\ history' = [history EXCEPT ![srvVer + 1] = S]
  /\ Send(Event(op, r, S, B))
  /\ UNCHANGED <<agent, locals>>

AddRule    == \E r \in Rules, c \in Configs :
                 srv[r] = None /\ Edit("add", r, [srv EXCEPT ![r] = c], srvBlk)
UpdateRule == \E r \in Rules, c \in Configs :
                 srv[r] \notin {None, c} /\ Edit("upd", r, [srv EXCEPT ![r] = c], srvBlk)
RemoveRule == \E r \in Rules :
                 srv[r] # None /\ Edit("del", r, [srv EXCEPT ![r] = None], srvBlk)
BlockProtocols == \E B \in SUBSET Blockable :
                 B # srvBlk /\ Edit("blk", None, srv, B)

(* A forced synchronisation, at any time and any number of times.  It is   *)
(* what the server has by now, so it may overtake the events of edits it   *)
(* already includes.                                                       *)
SendFullSync ==
  /\ UNCHANGED srvVars
  /\ Len(events) < MaxQueue
  /\ \E k \in 0..Len(events) :
       events' = SubSeq(events, 1, k) \o <<Event("full", None, srv, srvBlk)>>
                   \o SubSeq(events, k + 1, Len(events))
  /\ UNCHANGED <<agent, locals>>

-----------------------------------------------------------------------------
(* Effects shared by the handlers. *)

Registered(r) == {f \in forwarders : f.rule = r}

OwnTunnels(F) == {f.tun : f \in {g \in F : Kind[g.rule] \in Owns}}

(* Mutant: a forwarder is stopped and stays in the map. *)
DropKeepsEntry(F, T) ==
  /\ forwarders' = forwarders
  /\ alive' = alive \ F
  /\ up' = up \ (T \cup OwnTunnels(F))

(* f.Stop and delete(a.forwarders, id) for every f in F, together with the *)
(* tunnel clients T the caller stops.                                      *)
Drop(F, T) ==
  /\ forwarders' = forwarders \ F
  /\ alive' = alive \ F
  /\ up' = up \ (T \cup OwnTunnels(F))

SetStatus(r, s) == status' = [status EXCEPT ![r] = s]

Goto(w, l) == pc' = [pc EXCEPT ![w] = l]

(* Mutant: a changed field is not compared. *)
ChangedNever(was, r, now) == was[r] # None /\ now[r] = None

(* ruleConfigChanged, for a rule both lists have. *)
Changed(was, r, now) == was[r] # None /\ was[r] # now[r]

InUse(F) == {f.tun : f \in F} \cup {hand[w].tun : w \in {v \in Workers : hand[v] # None}}
FreeTunnels == TunnelIds \ (up \cup {tunnels[r] : r \in Rules} \cup InUse(alive \cup forwarders))
FreeIds == ForwarderIds \ ({f.id : f \in alive \cup forwarders} \cup {handler[r] : r \in Rules}
                           \cup {hand[w].id : w \in {v \in Workers : hand[v] # None}})

-----------------------------------------------------------------------------
(* syncRules, the worker "poll". *)

(* GetRules answers with the server's rules; they are used only later. *)
PollFetch(w) ==
  /\ w = "poll" /\ pc[w] = "idle"
  /\ plan' = [plan EXCEPT ![w] = srv]
  /\ Goto(w, "adopt")
  /\ UNCHANGED <<srvVars, events, agent, ret, todo, old, cur, hand, ev, shared>>

(* The critical section of rulesMu: keep the old list, install the new. *)
PollAdopt(w) ==
  /\ w = "poll" /\ pc[w] = "adopt"
  /\ old' = [old EXCEPT ![w] = rules]
  /\ rules' = plan[w] /\ shared' = TRUE
  /\ Goto(w, "reconcile")
  /\ UNCHANGED <<srvVars, events, blocked, configVersion, forwarders, tunnels, handler,
                 status, alive, up, ret, todo, plan, cur, hand, ev>>

(* The critical section of forwardersMu: stop what was removed or changed. *)
PollReconcile(w) ==
  /\ w = "poll" /\ pc[w] = "reconcile"
  /\ LET gone    == {f \in forwarders : plan[w][f.rule] = None}
         changed == {f \in forwarders \ gone : Changed(old[w], f.rule, plan[w])}
     IN /\ Drop(gone \cup changed, {})
        /\ status' = [r \in Rules |-> IF \E f \in gone : f.rule = r THEN None ELSE status[r]]
        /\ todo' = [todo EXCEPT ![w] = {f.rule : f \in changed}]
  /\ old' = [old EXCEPT ![w] = NoRules]
  /\ Goto(w, "restart")
  /\ UNCHANGED <<srvVars, events, rules, blocked, configVersion, tunnels, handler,
                 ret, plan, cur, hand, ev, shared>>

-----------------------------------------------------------------------------
(* handleConfigSync, the worker "hub". *)

HubTake(w) == w = "hub" /\ pc[w] = "idle" /\ events # <<>> /\ events' = Tail(events)

(* An incremental event that is not newer is acknowledged and skipped. *)
HubSkip(w) ==
  /\ HubTake(w)
  /\ Head(events).op # "full" /\ Head(events).ver <= configVersion
  /\ UNCHANGED <<srvVars, agent, locals>>

(* Where handling of an accepted event begins, and what follows the stop.  *)
FirstStep(e) == CASE e.op = "full" -> "adopt" [] e.op = "blk" -> "block"
                  [] e.op \in {"del", "upd"} -> "stop" [] e.op = "add" -> "check"
AfterStop(e) == IF e.op = "del" THEN "forget" ELSE IF e.op = "upd" THEN "check" ELSE "list"

(* Mutant: without the version check. *)
HubAcceptStale(w) ==
  LET e == Head(events) IN
  /\ HubTake(w)
  /\ ev' = e
  /\ plan' = [plan EXCEPT ![w] = e.rules]
  /\ cur' = [cur EXCEPT ![w] = e.rule]
  /\ ret' = [ret EXCEPT ![w] = AfterStop(e)]
  /\ Goto(w, FirstStep(e))
  /\ UNCHANGED <<srvVars, agent, todo, old, hand, shared>>

HubAccept(w) ==
  LET e == Head(events) IN
  /\ HubTake(w)
  /\ e.op = "full" \/ e.ver > configVersion
  /\ ev' = e
  /\ plan' = [plan EXCEPT ![w] = e.rules]
  /\ cur' = [cur EXCEPT ![w] = e.rule]
  /\ ret' = [ret EXCEPT ![w] = AfterStop(e)]
  /\ Goto(w, FirstStep(e))
  /\ UNCHANGED <<srvVars, agent, todo, old, hand, shared>>

(* handleFullSync, under rulesMu and forwardersMu. *)
FullAdopt(w) ==
  /\ w = "hub" /\ pc[w] = "adopt"
  /\ blocked' = ev.blk /\ rules' = ev.rules /\ shared' = FALSE
  /\ LET gone    == {f \in forwarders : ev.rules[f.rule] = None}
         barred  == {f \in forwarders \ gone : Protocol[ev.rules[f.rule]] \in ev.blk}
         changed == {f \in forwarders \ (gone \cup barred) : Changed(rules, f.rule, ev.rules)}
     IN /\ Drop(gone \cup barred \cup changed, {})
        /\ status' = [r \in Rules |-> IF \E f \in gone : f.rule = r THEN None
                                      ELSE IF \E f \in barred : f.rule = r THEN "error"
                                      ELSE status[r]]
        /\ todo' = [todo EXCEPT ![w] = {f.rule : f \in changed}]
  /\ Goto(w, "restart")
  /\ UNCHANGED <<srvVars, events, configVersion, tunnels, handler, ret, plan, old, cur, hand, ev>>

(* updateBlockedProtocols; an empty list evicts nothing. *)
Block(w) ==
  /\ pc[w] = "block"
  /\ blocked' = ev.blk
  /\ Goto(w, IF ev.blk = {} THEN "list" ELSE "copy")
  /\ UNCHANGED <<srvVars, events, rules, configVersion, forwarders, tunnels, handler, status,
                 alive, up, ret, todo, plan, old, cur, hand, ev, shared>>

(* stopBlockedProtocolForwarders copies the rules, under rulesMu. *)
CopyRules(w) ==
  /\ pc[w] = "copy"
  /\ old' = [old EXCEPT ![w] = rules]
  /\ Goto(w, "evict")
  /\ UNCHANGED <<srvVars, events, agent, ret, todo, plan, cur, hand, ev, shared>>

(* Mutant: the evicted rules keep the status they had. *)
EvictSilently(w) ==
  /\ pc[w] = "evict"
  /\ Drop({f \in forwarders : /\ old[w][f.rule] # None
                              /\ Protocol[old[w][f.rule]] \in ev.blk}, {})
  /\ old' = [old EXCEPT ![w] = NoRules]
  /\ Goto(w, "list")
  /\ UNCHANGED <<srvVars, events, rules, blocked, configVersion, tunnels, handler, status,
                 ret, todo, plan, cur, hand, ev, shared>>

(* Then it stops their forwarders, under forwardersMu, by the copy. *)
Evict(w) ==
  /\ pc[w] = "evict"
  /\ LET barred == {f \in forwarders : /\ old[w][f.rule] # None
                                       /\ Protocol[old[w][f.rule]] \in ev.blk}
     IN /\ Drop(barred, {})
        /\ status' = [r \in Rules |-> IF \E f \in barred : f.rule = r THEN "error" ELSE status[r]]
  /\ old' = [old EXCEPT ![w] = NoRules]
  /\ Goto(w, "list")
  /\ UNCHANGED <<srvVars, events, rules, blocked, configVersion, tunnels, handler,
                 ret, todo, plan, cur, hand, ev, shared>>

(* deleteRuleStatus of a removed rule. *)
Forget(w) ==
  /\ pc[w] = "forget"
  /\ SetStatus(cur[w], None)
  /\ Goto(w, "list")
  /\ UNCHANGED <<srvVars, events, rules, blocked, configVersion, forwarders, tunnels, handler,
                 alive, up, ret, todo, plan, old, cur, hand, ev, shared>>

(* updateRulesList merges the event into whatever a.rules is by now and    *)
(* makes a new slice of the result.                                        *)
UpdateRulesList(w) ==
  /\ pc[w] = "list" /\ shared' = FALSE
  /\ rules' = IF ev.op = "blk" THEN rules ELSE [rules EXCEPT ![ev.rule] = ev.rules[ev.rule]]
  /\ Goto(w, "finish")
  /\ UNCHANGED <<srvVars, events, blocked, configVersion, forwarders, tunnels, handler, status,
                 alive, up, ret, todo, plan, old, cur, hand, ev>>

(* Mutant: the version recorded is the next one. *)
FinishAhead(w) ==
  /\ pc[w] = "finish" \/ (pc[w] = "scan" /\ todo[w] = {})
  /\ configVersion' = IF w = "hub" THEN ev.ver + 1 ELSE configVersion
  /\ ev' = IF w = "hub" THEN None ELSE ev
  /\ plan' = [plan EXCEPT ![w] = NoRules] /\ old' = [old EXCEPT ![w] = NoRules]
  /\ cur' = [cur EXCEPT ![w] = None] /\ ret' = [ret EXCEPT ![w] = "idle"]
  /\ shared' = (shared /\ w # "poll")
  /\ Goto(w, "idle")
  /\ UNCHANGED <<srvVars, events, rules, blocked, forwarders, tunnels, handler, status,
                 alive, up, todo, hand>>

(* The version is recorded and acknowledged whatever startForwarder did.   *)
Finish(w) ==
  /\ pc[w] = "finish" \/ (pc[w] = "scan" /\ todo[w] = {})
  /\ configVersion' = IF w = "hub" THEN ev.ver ELSE configVersion
  /\ ev' = IF w = "hub" THEN None ELSE ev
  /\ plan' = [plan EXCEPT ![w] = NoRules] /\ old' = [old EXCEPT ![w] = NoRules]
  /\ cur' = [cur EXCEPT ![w] = None] /\ ret' = [ret EXCEPT ![w] = "idle"]
  /\ shared' = (shared /\ w # "poll")
  /\ Goto(w, "idle")
  /\ UNCHANGED <<srvVars, events, rules, blocked, forwarders, tunnels, handler, status,
                 alive, up, todo, hand>>

-----------------------------------------------------------------------------
(* The loops that call startForwarder: first over the changed rules, then  *)
(* over the new ones, in any order.  "poll" reads a.forwarders once before *)
(* the second loop, "hub" before each rule.                                *)

LoopTake(w) ==
  /\ pc[w] \in {"restart", "scan"}
  /\ \E r \in todo[w] :
       /\ todo' = [todo EXCEPT ![w] = @ \ {r}]
       /\ IF w = "hub" /\ pc[w] = "scan" /\ Registered(r) # {}
          THEN UNCHANGED <<pc, cur, ret>>
          ELSE /\ Goto(w, "check")
               /\ cur' = [cur EXCEPT ![w] = r] /\ ret' = [ret EXCEPT ![w] = pc[w]]
  /\ UNCHANGED <<srvVars, events, agent, plan, old, hand, ev, shared>>

LoopNext(w) ==
  /\ pc[w] = "restart" /\ todo[w] = {}
  /\ todo' = [todo EXCEPT ![w] = {r \in Rules : /\ plan[w][r] # None
                                                /\ w = "poll" => Registered(r) = {}}]
  /\ Goto(w, "scan")
  /\ UNCHANGED <<srvVars, events, agent, ret, plan, old, cur, hand, ev, shared>>

-----------------------------------------------------------------------------
(* stopForwarder, and the commands of the worker "cmd". *)

(* Mutant: the stopped tunnel is forgotten and still runs. *)
StopLosesTunnel(w) ==
  /\ pc[w] = "stop"
  /\ Drop(Registered(cur[w]), {})
  /\ tunnels' = [tunnels EXCEPT ![cur[w]] = None]
  /\ Goto(w, ret[w])
  /\ ret' = [ret EXCEPT ![w] = IF w = "hub" THEN "list" ELSE "finish"]
  /\ UNCHANGED <<srvVars, events, rules, blocked, configVersion, handler, status,
                 todo, plan, old, cur, hand, ev, shared>>

(* Under forwardersMu and tunnelsMu: the forwarder and the rule's tunnels. *)
StopForwarder(w) ==
  /\ pc[w] = "stop"
  /\ Drop(Registered(cur[w]), {tunnels[cur[w]]})
  /\ tunnels' = [tunnels EXCEPT ![cur[w]] = None]
  /\ Goto(w, ret[w])
  /\ ret' = [ret EXCEPT ![w] = IF w = "hub" THEN "list" ELSE "finish"]
  /\ UNCHANGED <<srvVars, events, rules, blocked, configVersion, handler, status,
                 todo, plan, old, cur, hand, ev, shared>>

(* restart_rule (then = "read") and stop_rule (then = "stopped"); the id   *)
(* the server names need not be a rule the agent has.                      *)
Command(w) ==
  /\ w = "cmd" /\ pc[w] = "idle"
  /\ \E r \in Rules, then \in {"read", "stopped"} :
       cur' = [cur EXCEPT ![w] = r] /\ ret' = [ret EXCEPT ![w] = then]
  /\ Goto(w, "stop")
  /\ UNCHANGED <<srvVars, events, agent, todo, plan, old, hand, ev, shared>>

(* restart_rule copies the rule from a.rules after the stop. *)
ReadRule(w) ==
  /\ pc[w] = "read"
  /\ plan' = [plan EXCEPT ![w] = rules]
  /\ Goto(w, IF rules[cur[w]] = None THEN "finish" ELSE "check")
  /\ UNCHANGED <<srvVars, events, agent, ret, todo, old, cur, hand, ev, shared>>

Stopped(w) ==
  /\ pc[w] = "stopped"
  /\ SetStatus(cur[w], "stopped")
  /\ Goto(w, "finish")
  /\ UNCHANGED <<srvVars, events, rules, blocked, configVersion, forwarders, tunnels, handler,
                 alive, up, ret, todo, plan, old, cur, hand, ev, shared>>

-----------------------------------------------------------------------------
(* startForwarder(plan[w][cur[w]]), one step per thing another goroutine   *)
(* can come between.                                                       *)

kind(w) == Kind[cur[w]]

(* Mutant: the block list is not consulted. *)
CheckNothing(w) ==
  /\ pc[w] = "check"
  /\ Goto(w, "announce")
  /\ UNCHANGED <<srvVars, events, agent, ret, todo, plan, old, cur, hand, ev, shared>>

Check(w) ==
  /\ pc[w] = "check"
  /\ Goto(w, IF Protocol[plan[w][cur[w]]] \in blocked THEN "fail" ELSE "announce")
  /\ UNCHANGED <<srvVars, events, agent, ret, todo, plan, old, cur, hand, ev, shared>>

Announce(w) ==
  /\ pc[w] = "announce"
  /\ SetStatus(cur[w], "starting")
  /\ Goto(w, "tunnel")
  /\ UNCHANGED <<srvVars, events, rules, blocked, configVersion, forwarders, tunnels, handler,
                 alive, up, ret, todo, plan, old, cur, hand, ev, shared>>

(* The forwarder object around its tunnel client. *)
Build(w, t) ==
  /\ \E i \in FreeIds : hand' = [hand EXCEPT ![w] =
          [id |-> i, rule |-> cur[w], cfg |-> plan[w][cur[w]], tun |-> t]]
  /\ Goto(w, "attach")

(* The kinds without a tunnel; or the tunnel a.tunnels already has; or a   *)
(* new one, which a.tunnels keeps for the kinds that reuse it.             *)
GetOrCreateTunnel(w) ==
  /\ pc[w] = "tunnel"
  /\ \/ /\ kind(w) \notin Dials
        /\ Build(w, None) /\ UNCHANGED <<tunnels, up>>
     \/ /\ kind(w) \in Reuses /\ tunnels[cur[w]] # None
        /\ Build(w, tunnels[cur[w]]) /\ UNCHANGED <<tunnels, up>>
     \/ /\ kind(w) \in Dials
        /\ kind(w) \in Reuses => tunnels[cur[w]] = None
        /\ \E t \in FreeTunnels :
             /\ Build(w, t)
             /\ up' = up \cup {t}
             /\ tunnels' = IF kind(w) \in Reuses THEN [tunnels EXCEPT ![cur[w]] = t] ELSE tunnels
  /\ UNCHANGED <<srvVars, events, rules, blocked, configVersion, forwarders, handler, status,
                 alive, ret, todo, plan, old, cur, ev, shared>>

(* The tunnel does not come up within its initial attempts; or the tunnel  *)
(* server of an exit or a relay does not start.                            *)
TunnelFails(w) ==
  /\ pc[w] = "tunnel" /\ kind(w) \in Dials \cup {"exit"}
  /\ kind(w) \in Reuses \ {"relay"} => tunnels[cur[w]] = None
  /\ Goto(w, "fail")
  /\ UNCHANGED <<srvVars, events, agent, ret, todo, plan, old, cur, hand, ev, shared>>

(* t.SetHandler(f), server.AddHandler(id, f).  Load balancing also stores  *)
(* its tunnels now, over what was there (storeMultiTunnels).               *)
Attach(w) ==
  /\ pc[w] = "attach"
  /\ handler' = IF kind(w) \in Handles THEN [handler EXCEPT ![cur[w]] = hand[w].id] ELSE handler
  /\ tunnels' = IF kind(w) = "multi" THEN [tunnels EXCEPT ![cur[w]] = hand[w].tun] ELSE tunnels
  /\ Goto(w, "start")
  /\ UNCHANGED <<srvVars, events, rules, blocked, configVersion, forwarders, status,
                 alive, up, ret, todo, plan, old, cur, hand, ev, shared>>

(* Mutant: sockets are bound with SO_REUSEPORT. *)
SocketShared(f) == FALSE

(* A socket of the host is taken by a forwarder of the rule that still     *)
(* listens on it, or by another program.                                   *)
SocketTaken(f) == \E g \in alive : /\ g.rule = f.rule /\ Kind[f.rule] \in Listens
                                   /\ Socket[g.cfg] = Socket[f.cfg]

Start(w) ==
  /\ pc[w] = "start" /\ ~SocketTaken(hand[w])
  /\ alive' = alive \cup {hand[w]}
  /\ Goto(w, "register")
  /\ UNCHANGED <<srvVars, events, rules, blocked, configVersion, forwarders, tunnels, handler,
                 status, up, ret, todo, plan, old, cur, hand, ev, shared>>

StartFails(w) ==
  /\ pc[w] = "start" /\ kind(w) # "relay"
  /\ Goto(w, "cleanup")
  /\ UNCHANGED <<srvVars, events, agent, ret, todo, plan, old, cur, hand, ev, shared>>

(* entry: cleanupTunnelsForRule stops and forgets the rule's tunnels;      *)
(* chain entry: the tunnel is stopped but stays in a.tunnels; SMUX: the    *)
(* client is stopped; exit: the handler is removed.                        *)
Cleanup(w) ==
  /\ pc[w] = "cleanup"
  /\ LET forget == kind(w) \in {"entry", "multi"}
     IN /\ up' = up \ {IF forget THEN tunnels[cur[w]] ELSE hand[w].tun}
        /\ tunnels' = IF forget THEN [tunnels EXCEPT ![cur[w]] = None] ELSE tunnels
  /\ handler' = IF kind(w) = "exit" THEN [handler EXCEPT ![cur[w]] = None] ELSE handler
  /\ hand' = [hand EXCEPT ![w] = None]
  /\ Goto(w, "fail")
  /\ UNCHANGED <<srvVars, events, rules, blocked, configVersion, forwarders, status, alive,
                 ret, todo, plan, old, cur, ev, shared>>

Fail(w) ==
  /\ pc[w] = "fail"
  /\ SetStatus(cur[w], "error")
  /\ Goto(w, ret[w])
  /\ UNCHANGED <<srvVars, events, rules, blocked, configVersion, forwarders, tunnels, handler,
                 alive, up, ret, todo, plan, old, cur, hand, ev, shared>>

(* a.forwarders[id] = f: a forwarder already there is replaced, not stopped. *)
Register(w) ==
  /\ pc[w] = "register"
  /\ forwarders' = (forwarders \ Registered(cur[w])) \cup {hand[w]}
  /\ hand' = [hand EXCEPT ![w] = None]
  /\ Goto(w, "mark")
  /\ UNCHANGED <<srvVars, events, rules, blocked, configVersion, tunnels, handler, status,
                 alive, up, ret, todo, plan, old, cur, ev, shared>>

Mark(w) ==
  /\ pc[w] = "mark"
  /\ SetStatus(cur[w], "running")
  /\ Goto(w, ret[w])
  /\ UNCHANGED <<srvVars, events, rules, blocked, configVersion, forwarders, tunnels, handler,
                 alive, up, ret, todo, plan, old, cur, hand, ev, shared>>

-----------------------------------------------------------------------------
(* A rule has a client that may be dialling: one that runs, or the one the *)
(* rule is being started with, in its initial attempts or just after.      *)
Dialling(r) ==
  \/ tunnels[r] \in up
  \/ \E f \in alive \cup {hand[w] : w \in Workers} : f # None /\ f.rule = r /\ f.tun \in up
  \/ \E w \in Workers : /\ pc[w] = "tunnel" /\ cur[w] = r
                        /\ kind(w) \in Reuses => tunnels[r] = None

(* The refresher of a tunnel dialled by address (chain rules, and entry    *)
(* rules with a next hop), between two attempts: RefreshRule's answer      *)
(* replaces the rule in a.rules if it is there.  That may be the very      *)
(* slice syncRules still iterates over: it then sees the new content,      *)
(* except for the element it has copied to start it.                       *)
Copied(r) == cur["poll"] = r /\ ret["poll"] = "scan"

RefreshRule ==
  /\ Refreshing
  /\ \E r \in Rules :
       /\ Kind[r] \in {"entry", "chain", "relay", "smux"} /\ srv[r] # None
       /\ Dialling(r) /\ rules[r] # None
       /\ rules' = [rules EXCEPT ![r] = srv[r]]
       /\ plan' = IF shared /\ ~Copied(r) THEN [plan EXCEPT !["poll"][r] = srv[r]] ELSE plan
  /\ UNCHANGED <<srvVars, events, blocked, configVersion, forwarders, tunnels, handler, status,
                 alive, up, pc, ret, todo, old, cur, hand, ev, shared>>

StartStep(w) ==
  \/ Check(w) \/ Announce(w) \/ GetOrCreateTunnel(w) \/ TunnelFails(w) \/ Attach(w)
  \/ Start(w) \/ StartFails(w) \/ Cleanup(w) \/ Fail(w) \/ Register(w) \/ Mark(w)

LoopStep(w) == LoopTake(w) \/ LoopNext(w)

HubStep(w) ==
  \/ HubSkip(w) \/ HubAccept(w) \/ FullAdopt(w) \/ Block(w) \/ CopyRules(w) \/ Evict(w)
  \/ Forget(w) \/ UpdateRulesList(w)

Worker(w) ==
  \/ PollFetch(w) \/ PollAdopt(w) \/ PollReconcile(w) \/ HubStep(w)
  \/ StopForwarder(w) \/ Command(w) \/ ReadRule(w) \/ Stopped(w)
  \/ LoopStep(w) \/ StartStep(w) \/ Finish(w)

Server == AddRule \/ UpdateRule \/ RemoveRule \/ BlockProtocols \/ SendFullSync

Next == Server \/ RefreshRule \/ \E w \in Workers : Worker(w)

Spec == Init /\ [][Next]_vars

(* Every goroutine the scheduler can run is run; the ticker keeps firing.  *)
FairSpec == Spec /\ \A w \in Workers : WF_vars(Worker(w))

-----------------------------------------------------------------------------
(* Safety of every interleaving. *)

(* A tunnel client that still runs can be found and stopped: a.tunnels has *)
(* it, or the SMUX forwarder that owns it is alive or being started.       *)
(* Load balancing (storeMultiTunnels) is excepted: it overwrites.          *)
TunnelsTracked ==
  \A t \in up : \/ \E r \in Rules : tunnels[r] = t
                \/ \E f \in alive : Kind[f.rule] \in Owns /\ f.tun = t
                \/ \E w \in Workers : hand[w] # None /\ hand[w].tun = t /\ Kind[hand[w].rule] \in Owns

(* a.forwarders never holds a forwarder that was stopped, so a rule the    *)
(* loops skip because it has a forwarder does have a running one.          *)
RegisteredIsAlive == forwarders \subseteq alive

(* While the contents of a rule ask for one socket, a forwarder that       *)
(* listens is registered, or the goroutine that started it is about to     *)
(* register it: no interleaving of the unlocked window between Start and   *)
(* the map update leaves a listener nobody can stop.                       *)
NoOrphanListener ==
  (\A c, d \in Configs : Socket[c] = Socket[d]) =>
    \A f \in alive \ forwarders :
       Kind[f.rule] \in Listens => \E w \in Workers : hand[w] = f /\ pc[w] = "register"

-----------------------------------------------------------------------------
(* Why they hold: what each worker's locals say at each of its steps. *)

(* The rule a worker is about to start has a content, only "hub" handles   *)
(* events, and the rules left to start belong to a loop that is running.   *)
ControlOf(w) ==
  /\ hand[w] # None <=> pc[w] \in {"attach", "start", "cleanup", "register"}
  /\ pc[w] \in HubPCs \/ ret[w] \in {"list", "forget", "check"} => w = "hub"
  /\ ret[w] \in {"read", "stopped"} => w = "cmd"
  /\ w = "hub" /\ pc[w] = "adopt" => plan[w] = ev.rules
  /\ pc[w] \in {"check", "announce", "tunnel"} \/ (pc[w] = "stop" /\ ret[w] = "check")
       => cur[w] \in Rules /\ plan[w][cur[w]] # None
  /\ pc[w] = "read" \/ (pc[w] = "stop" /\ ret[w] = "read") => cur[w] \in Rules
  /\ pc[w] = "stop" => ret[w] \in {"forget", "check", "read", "stopped"}
  /\ pc[w] \in StartPCs => ret[w] \in LoopPCs \cup {"list", "finish"}
  /\ pc[w] = "read" => ret[w] = "finish"
  /\ todo[w] # {} => \/ pc[w] \in LoopPCs
                     \/ pc[w] \in StartPCs /\ ret[w] \in LoopPCs
  /\ \A r \in todo[w] : plan[w][r] # None

Control ==
  /\ "hub" \in Workers /\ pc["hub"] # "idle" => ev \in Events
  /\ \A w \in Workers : ControlOf(w)

(* The forwarder a worker holds is of the rule it is starting, no other    *)
(* goroutine has it, and once started it runs until it is registered.      *)
Hands ==
  \A w \in Workers :
    /\ hand[w] # None => /\ hand[w].rule = cur[w]
                         /\ \A f \in forwarders : f.id # hand[w].id
                         /\ \A v \in Workers \ {w} :
                              hand[v] # None => hand[v].id # hand[w].id
    /\ pc[w] = "register" => hand[w] \in alive

-----------------------------------------------------------------------------
(* What hubLoop achieves when no other goroutine interferes and no event   *)
(* is lost: between two events the agent is what the server published.     *)

Quiet == \A w \in Workers : pc[w] = "idle"

(* a.rules is exactly the server's rule set at a.configVersion, and every  *)
(* running forwarder runs the content that version gives its rule.         *)
AgentAtItsVersion ==
  Quiet => /\ rules = history[configVersion]
           /\ \A f \in forwarders : f.cfg = history[configVersion][f.rule]

(* The status the agent reports says "running" exactly for the rules that  *)
(* have a forwarder.                                                       *)
StatusTruthful ==
  Quiet => \A r \in Rules : status[r] = "running" <=> Registered(r) # {}

(* No forwarder of a blocked protocol survives the event that blocks it.   *)
BlockedNotRunning ==
  Quiet => \A f \in forwarders : Protocol[f.cfg] \notin blocked

(* Nothing runs unregistered, and the tunnel messages of a registered      *)
(* forwarder's rule go to that forwarder, over a tunnel that is up.        *)
RegisteredIsWired ==
  Quiet => /\ alive = forwarders
           /\ \A f \in forwarders : /\ Kind[f.rule] \in Handles => handler[f.rule] = f.id
                                    /\ f.tun # None => f.tun \in up

-----------------------------------------------------------------------------
(* "this loop ensures rules are eventually consistent even if WebSocket    *)
(* connection is unstable" (syncLoop): once the server stops editing, no   *)
(* forwarder keeps running an outdated content of its rule.                *)
EventuallyConsistent == <>[](\A f \in forwarders : f.cfg = srv[f.rule])
=============================================================================
