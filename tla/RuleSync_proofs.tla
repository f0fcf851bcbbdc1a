--------------------------- MODULE RuleSync_proofs ---------------------------
(***************************************************************************)
(* Theorems about RuleSync, for any rules, contents, tunnels and bounds:   *)
(* for any workers, type correctness and three facts the agent relies on   *)
(* whenever it skips, stops or restarts a rule; and for hubLoop on its     *)
(* own, that between two events the agent is what the server published.    *)
(***************************************************************************)
EXTENDS RuleSync, SequenceTheorems, TLAPS

(* A nonempty queue of events: its head is an event, its tail a queue.     *)
LEMMA HeadTail ==
  ASSUME NEW S, NEW s \in Seq(S), s # <<>>
  PROVE  Head(s) \in S /\ Tail(s) \in Seq(S)
  OBVIOUS

(* The events the server sends are well formed.                            *)
LEMMA EventType ==
  ASSUME srvVer' \in 0..MaxVersion,
         NEW op \in {"full", "add", "upd", "del", "blk"}, NEW r \in Rules \cup {None},
         NEW S \in RuleSets, NEW B \in SUBSET Protocols,
         op \in {"add", "upd"} => r \in Rules /\ S[r] # None
  PROVE  Event(op, r, S, B) \in Events
  BY DEF Event, Events

(* What every edit of the server does to the types.                        *)
LEMMA EditType ==
  ASSUME TypeOK,
         NEW op \in {"add", "upd", "del", "blk"}, NEW r \in Rules \cup {None},
         NEW S \in RuleSets, NEW B \in SUBSET Protocols,
         op \in {"add", "upd"} => r \in Rules /\ S[r] # None,
         Edit(op, r, S, B)
  PROVE  TypeOK'
<1>1. srvVer' \in 0..MaxVersion /\ srvVer + 1 \in 0..MaxVersion
  BY ConstantsAssumption DEF TypeOK, Edit
<1>2. Event(op, r, S, B) \in Events
  BY <1>1, EventType
<1>3. events' \in Seq(Events)
  <2>1. events' = Append(events, Event(op, r, S, B)) \/ events' = events
    BY DEF Edit, Send
  <2>2. events \in Seq(Events)
    BY DEF TypeOK
  <2> QED
    BY <1>2, <2>1, <2>2
<1>4. srv' \in RuleSets /\ srvBlk' \subseteq Protocols
      /\ history' \in [0..MaxVersion -> RuleSets]
  BY <1>1 DEF TypeOK, Edit
<1>5. UNCHANGED <<agent, locals>>
  BY DEF Edit
<1> QED
  BY <1>1, <1>3, <1>4, <1>5 DEF TypeOK, agent, locals

(* The steps of the server keep the types.                                 *)
LEMMA ServerType == ASSUME TypeOK, Server PROVE TypeOK'
<1>1. CASE AddRule
  <2>1. PICK r \in Rules, c \in Configs : Edit("add", r, [srv EXCEPT ![r] = c], srvBlk)
    BY <1>1 DEF AddRule
  <2>2. [srv EXCEPT ![r] = c] \in RuleSets /\ [srv EXCEPT ![r] = c][r] # None
    BY ConstantsAssumption DEF TypeOK, RuleSets
  <2> QED
    BY <2>1, <2>2, EditType DEF TypeOK
<1>2. CASE UpdateRule
  <2>1. PICK r \in Rules, c \in Configs : Edit("upd", r, [srv EXCEPT ![r] = c], srvBlk)
    BY <1>2 DEF UpdateRule
  <2>2. [srv EXCEPT ![r] = c] \in RuleSets /\ [srv EXCEPT ![r] = c][r] # None
    BY ConstantsAssumption DEF TypeOK, RuleSets
  <2> QED
    BY <2>1, <2>2, EditType DEF TypeOK
<1>3. CASE RemoveRule
  <2>1. PICK r \in Rules : Edit("del", r, [srv EXCEPT ![r] = None], srvBlk)
    BY <1>3 DEF RemoveRule
  <2>2. [srv EXCEPT ![r] = None] \in RuleSets
    BY DEF TypeOK, RuleSets
  <2> QED
    BY <2>1, <2>2, EditType DEF TypeOK
<1>4. CASE BlockProtocols
  <2>1. PICK B \in SUBSET Blockable : Edit("blk", None, srv, B)
    BY <1>4 DEF BlockProtocols
  <2> QED
    BY <2>1, EditType, ConstantsAssumption DEF TypeOK
<1>5. CASE SendFullSync
  <2> DEFINE e == Event("full", None, srv, srvBlk)
  <2>1. PICK k \in 0..Len(events) :
          events' = SubSeq(events, 1, k) \o <<e>> \o SubSeq(events, k + 1, Len(events))
    BY <1>5 DEF SendFullSync
  <2>2. srvVer' \in 0..MaxVersion
    BY <1>5 DEF SendFullSync, srvVars, TypeOK
  <2>3. e \in Events
    BY <2>2, EventType DEF TypeOK
  <2>4. events \in Seq(Events)
    BY DEF TypeOK
  <2>5. SubSeq(events, 1, k) \in Seq(Events)
    BY <2>4
  <2>6. SubSeq(events, k + 1, Len(events)) \in Seq(Events)
    BY <2>4
  <2>7. events' \in Seq(Events)
    BY <2>1, <2>3, <2>5, <2>6
  <2> QED
    BY <1>5, <2>7 DEF SendFullSync, TypeOK, srvVars, agent, locals
<1> QED
  BY <1>1, <1>2, <1>3, <1>4, <1>5 DEF Server

-----------------------------------------------------------------------------
(* The steps of syncRules keep the types.                                  *)
LEMMA PollType ==
  ASSUME TypeOK, NEW w \in Workers, PollFetch(w) \/ PollAdopt(w) \/ PollReconcile(w)
  PROVE  TypeOK'
<1> USE DEF TypeOK, srvVars, agent, Goto, PCs
<1>1. CASE PollFetch(w)
  BY <1>1 DEF PollFetch
<1>2. CASE PollAdopt(w)
  BY <1>2 DEF PollAdopt
<1>3. CASE PollReconcile(w)
  <2>1. \A f \in forwarders : f.rule \in Rules
    BY DEF Forwarder
  <2>2. NoRules \in RuleSets
    BY DEF NoRules, RuleSets
  <2> QED
    BY <1>3, <2>1, <2>2 DEF PollReconcile, Drop, LoopPCs
<1> QED
  BY <1>1, <1>2, <1>3

(* The steps of handleConfigSync keep the types.                           *)
LEMMA HubType ==
  ASSUME TypeOK, Control, NEW w \in Workers, HubStep(w)
  PROVE  TypeOK'
<1> USE DEF TypeOK, srvVars, agent, locals, Goto, SetStatus, PCs, HubPCs
<1>1. CASE HubSkip(w)
  <2>1. events' \in Seq(Events)
    BY <1>1, HeadTail DEF HubSkip, HubTake
  <2> QED
    BY <1>1, <2>1 DEF HubSkip
<1>2. CASE HubAccept(w)
  <2>1. Head(events) \in Events /\ events' \in Seq(Events)
    BY <1>2, HeadTail DEF HubAccept, HubTake
  <2>2. Head(events).rules \in RuleSets /\ Head(events).rule \in Rules \cup {None}
    BY <2>1 DEF Events
  <2>3. FirstStep(Head(events)) \in PCs /\ AfterStop(Head(events)) \in RetPCs
    BY <2>1 DEF Events, FirstStep, AfterStop, StartPCs, RetPCs
  <2> QED
    BY <1>2, <2>1, <2>2, <2>3 DEF HubAccept
<1>3. CASE FullAdopt(w)
  <2>1. ev.blk \subseteq Protocols /\ ev.rules \in RuleSets
    BY <1>3 DEF FullAdopt, Control, ControlOf, Events
  <2>2. \A f \in forwarders : f.rule \in Rules
    BY DEF Forwarder
  <2> QED
    <3>1. rules' \in RuleSets /\ blocked' \subseteq Protocols /\ shared' \in BOOLEAN
      BY <1>3, <2>1 DEF FullAdopt
    <3>2. forwarders' \subseteq forwarders /\ alive' \subseteq alive /\ up' \subseteq up
      BY <1>3 DEF FullAdopt, Drop
    <3>3. todo' \in [Workers -> SUBSET Rules]
      BY <1>3, <2>2 DEF FullAdopt
    <3>4. status' \in [Rules -> {None, "starting", "running", "stopped", "error"}]
      BY <1>3 DEF FullAdopt
    <3>5. pc' \in [Workers -> PCs]
      BY <1>3 DEF FullAdopt, LoopPCs
    <3> QED
      BY <1>3, <3>1, <3>2, <3>3, <3>4, <3>5 DEF FullAdopt
<1>4. CASE Block(w)
  <2>1. ev.blk \subseteq Protocols
    BY <1>4 DEF Block, Control, ControlOf, Events
  <2> QED
    BY <1>4, <2>1 DEF Block
<1>5. CASE CopyRules(w)
  BY <1>5 DEF CopyRules
<1>6. CASE Evict(w)
  <2>1. NoRules \in RuleSets
    BY DEF NoRules, RuleSets
  <2> QED
    BY <1>6, <2>1 DEF Evict, Drop
<1>7. CASE Forget(w)
  BY <1>7 DEF Forget
<1>8. CASE UpdateRulesList(w)
  <2>1. ev.rules \in RuleSets
    BY <1>8 DEF UpdateRulesList, Control, ControlOf, Events
  <2>2. rules' \in RuleSets
    BY <1>8, <2>1 DEF UpdateRulesList, RuleSets
  <2> QED
    BY <1>8, <2>2 DEF UpdateRulesList
<1> QED
  BY <1>1, <1>2, <1>3, <1>4, <1>5, <1>6, <1>7, <1>8 DEF HubStep

(* The loops, the commands and the stop of a rule keep the types.          *)
LEMMA LoopType ==
  ASSUME TypeOK, Control, NEW w \in Workers,
         LoopStep(w) \/ StopForwarder(w) \/ Command(w) \/ ReadRule(w) \/ Stopped(w) \/ Finish(w)
  PROVE  TypeOK'
<1> USE DEF TypeOK, srvVars, agent, Goto, SetStatus, PCs
<1>1. CASE LoopTake(w)
  <2>1. PICK r \in todo[w] :
          /\ todo' = [todo EXCEPT ![w] = @ \ {r}]
          /\ IF w = "hub" /\ pc[w] = "scan" /\ Registered(r) # {}
             THEN UNCHANGED <<pc, cur, ret>>
             ELSE /\ Goto(w, "check")
                  /\ cur' = [cur EXCEPT ![w] = r] /\ ret' = [ret EXCEPT ![w] = pc[w]]
    BY <1>1 DEF LoopTake
  <2>2. r \in Rules /\ todo' \in [Workers -> SUBSET Rules]
    BY <2>1
  <2>3. pc[w] \in RetPCs
    BY <1>1 DEF LoopTake, LoopPCs, RetPCs
  <2>5. \/ UNCHANGED <<pc, cur, ret>>
        \/ /\ pc' = [pc EXCEPT ![w] = "check"] /\ cur' = [cur EXCEPT ![w] = r]
           /\ ret' = [ret EXCEPT ![w] = pc[w]]
    BY <2>1
  <2>6. "check" \in PCs
    BY DEF StartPCs
  <2>4. pc' \in [Workers -> PCs] /\ cur' \in [Workers -> Rules \cup {None}]
        /\ ret' \in [Workers -> RetPCs]
    <3>1. pc' \in [Workers -> PCs]
      BY <2>5, <2>6
    <3>2. cur' \in [Workers -> Rules \cup {None}]
      BY <2>2, <2>5
    <3>3. ret' \in [Workers -> RetPCs]
      BY <2>3, <2>5
    <3> QED
      BY <3>1, <3>2, <3>3
  <2> QED
    BY <1>1, <2>2, <2>4 DEF LoopTake
<1>2. CASE LoopNext(w)
  BY <1>2 DEF LoopNext, LoopPCs
<1>3. CASE StopForwarder(w)
  BY <1>3 DEF StopForwarder, Drop, StartPCs, LoopPCs, HubPCs, RetPCs
<1>4. CASE Command(w)
  BY <1>4 DEF Command, RetPCs
<1>5. CASE ReadRule(w)
  BY <1>5 DEF ReadRule, StartPCs
<1>6. CASE Stopped(w)
  BY <1>6 DEF Stopped
<1>7. CASE Finish(w)
  <2>1. NoRules \in RuleSets
    BY DEF NoRules, RuleSets
  <2>2. configVersion' \in 0..MaxVersion
    BY <1>7, ConstantsAssumption DEF Finish, Control, ControlOf, Events
  <2> QED
    BY <1>7, <2>1, <2>2 DEF Finish, RetPCs
<1> QED
  BY <1>1, <1>2, <1>3, <1>4, <1>5, <1>6, <1>7 DEF LoopStep

(* The steps of startForwarder keep the types.                             *)
LEMMA StartType ==
  ASSUME TypeOK, Control, NEW w \in Workers, StartStep(w)
  PROVE  TypeOK'
<1> USE DEF TypeOK, srvVars, agent, Goto, SetStatus, PCs, StartPCs
<1>1. CASE Check(w)
  BY <1>1 DEF Check
<1>2. CASE Announce(w)
  BY <1>2 DEF Announce
<1>3. CASE GetOrCreateTunnel(w)
  <2>1. cur[w] \in Rules /\ plan[w][cur[w]] \in Configs
    BY <1>3 DEF GetOrCreateTunnel, Control, ControlOf, RuleSets
  <2>2. ASSUME NEW t \in TunnelIds \cup {None}, Build(w, t)
        PROVE  hand' \in [Workers -> Forwarder \cup {None}] /\ pc' \in [Workers -> PCs]
    BY <2>1, <2>2 DEF Build, FreeIds, Forwarder
  <2>3. \E t \in TunnelIds \cup {None} : Build(w, t)
    BY <1>3, <2>1 DEF GetOrCreateTunnel, FreeTunnels
  <2>4. up' \subseteq TunnelIds /\ tunnels' \in [Rules -> TunnelIds \cup {None}]
    BY <1>3 DEF GetOrCreateTunnel, FreeTunnels
  <2> QED
    BY <1>3, <2>2, <2>3, <2>4 DEF GetOrCreateTunnel
<1>4. CASE TunnelFails(w)
  BY <1>4 DEF TunnelFails
<1>5. CASE Attach(w)
  <2>1. hand[w] \in Forwarder
    BY <1>5 DEF Attach, Control, ControlOf
  <2>2. hand[w].id \in ForwarderIds /\ hand[w].tun \in TunnelIds \cup {None}
    BY <2>1 DEF Forwarder
  <2>3. handler' \in [Rules -> ForwarderIds \cup {None}]
        /\ tunnels' \in [Rules -> TunnelIds \cup {None}]
    BY <1>5, <2>2 DEF Attach
  <2> QED
    BY <1>5, <2>3 DEF Attach
<1>6. CASE Start(w)
  <2>1. hand[w] \in Forwarder
    BY <1>6 DEF Start, Control, ControlOf
  <2> QED
    BY <1>6, <2>1 DEF Start
<1>7. CASE StartFails(w)
  BY <1>7 DEF StartFails
<1>8. CASE Cleanup(w)
  BY <1>8 DEF Cleanup
<1>9. CASE Fail(w)
  BY <1>9 DEF Fail, LoopPCs, HubPCs, RetPCs
<1>10. CASE Register(w)
  <2>1. hand[w] \in Forwarder
    BY <1>10 DEF Register, Control, ControlOf
  <2> QED
    BY <1>10, <2>1 DEF Register, Registered
<1>11. CASE Mark(w)
  BY <1>11 DEF Mark, LoopPCs, HubPCs, RetPCs
<1> QED
  BY <1>1, <1>2, <1>3, <1>4, <1>5, <1>6, <1>7, <1>8, <1>9, <1>10, <1>11 DEF StartStep

(* The refresher keeps the types.                                          *)
LEMMA RefreshType == ASSUME TypeOK, RefreshRule PROVE TypeOK'
<1>1. PICK r \in Rules :
        /\ rules' = [rules EXCEPT ![r] = srv[r]]
        /\ plan' = IF shared /\ ~Copied(r) THEN [plan EXCEPT !["poll"][r] = srv[r]] ELSE plan
  BY DEF RefreshRule
<1>2. rules' \in RuleSets
  BY <1>1 DEF TypeOK, RuleSets
<1>3. plan' \in [Workers -> RuleSets]
  <2>1. CASE "poll" \in Workers
    <3>1. [plan["poll"] EXCEPT ![r] = srv[r]] \in RuleSets
      BY <2>1 DEF TypeOK, RuleSets
    <3> QED
      BY <1>1, <3>1 DEF TypeOK
  <2>2. CASE "poll" \notin Workers
    BY <1>1, <2>2 DEF TypeOK
  <2> QED
    BY <2>1, <2>2
<1> QED
  BY <1>2, <1>3 DEF RefreshRule, TypeOK, srvVars

-----------------------------------------------------------------------------
(* A worker's step leaves the locals of the others alone, and only "hub"   *)
(* changes the event that is handled.                                      *)
LEMMA OthersKept ==
  ASSUME TypeOK, NEW w \in Workers, Worker(w), NEW v \in Workers, v # w
  PROVE  /\ pc'[v] = pc[v] /\ ret'[v] = ret[v] /\ todo'[v] = todo[v] /\ plan'[v] = plan[v]
         /\ cur'[v] = cur[v] /\ hand'[v] = hand[v]
         /\ v = "hub" => ev' = ev
<1> USE DEF TypeOK, locals, Goto
<1>1. CASE PollFetch(w) \/ PollAdopt(w) \/ PollReconcile(w)
  BY <1>1 DEF PollFetch, PollAdopt, PollReconcile
<1>2. CASE HubStep(w)
  <2>1. CASE HubSkip(w) \/ HubAccept(w) \/ FullAdopt(w)
    BY <2>1 DEF HubSkip, HubAccept, HubTake, FullAdopt
  <2>2. CASE Block(w) \/ CopyRules(w) \/ Evict(w) \/ Forget(w) \/ UpdateRulesList(w)
    BY <2>2 DEF Block, CopyRules, Evict, Forget, UpdateRulesList
  <2> QED
    BY <1>2, <2>1, <2>2 DEF HubStep
<1>3. CASE StopForwarder(w) \/ Command(w) \/ ReadRule(w) \/ Stopped(w) \/ Finish(w)
  BY <1>3 DEF StopForwarder, Command, ReadRule, Stopped, Finish
<1>4. CASE LoopStep(w)
  BY <1>4 DEF LoopStep, LoopTake, LoopNext
<1>5. CASE StartStep(w)
  BY <1>5 DEF StartStep, Check, Announce, GetOrCreateTunnel, Build, TunnelFails, Attach,
              Start, StartFails, Cleanup, Fail, Register, Mark
<1> QED
  BY <1>1, <1>2, <1>3, <1>4, <1>5 DEF Worker

(* What the locals of a worker say is kept by each step of syncRules,      *)
LEMMA PollControl ==
  ASSUME TypeOK, Control, NEW w \in Workers, PollFetch(w) \/ PollAdopt(w) \/ PollReconcile(w)
  PROVE  ControlOf(w)'
<1> USE DEF TypeOK, Control, ControlOf, Goto, StartPCs, LoopPCs, HubPCs
<1>1. CASE PollFetch(w)
  BY <1>1 DEF PollFetch
<1>2. CASE PollAdopt(w)
  BY <1>2 DEF PollAdopt
<1>3. CASE PollReconcile(w)
  BY <1>3 DEF PollReconcile, Drop
<1> QED
  BY <1>1, <1>2, <1>3

(* of handleConfigSync,                                                    *)
LEMMA HubControl ==
  ASSUME TypeOK, Control, NEW w \in Workers, HubStep(w)
  PROVE  ControlOf(w)'
<1> USE DEF TypeOK, Control, ControlOf, Goto, StartPCs, LoopPCs, HubPCs
<1>1. CASE HubSkip(w)
  BY <1>1 DEF HubSkip, locals, agent
<1>2. CASE HubAccept(w)
  <2>1. Head(events) \in Events
    BY <1>2, HeadTail DEF HubAccept, HubTake
  <2> QED
    BY <1>2, <2>1 DEF HubAccept, HubTake, FirstStep, AfterStop, Events
<1>3. CASE FullAdopt(w)
  BY <1>3 DEF FullAdopt
<1>4. CASE Block(w)
  BY <1>4 DEF Block
<1>5. CASE CopyRules(w)
  BY <1>5 DEF CopyRules
<1>6. CASE Evict(w)
  BY <1>6 DEF Evict
<1>7. CASE Forget(w)
  BY <1>7 DEF Forget
<1>8. CASE UpdateRulesList(w)
  BY <1>8 DEF UpdateRulesList
<1> QED
  BY <1>1, <1>2, <1>3, <1>4, <1>5, <1>6, <1>7, <1>8 DEF HubStep

(* of the loops, the commands and the stop of a rule,                      *)
LEMMA LoopControl ==
  ASSUME TypeOK, Control, NEW w \in Workers,
         LoopStep(w) \/ StopForwarder(w) \/ Command(w) \/ ReadRule(w) \/ Stopped(w) \/ Finish(w)
  PROVE  ControlOf(w)'
<1> USE DEF TypeOK, Control, ControlOf, Goto, StartPCs, LoopPCs, HubPCs
<1>1. CASE LoopTake(w)
  BY <1>1 DEF LoopTake
<1>2. CASE LoopNext(w)
  BY <1>2 DEF LoopNext
<1>3. CASE StopForwarder(w)
  BY <1>3 DEF StopForwarder
<1>4. CASE Command(w)
  BY <1>4 DEF Command
<1>5. CASE ReadRule(w)
  BY <1>5 DEF ReadRule
<1>6. CASE Stopped(w)
  BY <1>6 DEF Stopped
<1>7. CASE Finish(w)
  BY <1>7 DEF Finish
<1> QED
  BY <1>1, <1>2, <1>3, <1>4, <1>5, <1>6, <1>7 DEF LoopStep

(* and of startForwarder.                                                  *)
LEMMA StartControl ==
  ASSUME TypeOK, Control, NEW w \in Workers, StartStep(w)
  PROVE  ControlOf(w)'
<1> USE DEF TypeOK, Control, ControlOf, Goto, StartPCs, LoopPCs, HubPCs
<1>1. CASE Check(w)
  BY <1>1 DEF Check
<1>2. CASE Announce(w)
  BY <1>2 DEF Announce
<1>3. CASE GetOrCreateTunnel(w)
  <2>1. PICK t \in TunnelIds \cup {None} : Build(w, t)
    BY <1>3 DEF GetOrCreateTunnel, FreeTunnels
  <2>2. hand'[w] # None
    <3>1. cur[w] \in Rules /\ plan[w][cur[w]] \in Configs
      BY <1>3 DEF GetOrCreateTunnel, RuleSets
    <3> QED
      BY <2>1, <3>1, ConstantsAssumption DEF Build, FreeIds, Forwarder
  <2>3. pc' = [pc EXCEPT ![w] = "attach"] /\ UNCHANGED <<ret, todo, plan, cur>>
    BY <1>3, <2>1 DEF GetOrCreateTunnel, Build
  <2>4. pc[w] = "tunnel"
    BY <1>3 DEF GetOrCreateTunnel
  <2> QED
    BY <2>2, <2>3, <2>4
<1>4. CASE TunnelFails(w)
  BY <1>4 DEF TunnelFails
<1>5. CASE Attach(w)
  BY <1>5 DEF Attach
<1>6. CASE Start(w)
  BY <1>6 DEF Start
<1>7. CASE StartFails(w)
  BY <1>7 DEF StartFails
<1>8. CASE Cleanup(w)
  BY <1>8 DEF Cleanup
<1>9. CASE Fail(w)
  BY <1>9 DEF Fail
<1>10. CASE Register(w)
  BY <1>10 DEF Register
<1>11. CASE Mark(w)
  BY <1>11 DEF Mark
<1> QED
  BY <1>1, <1>2, <1>3, <1>4, <1>5, <1>6, <1>7, <1>8, <1>9, <1>10, <1>11 DEF StartStep

(* The event "hub" handles is there from HubAccept until Finish.           *)
LEMMA EventKept ==
  ASSUME TypeOK, Control, NEW w \in Workers, Worker(w), "hub" \in Workers, pc'["hub"] # "idle"
  PROVE  ev' \in Events
<1>1. CASE w # "hub"
  BY <1>1, OthersKept DEF Control
<1>2. CASE w = "hub" /\ ev' = ev /\ pc[w] # "idle"
  BY <1>2 DEF Control
<1>3. CASE w = "hub" /\ ~(ev' = ev /\ pc[w] # "idle")
  <2>1. HubAccept(w) \/ HubSkip(w) \/ Finish(w)
    BY <1>3 DEF Worker, PollFetch, PollAdopt, PollReconcile, HubStep, FullAdopt, Block, CopyRules,
      Evict, Forget, UpdateRulesList, StopForwarder, Command, ReadRule, Stopped, LoopStep, LoopTake,
      LoopNext, StartStep, Check, Announce, GetOrCreateTunnel, TunnelFails, Attach, Start,
      StartFails, Cleanup, Fail, Register, Mark
  <2>2. CASE HubAccept(w)
    BY <2>2, HeadTail DEF HubAccept, HubTake, TypeOK
  <2>3. CASE HubSkip(w)
    BY <1>3, <2>3 DEF HubSkip, HubTake, locals
  <2>4. CASE Finish(w)
    BY <1>3, <2>4 DEF Finish, Goto, TypeOK
  <2> QED
    BY <2>1, <2>2, <2>3, <2>4
<1> QED
  BY <1>1, <1>2, <1>3

(* Whatever a worker does, types and what the locals say are kept.         *)
LEMMA WorkerStep ==
  ASSUME TypeOK, Control, NEW w \in Workers, Worker(w)
  PROVE  TypeOK' /\ Control'
<1>1. TypeOK'
  BY PollType, HubType, LoopType, StartType DEF Worker
<1>2. ASSUME NEW v \in Workers PROVE ControlOf(v)'
  <2>1. CASE v = w
    BY <2>1, PollControl, HubControl, LoopControl, StartControl DEF Worker
  <2>2. CASE v # w
    <3>1. ControlOf(v)
      BY DEF Control
    <3> QED
      BY <2>2, <3>1, OthersKept DEF ControlOf
  <2> QED
    BY <2>1, <2>2
<1> QED
  BY <1>1, <1>2, EventKept DEF Control

(* The refresher writes into the poll's list only rules the server still   *)
(* has, so what the loops still have to start keeps a content.             *)
LEMMA RefreshControl == ASSUME TypeOK, Control, RefreshRule PROVE Control'
<1>1. PICK r \in Rules :
        /\ srv[r] # None
        /\ plan' = IF shared /\ ~Copied(r) THEN [plan EXCEPT !["poll"][r] = srv[r]] ELSE plan
  BY DEF RefreshRule
<1>2. UNCHANGED <<pc, ret, todo, cur, hand, ev>>
  BY DEF RefreshRule
<1>3. ASSUME NEW v \in Workers, NEW q \in Rules, plan[v][q] # None
      PROVE  plan'[v][q] # None
  BY <1>1, <1>3 DEF TypeOK, RuleSets
<1>4. \A v \in Workers : v = "hub" => plan'[v] = plan[v]
  BY <1>1 DEF TypeOK
<1>5. \A v \in Workers : todo[v] \subseteq Rules
  BY DEF TypeOK
<1>6. ASSUME NEW v \in Workers PROVE ControlOf(v)'
  BY <1>2, <1>3, <1>4, <1>5 DEF Control, ControlOf
<1> QED
  BY <1>2, <1>6 DEF Control

(* Types and Control are an inductive invariant: they hold initially,      *)
LEMMA InitControl == Init => TypeOK /\ Control
<1> SUFFICES ASSUME Init PROVE TypeOK /\ Control
  OBVIOUS
<1>1. NoRules \in RuleSets
  BY DEF NoRules, RuleSets
<1>2. 0 \in 0..MaxVersion
  BY ConstantsAssumption
<1>3. TypeOK
  <2>1. "idle" \in PCs /\ "idle" \in RetPCs
    BY DEF PCs, RetPCs
  <2>2. /\ srv \in RuleSets /\ srvVer \in 0..MaxVersion /\ srvBlk \subseteq Protocols
        /\ history \in [0..MaxVersion -> RuleSets] /\ events \in Seq(Events)
        /\ rules \in RuleSets /\ blocked \subseteq Protocols /\ configVersion \in 0..MaxVersion
    BY <1>1, <1>2 DEF Init
  <2>3. /\ forwarders \subseteq Forwarder /\ alive \subseteq Forwarder /\ up \subseteq TunnelIds
        /\ tunnels \in [Rules -> TunnelIds \cup {None}]
        /\ handler \in [Rules -> ForwarderIds \cup {None}]
        /\ status \in [Rules -> {None, "starting", "running", "stopped", "error"}]
    BY DEF Init
  <2>4. /\ pc \in [Workers -> PCs] /\ ret \in [Workers -> RetPCs]
        /\ todo \in [Workers -> SUBSET Rules]
        /\ plan \in [Workers -> RuleSets] /\ old \in [Workers -> RuleSets]
    BY <1>1, <2>1 DEF Init
  <2>5. /\ cur \in [Workers -> Rules \cup {None}] /\ hand \in [Workers -> Forwarder \cup {None}]
        /\ ev \in Events \cup {None} /\ shared \in BOOLEAN
    BY DEF Init
  <2> QED
    BY <2>2, <2>3, <2>4, <2>5 DEF TypeOK
<1>4. Control
  BY DEF Init, Control, ControlOf, StartPCs, LoopPCs, HubPCs
<1> QED
  BY <1>3, <1>4

(* and every step keeps them.                                              *)
LEMMA NextControl == TypeOK /\ Control /\ [Next]_vars => TypeOK' /\ Control'
<1> SUFFICES ASSUME TypeOK, Control, [Next]_vars PROVE TypeOK' /\ Control'
  OBVIOUS
<1>1. CASE Server
  <2>1. UNCHANGED locals
    BY <1>1 DEF Server, AddRule, UpdateRule, RemoveRule, BlockProtocols, SendFullSync, Edit
  <2>2. Control'
    BY <2>1 DEF Control, ControlOf, locals
  <2> QED
    BY <1>1, <2>2, ServerType
<1>2. CASE RefreshRule
  BY <1>2, RefreshType, RefreshControl
<1>3. CASE \E w \in Workers : Worker(w)
  BY <1>3, WorkerStep
<1>4. CASE UNCHANGED vars
  BY <1>4 DEF vars, srvVars, agent, locals, TypeOK, Control, ControlOf
<1> QED
  BY <1>1, <1>2, <1>3, <1>4 DEF Next

(* At each of its steps a worker's locals are what the code of that step   *)
(* assumes: startForwarder is called with a rule that has a content, the   *)
(* hub handles an event it has, nothing is left to start when it is idle.  *)
THEOREM LocalsCorrect == Spec => [](TypeOK /\ Control)
<1> QED
  BY InitControl, NextControl, PTL DEF Spec

(* Every variable keeps its type.                                          *)
THEOREM TypeCorrect == Spec => []TypeOK
<1>1. TypeOK /\ Control => TypeOK
  OBVIOUS
<1> QED
  BY <1>1, LocalsCorrect, PTL

-----------------------------------------------------------------------------
(* The steps that do not build, start, register or give up a forwarder     *)
(* leave every forwarder in hand where it is.                              *)
Other(w) == Worker(w) /\ ~(GetOrCreateTunnel(w) \/ Start(w) \/ Cleanup(w) \/ Register(w))

(* Other steps of a worker take no forwarder in hand and register none.    *)
LEMMA OtherHands ==
  ASSUME TypeOK, Control, NEW w \in Workers, Other(w)
  PROVE  /\ hand' = hand /\ pc'[w] # "register"
         /\ hand[w] # None => cur'[w] = cur[w]
<1> USE DEF TypeOK, Control, ControlOf, Goto, locals, agent, StartPCs, LoopPCs
<1>1. CASE PollFetch(w) \/ PollAdopt(w) \/ PollReconcile(w)
  BY <1>1 DEF PollFetch, PollAdopt, PollReconcile
<1>2. CASE HubStep(w)
  <2>1. CASE HubAccept(w)
    <3>1. Head(events) \in Events
      BY <2>1, HeadTail DEF HubAccept, HubTake
    <3>2. FirstStep(Head(events)) # "register"
      BY <3>1 DEF FirstStep, Events
    <3> QED
      BY <2>1, <3>2 DEF HubAccept, HubTake
  <2>2. CASE ~HubAccept(w)
    BY <1>2, <2>2 DEF HubStep, HubSkip, HubTake, FullAdopt, Block, CopyRules, Evict, Forget,
                      UpdateRulesList
  <2> QED
    BY <2>1, <2>2
<1>3. CASE StopForwarder(w) \/ Command(w) \/ ReadRule(w) \/ Stopped(w) \/ Finish(w)
  BY <1>3 DEF StopForwarder, Command, ReadRule, Stopped, Finish
<1>4. CASE LoopStep(w)
  BY <1>4 DEF LoopStep, LoopTake, LoopNext
<1>5. CASE Check(w) \/ Announce(w) \/ TunnelFails(w) \/ Attach(w) \/ StartFails(w)
           \/ Fail(w) \/ Mark(w)
  BY <1>5 DEF Check, Announce, TunnelFails, Attach, StartFails, Fail, Mark
<1> QED
  BY <1>1, <1>2, <1>3, <1>4, <1>5 DEF Other, Worker, StartStep

(* The forwarders they stop are registered ones, and they delete them too. *)
LEMMA OtherDrops ==
  ASSUME NEW w \in Workers, Other(w)
  PROVE  \E F \in SUBSET forwarders : forwarders' = forwarders \ F /\ alive' = alive \ F
<1> USE DEF agent, Drop
<1>1. CASE UNCHANGED <<forwarders, alive>>
  <2> WITNESS {} \in SUBSET forwarders
  <2> QED
    BY <1>1
<1>2. CASE PollReconcile(w)
  <2> DEFINE gone    == {f \in forwarders : plan[w][f.rule] = None}
             changed == {f \in forwarders \ gone : Changed(old[w], f.rule, plan[w])}
  <2> WITNESS gone \cup changed \in SUBSET forwarders
  <2> QED
    BY <1>2 DEF PollReconcile
<1>3. CASE FullAdopt(w)
  <2> DEFINE gone    == {f \in forwarders : ev.rules[f.rule] = None}
             barred  == {f \in forwarders \ gone : Protocol[ev.rules[f.rule]] \in ev.blk}
             changed == {f \in forwarders \ (gone \cup barred) : Changed(rules, f.rule, ev.rules)}
  <2> WITNESS gone \cup barred \cup changed \in SUBSET forwarders
  <2> QED
    BY <1>3 DEF FullAdopt
<1>4. CASE Evict(w)
  BY <1>4 DEF Evict
<1>5. CASE StopForwarder(w)
  <2>1. Registered(cur[w]) \in SUBSET forwarders
    BY DEF Registered
  <2> QED
    BY <1>5, <2>1 DEF StopForwarder
<1> QED
  BY <1>1, <1>2, <1>3, <1>4, <1>5 DEF Other, Worker, PollFetch, PollAdopt, HubStep, HubSkip,
    HubAccept, HubTake, Block, CopyRules, Forget, UpdateRulesList, Command, ReadRule, Stopped,
    Finish, LoopStep, LoopTake, LoopNext, StartStep, Check, Announce, TunnelFails, Attach,
    StartFails, Fail, Mark

(* A forwarder just built has an identity no other one has.                *)
LEMMA BuildHands ==
  ASSUME TypeOK, Control, Hands, NEW w \in Workers, GetOrCreateTunnel(w)
  PROVE  Hands' /\ UNCHANGED <<forwarders, alive>>
<1>1. PICK t \in TunnelIds \cup {None} : Build(w, t)
  BY DEF GetOrCreateTunnel, FreeTunnels, TypeOK, Control, ControlOf
<1>2. PICK i \in FreeIds :
        hand' = [hand EXCEPT ![w] = [id |-> i, rule |-> cur[w], cfg |-> plan[w][cur[w]], tun |-> t]]
  BY <1>1 DEF Build
<1>3. UNCHANGED <<forwarders, alive, cur>> /\ pc' = [pc EXCEPT ![w] = "attach"]
  BY <1>1 DEF GetOrCreateTunnel, Build, Goto
<1>4. /\ \A f \in forwarders : f.id # i
      /\ \A v \in Workers : hand[v] # None => hand[v].id # i
  BY DEF FreeIds
<1>5. /\ hand'[w].id = i /\ hand'[w].rule = cur[w] /\ pc'[w] = "attach"
      /\ \A v \in Workers \ {w} : hand'[v] = hand[v] /\ pc'[v] = pc[v]
  BY <1>2, <1>3 DEF TypeOK
<1> QED
  BY <1>3, <1>4, <1>5 DEF Hands

(* Every step keeps Hands and RegisteredIsAlive together.                  *)
LEMMA HandsStep ==
  ASSUME TypeOK, Control, Hands, RegisteredIsAlive, NEW w \in Workers, Worker(w)
  PROVE  Hands' /\ RegisteredIsAlive'
<1> USE DEF RegisteredIsAlive
<1>0. \A v \in Workers : v # w => pc'[v] = pc[v] /\ cur'[v] = cur[v] /\ hand'[v] = hand[v]
  BY OthersKept
<1>1. CASE Other(w)
  <2>1. PICK F \in SUBSET forwarders : forwarders' = forwarders \ F /\ alive' = alive \ F
    BY <1>1, OtherDrops
  <2>2. hand' = hand /\ pc'[w] # "register" /\ (hand[w] # None => cur'[w] = cur[w])
    BY <1>1, OtherHands
  <2>3. \A v \in Workers : pc[v] = "register" => hand[v] \notin F
    BY <2>1 DEF Hands, Control, ControlOf
  <2> QED
    BY <1>0, <2>1, <2>2, <2>3 DEF Hands
<1>2. CASE GetOrCreateTunnel(w)
  BY <1>2, BuildHands
<1>3. CASE Start(w)
  BY <1>3 DEF Start, Goto, Hands, TypeOK
<1>4. CASE Cleanup(w)
  BY <1>0, <1>4 DEF Cleanup, Goto, Hands, TypeOK
<1>5. CASE Register(w)
  <2>1. hand[w] # None /\ hand[w] \in alive
    BY <1>5 DEF Register, Control, ControlOf, Hands
  <2>2. /\ forwarders' = (forwarders \ Registered(cur[w])) \cup {hand[w]}
        /\ alive' = alive /\ hand'[w] = None /\ pc'[w] # "register"
    BY <1>5 DEF Register, Goto, TypeOK
  <2> QED
    BY <1>0, <2>1, <2>2 DEF Hands
<1> QED
  BY <1>1, <1>2, <1>3, <1>4, <1>5 DEF Other

(* The server and the refresher touch neither, so both are inductive.      *)
LEMMA HandsInductive ==
  TypeOK /\ Control /\ Hands /\ RegisteredIsAlive /\ [Next]_vars => Hands' /\ RegisteredIsAlive'
<1> SUFFICES ASSUME TypeOK, Control, Hands, RegisteredIsAlive, [Next]_vars
             PROVE  Hands' /\ RegisteredIsAlive'
  OBVIOUS
<1>1. CASE UNCHANGED <<hand, pc, cur, forwarders, alive>>
  BY <1>1 DEF Hands, RegisteredIsAlive
<1>2. CASE \E w \in Workers : Worker(w)
  BY <1>2, HandsStep
<1> QED
  BY <1>1, <1>2 DEF Next, vars, agent, locals, RefreshRule, Server, AddRule, UpdateRule,
                    RemoveRule, BlockProtocols, SendFullSync, Edit

(* A forwarder being started is its goroutine's alone, and the map of      *)
(* running forwarders never holds one that was stopped.                    *)
THEOREM HandsCorrect == Spec => [](Hands /\ RegisteredIsAlive)
<1>1. Init => Hands /\ RegisteredIsAlive
  BY DEF Init, Hands, RegisteredIsAlive
<1> QED
  BY <1>1, HandsInductive, LocalsCorrect, PTL DEF Spec

(* So a rule the loops skip because it has a forwarder does have a running *)
(* one, whatever the three goroutines did to it in between.                *)
THEOREM RegisteredAlwaysAlive == Spec => []RegisteredIsAlive
<1>1. Hands /\ RegisteredIsAlive => RegisteredIsAlive
  OBVIOUS
<1> QED
  BY <1>1, HandsCorrect, PTL

-----------------------------------------------------------------------------
(* Whoever drops forwarders loses sight of no tunnel client: those of the  *)
(* dropped SMUX forwarders stop with them, and a.tunnels keeps the rest.   *)
LEMMA DropTracked ==
  ASSUME TunnelsTracked, NEW F \in SUBSET forwarders, NEW T, Drop(F, T), hand' = hand,
         \A r \in Rules : tunnels'[r] = tunnels[r] \/ tunnels[r] \in T
  PROVE  TunnelsTracked'
BY DEF TunnelsTracked, Drop, OwnTunnels

(* The steps of startForwarder that move tunnel clients.                   *)
LEMMA BuildTracked ==
  ASSUME TypeOK, Control, TunnelsTracked, NEW w \in Workers, GetOrCreateTunnel(w),
         \A r \in Rules : Kind[r] # "multi"
  PROVE  TunnelsTracked'
<1>1. cur[w] \in Rules /\ hand[w] = None /\ kind(w) # "multi"
  BY DEF GetOrCreateTunnel, Control, ControlOf, kind
<1>2. /\ \A v \in Workers : v # w => hand'[v] = hand[v]
      /\ alive' = alive
  BY DEF GetOrCreateTunnel, Build, TypeOK
<1>3. \A v \in Workers : hand[v] # None => hand'[v] = hand[v]
  BY <1>1, <1>2
<1>4. CASE UNCHANGED <<tunnels, up>>
  BY <1>2, <1>3, <1>4 DEF TunnelsTracked
<1>5. CASE ~UNCHANGED <<tunnels, up>>
  <2>1. PICK t \in FreeTunnels :
          /\ Build(w, t) /\ up' = up \cup {t} /\ kind(w) \in Dials
          /\ kind(w) \in Reuses => tunnels[cur[w]] = None
          /\ tunnels' = IF kind(w) \in Reuses THEN [tunnels EXCEPT ![cur[w]] = t] ELSE tunnels
    BY <1>5 DEF GetOrCreateTunnel
  <2>2. None \notin up
    BY ConstantsAssumption DEF TypeOK
  <2>3. ASSUME NEW s \in up PROVE \/ \E r \in Rules : tunnels'[r] = s
                                  \/ \E f \in alive' : Kind[f.rule] \in Owns /\ f.tun = s
                                  \/ \E v \in Workers : /\ hand'[v] # None /\ hand'[v].tun = s
                                                       /\ Kind[hand'[v].rule] \in Owns
    <3>1. CASE \E r \in Rules : tunnels[r] = s
      BY <2>1, <2>2, <3>1 DEF TypeOK
    <3>2. CASE ~\E r \in Rules : tunnels[r] = s
      BY <1>2, <1>3, <3>2 DEF TunnelsTracked
    <3> QED
      BY <3>1, <3>2
  <2>4. CASE kind(w) \in Reuses
    BY <1>1, <2>1, <2>3, <2>4 DEF TunnelsTracked, TypeOK
  <2>5. CASE kind(w) \in Owns
    <3>1. PICK i : hand'[w] = [id |-> i, rule |-> cur[w], cfg |-> plan[w][cur[w]], tun |-> t]
      BY <2>1 DEF Build, TypeOK
    <3>2. hand'[w] # None
      BY <1>1, <2>1, StartControl DEF StartStep, Build, Goto, Control, ControlOf, TypeOK
    <3>3. hand'[w].tun = t /\ Kind[hand'[w].rule] \in Owns
      BY <2>5, <3>1 DEF kind
    <3> QED
      BY <2>1, <2>3, <3>2, <3>3 DEF TunnelsTracked
  <2> QED
    BY <1>1, <2>1, <2>4, <2>5 DEF Dials
<1> QED
  BY <1>4, <1>5

(* After a failed start the tunnel client of the rule is stopped, and it   *)
(* is either forgotten or still in a.tunnels.                              *)
LEMMA CleanupTracked ==
  ASSUME TypeOK, Control, Hands, TunnelsTracked, NEW w \in Workers, Cleanup(w),
         \A r \in Rules : Kind[r] # "multi"
  PROVE  TunnelsTracked'
<1>1. hand[w] # None /\ hand[w].rule = cur[w] /\ cur[w] \in Rules
  BY DEF Cleanup, Control, ControlOf, Hands, TypeOK, Forwarder
<1>2. hand' = [hand EXCEPT ![w] = None] /\ alive' = alive /\ kind(w) # "multi"
  BY <1>1 DEF Cleanup, kind
<1>3. CASE kind(w) = "entry"
  <2>1. up' = up \ {tunnels[cur[w]]} /\ tunnels' = [tunnels EXCEPT ![cur[w]] = None]
    BY <1>3 DEF Cleanup
  <2>2. Kind[hand[w].rule] \notin Owns
    BY <1>1, <1>3 DEF kind, Owns
  <2> QED
    BY <1>2, <2>1, <2>2 DEF TunnelsTracked, TypeOK
<1>4. CASE kind(w) # "entry"
  <2>1. up' = up \ {hand[w].tun} /\ tunnels' = tunnels
    BY <1>2, <1>4 DEF Cleanup
  <2> QED
    BY <1>2, <2>1 DEF TunnelsTracked, TypeOK
<1> QED
  BY <1>3, <1>4

(* Every step of a worker keeps track of every tunnel client.              *)
LEMMA TrackedStep ==
  ASSUME TypeOK, Control, Hands, TunnelsTracked, NEW w \in Workers, Worker(w),
         \A r \in Rules : Kind[r] # "multi"
  PROVE  TunnelsTracked'
<1>1. CASE UNCHANGED <<tunnels, up, alive, hand>>
  BY <1>1 DEF TunnelsTracked
<1>2. CASE PollReconcile(w)
  <2> DEFINE gone    == {f \in forwarders : plan[w][f.rule] = None}
             changed == {f \in forwarders \ gone : Changed(old[w], f.rule, plan[w])}
  <2>1. Drop(gone \cup changed, {}) /\ UNCHANGED <<tunnels, hand>>
    BY <1>2 DEF PollReconcile
  <2>2. gone \cup changed \in SUBSET forwarders
    OBVIOUS
  <2> HIDE DEF gone, changed
  <2> QED
    BY <2>1, <2>2, DropTracked
<1>3. CASE FullAdopt(w)
  <2> DEFINE gone    == {f \in forwarders : ev.rules[f.rule] = None}
             barred  == {f \in forwarders \ gone : Protocol[ev.rules[f.rule]] \in ev.blk}
             changed == {f \in forwarders \ (gone \cup barred) : Changed(rules, f.rule, ev.rules)}
  <2>1. Drop(gone \cup barred \cup changed, {}) /\ UNCHANGED <<tunnels, hand>>
    BY <1>3 DEF FullAdopt
  <2>2. gone \cup barred \cup changed \in SUBSET forwarders
    OBVIOUS
  <2> HIDE DEF gone, barred, changed
  <2> QED
    BY <2>1, <2>2, DropTracked
<1>4. CASE Evict(w)
  <2> DEFINE barred == {f \in forwarders : /\ old[w][f.rule] # None
                                           /\ Protocol[old[w][f.rule]] \in ev.blk}
  <2>1. Drop(barred, {}) /\ UNCHANGED <<tunnels, hand>>
    BY <1>4 DEF Evict
  <2>2. barred \in SUBSET forwarders
    OBVIOUS
  <2> HIDE DEF barred
  <2> QED
    BY <2>1, <2>2, DropTracked
<1>5. CASE StopForwarder(w)
  <2>1. Drop(Registered(cur[w]), {tunnels[cur[w]]}) /\ hand' = hand
    BY <1>5 DEF StopForwarder
  <2>2. \A r \in Rules : tunnels'[r] = tunnels[r] \/ tunnels[r] \in {tunnels[cur[w]]}
    BY <1>5 DEF StopForwarder, TypeOK
  <2>3. Registered(cur[w]) \in SUBSET forwarders
    BY DEF Registered
  <2> QED
    BY <2>1, <2>2, <2>3, DropTracked
<1>6. CASE GetOrCreateTunnel(w)
  BY <1>6, BuildTracked
<1>7. CASE Attach(w)
  <2>1. kind(w) # "multi"
    BY <1>7 DEF Attach, Control, ControlOf, Hands, kind, TypeOK, Forwarder
  <2> QED
    BY <1>7, <2>1 DEF Attach, TunnelsTracked
<1>8. CASE Start(w)
  BY <1>8 DEF Start, TunnelsTracked
<1>9. CASE Cleanup(w)
  BY <1>9, CleanupTracked
<1>10. CASE Register(w)
  <2>1. hand[w] \in alive
    BY <1>10 DEF Register, Hands
  <2>2. hand' = [hand EXCEPT ![w] = None] /\ UNCHANGED <<tunnels, up, alive>>
    BY <1>10 DEF Register
  <2> QED
    BY <2>1, <2>2 DEF TunnelsTracked, TypeOK
<1> QED
  BY <1>1, <1>2, <1>3, <1>4, <1>5, <1>6, <1>7, <1>8, <1>9, <1>10 DEF Worker, agent, locals,
    PollFetch, PollAdopt, HubStep, HubSkip, HubAccept, HubTake, Block, CopyRules, Forget,
    UpdateRulesList, Command, ReadRule, Stopped, Finish, LoopStep, LoopTake, LoopNext, StartStep,
    Check, Announce, TunnelFails, StartFails, Fail, Mark

(* While no rule balances its load over several next hops, no interleaving *)
(* of the goroutines loses a tunnel client that still runs: each can be    *)
(* found through a.tunnels or through the SMUX forwarder that owns it.     *)
THEOREM TunnelsAlwaysTracked ==
  ASSUME \A r \in Rules : Kind[r] # "multi"
  PROVE  Spec => []TunnelsTracked
<1>1. Init => TunnelsTracked
  BY DEF Init, TunnelsTracked
<1>2. TypeOK /\ Control /\ Hands /\ TunnelsTracked /\ [Next]_vars => TunnelsTracked'
  <2> SUFFICES ASSUME TypeOK, Control, Hands, TunnelsTracked, [Next]_vars
               PROVE  TunnelsTracked'
    OBVIOUS
  <2>1. CASE UNCHANGED <<tunnels, up, alive, hand>>
    BY <2>1 DEF TunnelsTracked
  <2>2. CASE \E w \in Workers : Worker(w)
    BY <2>2, TrackedStep
  <2> QED
    BY <2>1, <2>2 DEF Next, vars, agent, locals, RefreshRule, Server, AddRule, UpdateRule,
                      RemoveRule, BlockProtocols, SendFullSync, Edit
<1> QED
  BY <1>1, <1>2, LocalsCorrect, HandsCorrect, PTL DEF Spec

-----------------------------------------------------------------------------
(* While the contents of a rule ask for one socket, the operating system   *)
(* sees to it that one forwarder of the rule listens.                      *)
OneSocket == \A c, d \in Configs : Socket[c] = Socket[d]

OneListener ==
  OneSocket => \A f, g \in alive : f.rule = g.rule /\ Kind[f.rule] \in Listens => f = g

(* Stopping and deleting forwarders together leaves no orphan.             *)
LEMMA DropListeners ==
  ASSUME OneListener, NoOrphanListener, NEW w \in Workers, NEW F \in SUBSET forwarders,
         forwarders' = forwarders \ F, alive' = alive \ F,
         hand' = hand, pc[w] # "register",
         \A v \in Workers : v # w => pc'[v] = pc[v]
  PROVE  OneListener' /\ NoOrphanListener'
BY DEF OneListener, OneSocket, NoOrphanListener

(* A step of a worker leaves no orphan: a second listener cannot start,    *)
(* and so the one that is registered replaces no other.                    *)
LEMMA ListenerStep ==
  ASSUME TypeOK, Control, Hands, RegisteredIsAlive, OneListener, NoOrphanListener,
         NEW w \in Workers, Worker(w)
  PROVE  OneListener' /\ NoOrphanListener'
<1>0. \A v \in Workers : v # w => pc'[v] = pc[v] /\ hand'[v] = hand[v]
  BY OthersKept
<1>1. CASE Other(w)
  <2>1. PICK F \in SUBSET forwarders : forwarders' = forwarders \ F /\ alive' = alive \ F
    BY <1>1, OtherDrops
  <2>2. hand' = hand /\ pc[w] # "register"
    <3>1. hand' = hand
      BY <1>1, OtherHands
    <3>2. pc[w] # "register"
      BY <1>1 DEF Other, Worker, PollFetch, PollAdopt, PollReconcile, HubStep, HubSkip, HubAccept,
        HubTake, FullAdopt, Block, CopyRules, Evict, Forget, UpdateRulesList, StopForwarder,
        Command, ReadRule, Stopped, LoopStep, LoopTake, LoopNext, StartStep, Check, Announce,
        TunnelFails, Attach, StartFails, Fail, Mark, Finish
    <3> QED
      BY <3>1, <3>2
  <2> QED
    BY <1>0, <2>1, <2>2, DropListeners
<1>2. CASE GetOrCreateTunnel(w)
  <2>1. UNCHANGED <<forwarders, alive>> /\ pc[w] = "tunnel"
    BY <1>2, BuildHands DEF GetOrCreateTunnel
  <2> QED
    BY <1>0, <2>1 DEF OneListener, NoOrphanListener
<1>3. CASE Start(w)
  <2>1. /\ alive' = alive \cup {hand[w]} /\ UNCHANGED <<forwarders, hand>>
        /\ pc'[w] = "register" /\ ~SocketTaken(hand[w])
    BY <1>3 DEF Start, Goto, TypeOK
  <2>2. hand[w] \in Forwarder
    BY <1>3 DEF Start, Control, ControlOf, TypeOK
  <2>3. OneListener'
    <3> SUFFICES ASSUME OneSocket,
                        NEW f \in alive', NEW g \in alive', f.rule = g.rule,
                        Kind[f.rule] \in Listens
                 PROVE  f = g
      BY DEF OneListener, OneSocket
    <3>1. ASSUME NEW h \in alive, h.rule = hand[w].rule PROVE Kind[h.rule] \notin Listens
      <4>1. Socket[h.cfg] = Socket[hand[w].cfg]
        BY <2>2 DEF TypeOK, Forwarder, OneSocket
      <4> QED
        BY <2>1, <3>1, <4>1 DEF SocketTaken
    <3> QED
      BY <2>1, <3>1 DEF OneListener
  <2>4. NoOrphanListener'
    BY <1>0, <2>1 DEF NoOrphanListener
  <2> QED
    BY <2>3, <2>4
<1>4. CASE Cleanup(w)
  <2>1. UNCHANGED <<forwarders, alive>> /\ pc[w] = "cleanup"
    BY <1>4 DEF Cleanup
  <2> QED
    BY <1>0, <2>1 DEF OneListener, NoOrphanListener
<1>5. CASE Register(w)
  <2>1. /\ forwarders' = (forwarders \ Registered(cur[w])) \cup {hand[w]} /\ alive' = alive
        /\ hand[w] \in alive /\ hand[w] # None
        /\ pc'[w] # "register"
    BY <1>5 DEF Register, Hands, Goto, Control, ControlOf, TypeOK
  <2>2. OneListener'
    BY <2>1 DEF OneListener
  <2>3. ASSUME OneSocket, NEW f \in alive' \ forwarders', Kind[f.rule] \in Listens
        PROVE  \E v \in Workers : hand'[v] = f /\ pc'[v] = "register"
    <3>1. f \notin forwarders
      <4>1. ASSUME f \in Registered(cur[w]) PROVE FALSE
        <5>1. f.rule = hand[w].rule
          BY <4>1, <2>1 DEF Registered, Hands
        <5>2. f = hand[w]
          BY <2>1, <2>3, <5>1 DEF OneListener
        <5> QED
          BY <2>1, <2>3, <5>2
      <4> QED
        BY <2>1, <2>3, <4>1
    <3>2. PICK v \in Workers : hand[v] = f /\ pc[v] = "register"
      BY <2>1, <2>3, <3>1 DEF NoOrphanListener, OneSocket
    <3>3. v # w
      BY <2>1, <2>3, <3>2
    <3> QED
      BY <1>0, <3>2, <3>3
  <2> QED
    BY <2>2, <2>3 DEF NoOrphanListener, OneSocket
<1> QED
  BY <1>1, <1>2, <1>3, <1>4, <1>5 DEF Other

(* While the contents of a rule ask for one socket, the window between     *)
(* Start and the map update, which no lock covers, never leaves a listener *)
(* that no goroutine can find and stop.                                    *)
THEOREM NoListenerOrphaned == Spec => []NoOrphanListener
<1>1. Init => OneListener /\ NoOrphanListener
  BY DEF Init, OneListener, NoOrphanListener
<1>2. TypeOK /\ Control /\ Hands /\ RegisteredIsAlive /\ OneListener /\ NoOrphanListener
      /\ [Next]_vars => OneListener' /\ NoOrphanListener'
  <2> SUFFICES ASSUME TypeOK, Control, Hands, RegisteredIsAlive, OneListener, NoOrphanListener,
                      [Next]_vars
               PROVE  OneListener' /\ NoOrphanListener'
    OBVIOUS
  <2>1. CASE UNCHANGED <<alive, forwarders, hand, pc>>
    BY <2>1 DEF OneListener, NoOrphanListener
  <2>2. CASE \E w \in Workers : Worker(w)
    BY <2>2, ListenerStep
  <2> QED
    BY <2>1, <2>2 DEF Next, vars, agent, locals, RefreshRule, Server, AddRule, UpdateRule,
                      RemoveRule, BlockProtocols, SendFullSync, Edit
<1> QED
  BY <1>1, <1>2, LocalsCorrect, HandsCorrect, PTL DEF Spec

-----------------------------------------------------------------------------
(* hubLoop on its own: no fallback poll, no command from the console, no   *)
(* event lost and no tunnel that refreshes its rule.  These are the        *)
(* conditions under which the agent promises to be, between two events,    *)
(* exactly what the server published; with any of them dropped it only     *)
(* gets there (EventuallyConsistent).                                      *)
Alone == Workers = {"hub"} /\ ~Lossy /\ ~Refreshing

(* An event says what the rules became at its version and, unless it is a  *)
(* full synchronisation, how they differ from the version before.          *)
Records(e) ==
  /\ e.ver <= srvVer /\ e.rules = history[e.ver]
  /\ e.op # "full" =>
       /\ e.ver > 0
       /\ e.op = "blk" => e.rules = history[e.ver - 1]
       /\ e.op # "blk" => /\ e.rule \in Rules
                          /\ \A r \in Rules \ {e.rule} : e.rules[r] = history[e.ver - 1][r]
       /\ e.op = "add" => history[e.ver - 1][e.rule] = None

(* Behind place i of the queue there is an edit for every version after v. *)
EditAt(i)    == i \in 1..Len(events) /\ events[i].op # "full"
Awaits(v, i) == \A u \in v + 1..srvVer :
                   \E j \in i + 1..Len(events) : EditAt(j) /\ events[j].ver = u

(* The version the agent will be at once the event in hand is handled.     *)
Reached == IF pc["hub"] = "idle" THEN configVersion ELSE ev.ver

(* The queue: truthful events, edits in the order of their versions, and   *)
(* behind every full synchronisation, and behind the event in hand, every  *)
(* edit it does not include.  So an edit that is not skipped is exactly    *)
(* the next one.                                                           *)
Published ==
  /\ srv = history[srvVer] /\ configVersion <= srvVer
  /\ \A i \in 1..Len(events) : Records(events[i])
  /\ \A i, j \in 1..Len(events) :
        i < j /\ EditAt(i) /\ EditAt(j) => events[i].ver < events[j].ver
  /\ \A i \in 1..Len(events) : ~EditAt(i) => Awaits(events[i].ver, i)
  /\ Awaits(Reached, 0)
  /\ pc["hub"] # "idle" => Records(ev) /\ (ev.op # "full" => ev.ver = configVersion + 1)

(* Which kind of event is handled at which step, and for which rule.       *)
Flow ==
  /\ pc["hub"] \notin {"reconcile", "read", "stopped"}
  /\ pc["hub"] # "idle" => plan["hub"] = ev.rules
  /\ pc["hub"] \in {"adopt", "restart", "scan"} => ev.op = "full"
  /\ pc["hub"] \in {"block", "copy", "evict"} => ev.op = "blk"
  /\ pc["hub"] = "stop" => /\ ev.op \in {"del", "upd"} /\ cur["hub"] = ev.rule
                           /\ ret["hub"] = AfterStop(ev)
  /\ pc["hub"] = "forget" => ev.op = "del" /\ cur["hub"] = ev.rule /\ ret["hub"] = "list"
  /\ pc["hub"] \in {"list", "finish"} => ev.op # "full"
  /\ pc["hub"] \in StartPCs =>
       /\ cur["hub"] \in Rules /\ ev.rules[cur["hub"]] # None
       /\ \/ ev.op = "full" /\ ret["hub"] \in LoopPCs
          \/ ev.op \in {"add", "upd"} /\ ret["hub"] = "list" /\ cur["hub"] = ev.rule

(* a.rules is what the event in hand says once that is merged into it, and *)
(* what the version before said until then; every forwarder runs the       *)
(* content of its rule, from the moment the old one has been stopped.      *)
Merged == \/ pc["hub"] \in {"restart", "scan", "finish"}
          \/ pc["hub"] \in StartPCs /\ ev.op = "full"
Before == {"idle", "adopt", "block", "copy", "evict", "stop"}

Contents ==
  /\ rules = IF Merged THEN ev.rules ELSE history[configVersion]
  /\ \A f \in forwarders :
       f.cfg = IF pc["hub"] \in Before THEN rules[f.rule] ELSE ev.rules[f.rule]
  /\ hand["hub"] # None => hand["hub"].cfg = ev.rules[cur["hub"]]

(* The rules whose reported status may be wrong for a moment: the one that *)
(* is being started or forgotten, and the changed ones a full              *)
(* synchronisation has stopped and not yet restarted.  Neither has a       *)
(* forwarder, until Register.                                              *)
Restarting(r) == /\ r \in todo["hub"]
                 /\ \/ pc["hub"] = "restart"
                    \/ pc["hub"] \in StartPCs /\ ret["hub"] = "restart"
Starting(r)   == r = cur["hub"] /\ pc["hub"] \in StartPCs \cup {"forget"}

Reported ==
  \A r \in Rules :
    /\ Restarting(r) => Registered(r) = {} /\ ~Starting(r)
    /\ Starting(r) => (Registered(r) # {} <=> pc["hub"] = "mark")
    /\ ~Restarting(r) /\ ~Starting(r) => (status[r] = "running" <=> Registered(r) # {})

(* Nothing of a blocked protocol runs or is about to be started, except    *)
(* between the moment the block list is installed and the eviction.        *)
Barred ==
  /\ pc["hub"] \in {"copy", "evict"} => blocked = ev.blk
  /\ pc["hub"] = "evict" => old["hub"] = rules
  /\ pc["hub"] \notin {"copy", "evict"} => \A f \in forwarders : Protocol[f.cfg] \notin blocked
  /\ pc["hub"] \in {"announce", "tunnel"} => Protocol[ev.rules[cur["hub"]]] \notin blocked
  /\ hand["hub"] # None => Protocol[hand["hub"].cfg] \notin blocked

(* What hubLoop does when it is alone.                                     *)
HubWorks ==
  \/ HubSkip("hub") \/ HubAccept("hub") \/ FullAdopt("hub") \/ Block("hub")
  \/ CopyRules("hub") \/ Evict("hub") \/ Forget("hub") \/ UpdateRulesList("hub")
  \/ StopForwarder("hub") \/ LoopStep("hub") \/ StartStep("hub") \/ Finish("hub")

(* With hubLoop on its own, every step is its own or the server's.         *)
LEMMA AloneStep ==
  ASSUME Alone, Flow, Next PROVE Server \/ HubWorks
<1>1. Server \/ \E w \in Workers : Worker(w)
  BY DEF Next, RefreshRule, Alone
<1>2. CASE Worker("hub")
  BY <1>2 DEF Worker, HubStep, HubWorks, PollFetch, PollAdopt, PollReconcile, Command, ReadRule,
              Stopped, Flow
<1> QED
  BY <1>1, <1>2 DEF Alone

-----------------------------------------------------------------------------
(* The fields of an event.                                                 *)
LEMMA EventFields ==
  ASSUME NEW e \in Events
  PROVE  /\ e.ver \in Nat /\ e.ver \in 0..MaxVersion /\ e.op \in {"full", "add", "upd", "del", "blk"}
         /\ e.rule \in Rules \cup {None} /\ e.rules \in RuleSets /\ e.blk \subseteq Protocols
         /\ e.op \in {"add", "upd"} => e.rule \in Rules /\ e.rules[e.rule] # None
  BY ConstantsAssumption DEF Events

(* The queue.  An event that was true stays true when the server edits.    *)
LEMMA RecordsKept ==
  ASSUME TypeOK, NEW e \in Events, Records(e), srvVer' >= srvVer, srvVer' \in Nat,
         \A v \in 0..srvVer : history'[v] = history[v]
  PROVE  Records(e)'
<1>1. e.ver \in Nat /\ srvVer \in Nat
  BY ConstantsAssumption DEF Events, TypeOK
<1>2. e.ver <= srvVer' /\ history'[e.ver] = history[e.ver]
  BY <1>1 DEF Records
<1>3. e.op # "full" => history'[e.ver - 1] = history[e.ver - 1]
  BY <1>1 DEF Records
<1> QED
  BY <1>2, <1>3 DEF Records

(* What an edit of the server changes.                                     *)
LEMMA EditEffect ==
  ASSUME TypeOK, ~Lossy, NEW op, NEW r, NEW S, NEW B, Edit(op, r, S, B)
  PROVE  /\ srvVer \in Nat /\ srvVer' = srvVer + 1 /\ srvVer' \in 0..MaxVersion
         /\ srv' = S /\ history'[srvVer'] = S
         /\ \A v \in 0..srvVer : history'[v] = history[v]
         /\ events' = Append(events, Event(op, r, S, B))
         /\ UNCHANGED <<agent, locals>>
<1>1. srvVer \in Nat /\ srvVer' = srvVer + 1 /\ srvVer' \in 0..MaxVersion
      /\ srvVer + 1 \in 0..MaxVersion
  BY ConstantsAssumption DEF TypeOK, Edit
<1>2. history' = [history EXCEPT ![srvVer + 1] = S] /\ history \in [0..MaxVersion -> RuleSets]
  BY DEF Edit, TypeOK
<1>3. history'[srvVer'] = S
  BY <1>1, <1>2
<1>4. \A v \in 0..srvVer : history'[v] = history[v]
  BY <1>1, <1>2
<1> QED
  BY <1>1, <1>3, <1>4 DEF Edit, Send

(* An event put into the queue behind its first k places: what the queue   *)
(* said it still says, if the event is the newest edit at the end, or a    *)
(* No version lies between a version and itself. *)
LEMMA NothingAfter ==
  ASSUME NEW m \in Nat
  PROVE  m + 1..m = {}
OBVIOUS

(* full synchronisation anywhere.                                          *)
LEMMA InsertPublished ==
  ASSUME TypeOK, TypeOK', Published, NEW k \in 0..Len(events), NEW e \in Events,
         Len(events') = Len(events) + 1, events'[k + 1] = e,
         \A i \in 1..Len(events) : events'[IF i <= k THEN i ELSE i + 1] = events[i],
         \/ e.op = "full" /\ srvVer' = srvVer
         \/ e.op # "full" /\ srvVer' = srvVer + 1 /\ k = Len(events),
         e.ver = srvVer', Records(e)', srv' = history'[srvVer'],
         \A v \in 0..srvVer : history'[v] = history[v],
         UNCHANGED <<agent, locals>>,
         Reached \in Nat, pc["hub"] # "idle" => ev \in Events
  PROVE  Published'
<1> DEFINE n == Len(events)
           Place(i) == IF i <= k THEN i ELSE i + 1
<1>1. n \in Nat /\ k \in 0..n /\ events \in Seq(Events) /\ events' \in Seq(Events)
      /\ srvVer \in Nat /\ srvVer' \in Nat /\ srvVer' >= srvVer
      /\ Len(events') = n + 1
  BY ConstantsAssumption DEF TypeOK
<1>2. \A i \in 1..n : events[i] \in Events /\ events[i].ver \in Nat /\ events[i].ver <= srvVer
  <2>1. ASSUME NEW i \in 1..n PROVE events[i] \in Events
    BY <1>1
  <2> QED
    BY <2>1, EventFields DEF Published, Records
<1>3. \A i \in 1..n : Place(i) \in 1..n + 1 /\ Place(i) # k + 1 /\ events'[Place(i)] = events[i]
  BY <1>1
<1>4. ASSUME NEW j \in 1..n + 1, j # k + 1
      PROVE  \E i \in 1..n : j = Place(i)
  <2>1. CASE j <= k
    <3>1. j \in 1..n /\ j = Place(j)
      BY <1>1, <2>1
    <3> QED
      BY <3>1
  <2>2. CASE ~(j <= k)
    <3>1. j - 1 \in 1..n /\ j = Place(j - 1)
      BY <1>1, <1>4, <2>2
    <3> QED
      BY <3>1
  <2> QED
    BY <2>1, <2>2
<1>5. ASSUME NEW i \in 0..n, NEW j \in 1..n, i < j
      PROVE  Place(i) < Place(j)
  BY <1>1, <1>5
<1>15. Place(0) = 0
  BY <1>1
<1> HIDE DEF Place
<1>6. srv' = history'[srvVer'] /\ (configVersion <= srvVer)'
  <2>1. configVersion' = configVersion /\ configVersion \in Nat
    BY ConstantsAssumption DEF agent, TypeOK
  <2> QED
    BY <1>1, <2>1 DEF Published
<1>7. ASSUME NEW j \in 1..n + 1 PROVE Records(events[j])'
  <2>1. CASE j = k + 1
    <3>1. events'[j] = e
      BY <2>1
    <3> QED
      BY <3>1 DEF Records
  <2>2. CASE j # k + 1
    <3>1. PICK i \in 1..n : j = Place(i)
      BY <1>4, <2>2
    <3>2. PICK d \in Events : d = events[i]
      BY <1>2
    <3>3. events'[j] = d /\ Records(d)
      BY <1>3, <3>1, <3>2 DEF Published
    <3>4. Records(d)'
      BY <1>1, <3>3, RecordsKept
    <3> QED
      BY <3>3, <3>4 DEF Records
  <2> QED
    BY <2>1, <2>2
<1>8. \A i \in 1..n : EditAt(Place(i))' <=> EditAt(i)
  BY <1>1, <1>3 DEF EditAt
<1>9. EditAt(k + 1)' <=> e.op # "full"
  BY <1>1 DEF EditAt
<1>10. ASSUME NEW i \in 1..n + 1, NEW j \in 1..n + 1, i < j, EditAt(i)', EditAt(j)'
       PROVE  events'[i].ver < events'[j].ver
  <2>1. CASE j = k + 1
    <3>1. e.ver = srvVer + 1 /\ k = n /\ events'[j] = e
      BY <1>9, <1>10, <2>1
    <3>2. i \in 1..n /\ Place(i) = i
      BY <1>1, <1>10, <2>1, <3>1 DEF Place
    <3> QED
      BY <1>1, <1>2, <1>3, <3>1, <3>2
  <2>2. CASE i = k + 1
    <3>1. k = n
      BY <1>9, <1>10, <2>2
    <3> QED
      BY <1>1, <1>10, <2>2, <3>1
  <2>3. CASE i # k + 1 /\ j # k + 1
    <3>1. PICK p \in 1..n : i = Place(p)
      BY <1>4, <2>3
    <3>2. PICK q \in 1..n : j = Place(q)
      BY <1>4, <2>3
    <3>3. p < q
      BY <1>1, <1>10, <3>1, <3>2 DEF Place
    <3>4. EditAt(p) /\ EditAt(q) /\ events'[i] = events[p] /\ events'[j] = events[q]
      BY <1>3, <1>8, <1>10, <3>1, <3>2
    <3> QED
      BY <3>3, <3>4 DEF Published
  <2> QED
    BY <2>1, <2>2, <2>3
<1>11. ASSUME NEW v \in Nat, NEW i \in 0..n, Awaits(v, i), NEW u \in v + 1..srvVer'
       PROVE  \E j \in Place(i) + 1..n + 1 : events'[j].op # "full" /\ events'[j].ver = u
  <2>1. CASE u <= srvVer
    <3>1. u \in v + 1..srvVer
      BY <1>1, <2>1
    <3>2. PICK j \in i + 1..n : EditAt(j) /\ events[j].ver = u
      BY <1>11, <3>1 DEF Awaits
    <3>3. j \in 1..n /\ i < j
      BY <1>1, <3>2
    <3>4. Place(i) < Place(j) /\ events'[Place(j)].op # "full" /\ events'[Place(j)].ver = u
      BY <1>3, <1>5, <3>2, <3>3 DEF EditAt
    <3>5. Place(j) \in Place(i) + 1..n + 1
      BY <1>1, <1>3, <3>3, <3>4 DEF Place
    <3> QED
      BY <3>4, <3>5
  <2>2. CASE ~(u <= srvVer)
    <3>1. u = srvVer + 1 /\ srvVer' = srvVer + 1 /\ k = n /\ e.op # "full"
      BY <1>1, <2>2
    <3>2. events'[n + 1].op # "full" /\ events'[n + 1].ver = u
      BY <3>1
    <3>3. n + 1 \in Place(i) + 1..n + 1
      BY <1>1, <3>1 DEF Place
    <3> QED
      BY <3>2, <3>3
  <2> QED
    BY <2>1, <2>2
<1>12. ASSUME NEW j \in 1..n + 1, ~EditAt(j)' PROVE Awaits(events[j].ver, j)'
  <2>1. CASE j = k + 1
    <3>1. events'[j].ver = srvVer'
      BY <2>1
    <3>2. srvVer' \in Nat
      BY <1>1
    <3>3. srvVer' + 1..srvVer' = {}
      BY <3>2, NothingAfter
    <3> QED
      BY <3>1, <3>3 DEF Awaits
  <2>2. CASE j # k + 1
    <3>1. PICK i \in 1..n : j = Place(i)
      BY <1>4, <2>2
    <3>2. events'[j] = events[i] /\ ~EditAt(i)
      BY <1>3, <1>8, <1>12, <3>1
    <3>3. Awaits(events[i].ver, i) /\ events[i].ver \in Nat /\ i \in 0..n
      BY <1>2, <3>2 DEF Published
    <3>4. \A u \in events[i].ver + 1..srvVer' :
            \E m \in j + 1..n + 1 : events'[m].op # "full" /\ events'[m].ver = u
      BY <1>11, <3>1, <3>3
    <3>5. \A m \in j + 1..n + 1 : m \in 1..Len(events')
      BY <1>1
    <3> QED
      BY <1>1, <3>2, <3>4, <3>5 DEF Awaits, EditAt
  <2> QED
    BY <2>1, <2>2
<1>13. Awaits(Reached, 0)'
  <2>1. Reached' = Reached /\ Awaits(Reached, 0)
    BY DEF Reached, agent, locals, Published
  <2>2. 0 \in 0..n
    BY <1>1
  <2>3. \A u \in Reached + 1..srvVer' :
          \E m \in 0 + 1..n + 1 : events'[m].op # "full" /\ events'[m].ver = u
    BY <1>11, <1>15, <2>1, <2>2
  <2>4. \A m \in 0 + 1..n + 1 : m \in 1..Len(events')
    BY <1>1
  <2> QED
    BY <1>1, <2>1, <2>3, <2>4 DEF Awaits, EditAt
<1>14. (pc["hub"] # "idle" => Records(ev) /\ (ev.op # "full" => ev.ver = configVersion + 1))'
  <2>1. UNCHANGED <<pc, ev, configVersion>>
    BY DEF agent, locals
  <2>2. ASSUME pc["hub"] # "idle" PROVE Records(ev)'
    <3>1. Records(ev) /\ ev \in Events
      BY <2>2 DEF Published
    <3>2. ASSUME NEW d \in Events, Records(d) PROVE Records(d)'
      BY <1>1, <3>2, RecordsKept
    <3> QED
      BY <2>1, <3>1, <3>2 DEF Records
  <2> QED
    BY <2>1, <2>2 DEF Published
<1> QED
  BY <1>1, <1>6, <1>7, <1>10, <1>12, <1>13, <1>14 DEF Published

(* Every edit appends the event that records it, and a full                *)
(* synchronisation records what the server has by now.                     *)
LEMMA EditPublished ==
  ASSUME Alone, TypeOK, TypeOK', Control, Published,
         NEW op \in {"add", "upd", "del", "blk"}, NEW r \in Rules \cup {None},
         NEW S \in RuleSets, NEW B \in SUBSET Protocols,
         op \in {"add", "upd"} => S[r] # None,
         op = "blk" => S = srv,
         op # "blk" => r \in Rules /\ \A q \in Rules \ {r} : S[q] = srv[q],
         op = "add" => srv[r] = None,
         Edit(op, r, S, B)
  PROVE  Published'
<1>1. /\ srvVer \in Nat /\ srvVer' = srvVer + 1 /\ srvVer' \in 0..MaxVersion
      /\ srv' = S /\ history'[srvVer'] = S
      /\ \A v \in 0..srvVer : history'[v] = history[v]
      /\ events' = Append(events, Event(op, r, S, B))
      /\ UNCHANGED <<agent, locals>>
  BY EditEffect DEF Alone
<1>2. PICK e \in Events : e = Event(op, r, S, B)
  BY <1>1, EventType
<1>3. e.ver = srvVer' /\ e.op = op /\ e.rule = r /\ e.rules = S
  BY <1>2 DEF Event
<1>4. events \in Seq(Events)
  BY DEF TypeOK
<1>5. /\ Len(events) \in 0..Len(events) /\ Len(events') = Len(events) + 1
      /\ events'[Len(events) + 1] = e
      /\ \A i \in 1..Len(events) : events'[i] = events[i]
  BY <1>1, <1>2, <1>4
<1>6. Records(e)'
  <2>1. history'[srvVer' - 1] = srv
    BY <1>1 DEF Published
  <2>2. srvVer' <= srvVer' /\ srvVer' > 0
    BY <1>1
  <2> QED
    BY <1>1, <1>3, <2>1, <2>2 DEF Records
<1>7. Reached \in Nat /\ (pc["hub"] # "idle" => ev \in Events)
  <2>1. "hub" \in Workers /\ configVersion \in Nat
    BY ConstantsAssumption DEF Alone, TypeOK
  <2> QED
    BY <2>1, EventFields DEF Control, Reached
<1>8. \A i \in 1..Len(events) :
        events'[IF i <= Len(events) THEN i ELSE i + 1] = events[i]
  BY <1>5
<1> QED
  BY <1>1, <1>2, <1>3, <1>5, <1>6, <1>7, <1>8, InsertPublished

(* The server publishes its next version, and sends it in order.           *)
LEMMA ServerPublished ==
  ASSUME Alone, TypeOK, TypeOK', Control, Published, Server
  PROVE  Published'
<1>1. srv \in RuleSets /\ srvBlk \in SUBSET Protocols
  BY DEF TypeOK
<1>2. ASSUME NEW r \in Rules, NEW d \in Configs \cup {None}
      PROVE  /\ [srv EXCEPT ![r] = d] \in RuleSets /\ [srv EXCEPT ![r] = d][r] = d
             /\ \A q \in Rules \ {r} : [srv EXCEPT ![r] = d][q] = srv[q]
  BY <1>1 DEF RuleSets
<1>3. CASE AddRule
  <2>1. PICK r \in Rules, c \in Configs :
          srv[r] = None /\ Edit("add", r, [srv EXCEPT ![r] = c], srvBlk)
    BY <1>3 DEF AddRule
  <2>2. c # None
    BY ConstantsAssumption
  <2> QED
    BY <1>1, <1>2, <2>1, <2>2, EditPublished
<1>4. CASE UpdateRule
  <2>1. PICK r \in Rules, c \in Configs : Edit("upd", r, [srv EXCEPT ![r] = c], srvBlk)
    BY <1>4 DEF UpdateRule
  <2>2. c # None
    BY ConstantsAssumption
  <2> QED
    BY <1>1, <1>2, <2>1, <2>2, EditPublished
<1>5. CASE RemoveRule
  <2>1. PICK r \in Rules : Edit("del", r, [srv EXCEPT ![r] = None], srvBlk)
    BY <1>5 DEF RemoveRule
  <2> QED
    BY <1>1, <1>2, <2>1, EditPublished
<1>6. CASE BlockProtocols
  <2>1. PICK B \in SUBSET Blockable : Edit("blk", None, srv, B)
    BY <1>6 DEF BlockProtocols
  <2>2. B \in SUBSET Protocols
    BY ConstantsAssumption
  <2> QED
    BY <1>1, <2>1, <2>2, EditPublished
<1>7. CASE SendFullSync
  <2>9. PICK k \in 0..Len(events) :
          events' = SubSeq(events, 1, k) \o <<Event("full", None, srv, srvBlk)>>
                      \o SubSeq(events, k + 1, Len(events))
    BY <1>7 DEF SendFullSync
  <2>2. UNCHANGED <<srvVars, agent, locals>> /\ UNCHANGED <<srv, srvVer, history>>
    BY <1>7 DEF SendFullSync, srvVars
  <2>3. PICK e \in Events : e = Event("full", None, srv, srvBlk)
    BY <1>1, <2>2, EventType DEF TypeOK
  <2>1. events' = SubSeq(events, 1, k) \o <<e>> \o SubSeq(events, k + 1, Len(events))
    BY <2>3, <2>9
  <2>4. e.ver = srvVer' /\ e.op = "full" /\ e.rules = srv
    BY <2>3 DEF Event
  <2>5. events \in Seq(Events) /\ srvVer \in Nat
    BY ConstantsAssumption DEF TypeOK
  <2>6. /\ Len(events') = Len(events) + 1 /\ events'[k + 1] = e
        /\ \A i \in 1..Len(events) : events'[IF i <= k THEN i ELSE i + 1] = events[i]
    <3> DEFINE a == SubSeq(events, 1, k)
               z == SubSeq(events, k + 1, Len(events))
    <3>1. /\ a \in Seq(Events) /\ Len(a) = k /\ \A i \in 1..k : a[i] = events[i]
      BY <2>5
    <3>2. /\ z \in Seq(Events) /\ Len(z) = Len(events) - k
          /\ \A i \in 1..Len(events) - k : z[i] = events[k + i]
      BY <2>5
    <3>3. events' = (a \o <<e>>) \o z
      BY <2>1
    <3> HIDE DEF a, z
    <3>4. /\ a \o <<e>> \in Seq(Events) /\ Len(a \o <<e>>) = k + 1
          /\ (a \o <<e>>)[k + 1] = e /\ \A i \in 1..k : (a \o <<e>>)[i] = events[i]
      BY <2>3, <3>1
    <3> DEFINE b == a \o <<e>>
    <3>9. b \in Seq(Events) /\ Len(b) = k + 1 /\ k \in Nat /\ Len(events) \in Nat
      BY <2>5, <3>4
    <3> HIDE DEF b
    <3>5. /\ Len(b \o z) = Len(events) + 1
          /\ \A i \in 1..k + 1 : (b \o z)[i] = b[i]
          /\ \A i \in 1..Len(events) - k : (b \o z)[k + 1 + i] = z[i]
      BY <3>2, <3>9
    <3>6. Len(events') = Len(events) + 1 /\ events'[k + 1] = e
      BY <2>5, <3>3, <3>4, <3>5 DEF b
    <3>7. \A i \in 1..Len(events) : i <= k => events'[i] = events[i]
      BY <2>5, <3>3, <3>4, <3>5 DEF b
    <3>8. ASSUME NEW i \in 1..Len(events), ~(i <= k) PROVE events'[i + 1] = events[i]
      <4>1. i - k \in 1..Len(events) - k /\ k + 1 + (i - k) = i + 1 /\ k + (i - k) = i
        BY <2>5, <3>8
      <4>2. (b \o z)[k + 1 + (i - k)] = z[i - k] /\ z[i - k] = events[k + (i - k)]
        BY <3>2, <3>5, <4>1
      <4> QED
        BY <3>3, <4>1, <4>2 DEF b
    <3> QED
      BY <3>6, <3>7, <3>8
  <2>7. Records(e)' /\ srv' = history'[srvVer']
    BY <2>2, <2>4, <2>5 DEF Records, Published
  <2>8. Reached \in Nat /\ (pc["hub"] # "idle" => ev \in Events)
    <3>1. "hub" \in Workers /\ configVersion \in Nat
      BY ConstantsAssumption DEF Alone, TypeOK
    <3> QED
      BY <3>1, EventFields DEF Control, Reached
  <2> QED
    BY <2>2, <2>3, <2>4, <2>6, <2>7, <2>8, InsertPublished
<1> QED
  BY <1>3, <1>4, <1>5, <1>6, <1>7 DEF Server

(* The head of the queue is the next edit, or a full synchronisation, or   *)
(* an edit the agent has already; the queue behind it is as it was.        *)
LEMMA HeadPublished ==
  ASSUME Alone, TypeOK, Control, Published, pc["hub"] = "idle", events # <<>>
  PROVE  /\ Head(events) \in Events /\ Records(Head(events))
         /\ Head(events).op = "full" \/ Head(events).ver <= configVersion
              \/ Head(events).ver = configVersion + 1
         /\ \A i \in 1..Len(Tail(events)) : Tail(events)[i] = events[i + 1]
         /\ Len(Tail(events)) = Len(events) - 1
         /\ Awaits(IF Head(events).op = "full" \/ Head(events).ver > configVersion
                   THEN Head(events).ver ELSE configVersion, 1)
<1> DEFINE e == Head(events)
<1>1. /\ events \in Seq(Events) /\ e = events[1] /\ e \in Events
      /\ Len(events) \in Nat /\ 1 \in 1..Len(events)
  BY DEF TypeOK
<1>2. srvVer \in Nat /\ configVersion \in Nat /\ configVersion <= srvVer
  BY ConstantsAssumption DEF TypeOK, Published
<1>3. e.ver \in Nat /\ Records(e) /\ e.ver <= srvVer
  BY <1>1, EventFields DEF Published, Records
<1>4. /\ \A i \in 1..Len(Tail(events)) : Tail(events)[i] = events[i + 1]
      /\ Len(Tail(events)) = Len(events) - 1
  BY <1>1
<1> HIDE DEF e
<1>5. Awaits(configVersion, 0)
  BY DEF Published, Reached
<1>6. CASE e.op = "full"
  <2>1. Awaits(e.ver, 1)
    BY <1>1, <1>6 DEF Published, EditAt
  <2> QED
    BY <1>1, <1>3, <1>4, <1>6, <2>1 DEF e
<1>7. CASE e.op # "full"
  <2>1. EditAt(1)
    BY <1>1, <1>7 DEF EditAt
  <2>2. \A j \in 1..Len(events) : 1 < j /\ EditAt(j) => e.ver < events[j].ver
    BY <1>1, <2>1 DEF Published
  <2>3. ASSUME NEW v \in Nat, v >= configVersion, v >= e.ver PROVE Awaits(v, 1)
    <3> SUFFICES ASSUME NEW u \in v + 1..srvVer
                 PROVE  \E j \in 1 + 1..Len(events) : EditAt(j) /\ events[j].ver = u
      BY DEF Awaits
    <3>1. u \in configVersion + 1..srvVer
      BY <1>2, <2>3
    <3>2. PICK j \in 0 + 1..Len(events) : EditAt(j) /\ events[j].ver = u
      BY <1>5, <3>1 DEF Awaits
    <3>3. j # 1
      BY <1>1, <1>3, <2>3, <3>2
    <3>4. j \in 1 + 1..Len(events)
      BY <1>1, <3>2, <3>3
    <3> QED
      BY <3>2, <3>4
  <2>4. CASE e.ver <= configVersion
    <3>1. Awaits(configVersion, 1) /\ ~(e.ver > configVersion)
      BY <1>2, <1>3, <2>3, <2>4
    <3> QED
      BY <1>1, <1>3, <1>4, <1>7, <2>4, <3>1 DEF e
  <2>5. CASE ~(e.ver <= configVersion)
    <3>1. e.ver > configVersion /\ configVersion + 1 \in configVersion + 1..srvVer
      BY <1>2, <1>3, <2>5
    <3>2. PICK j \in 0 + 1..Len(events) : EditAt(j) /\ events[j].ver = configVersion + 1
      BY <1>5, <3>1 DEF Awaits
    <3>3. e.ver = configVersion + 1
      <4>1. CASE j = 1
        BY <1>1, <3>2, <4>1
      <4>2. CASE j # 1
        <5>1. j \in 1..Len(events) /\ 1 < j
          BY <1>1, <3>2, <4>2
        <5>2. e.ver < configVersion + 1
          BY <2>2, <3>2, <5>1
        <5> QED
          BY <1>2, <1>3, <3>1, <5>2
      <4> QED
        BY <4>1, <4>2
    <3>4. Awaits(e.ver, 1)
      BY <1>2, <1>3, <2>3, <3>1
    <3> QED
      BY <1>1, <1>3, <1>4, <3>1, <3>3, <3>4 DEF e
  <2> QED
    BY <2>4, <2>5
<1> QED
  BY <1>6, <1>7

(* The queue after its head is taken.                                      *)
LEMMA TailPublished ==
  ASSUME Alone, TypeOK, TypeOK', Control, Published, pc["hub"] = "idle", events # <<>>,
         events' = Tail(events), UNCHANGED srvVars, configVersion' = configVersion,
         Awaits(Reached', 1),
         (pc["hub"] # "idle" => Records(ev) /\ (ev.op # "full" => ev.ver = configVersion + 1))'
  PROVE  Published'
<1>1. /\ \A i \in 1..Len(events') : events'[i] = events[i + 1]
      /\ Len(events') = Len(events) - 1 /\ Len(events) \in Nat
  BY HeadPublished DEF TypeOK
<1>2. UNCHANGED <<srv, srvVer, history>>
  BY DEF srvVars
<1>3. \A i \in 1..Len(events') : i + 1 \in 1..Len(events)
  BY <1>1
<1>4. \A i \in 1..Len(events') : EditAt(i)' <=> EditAt(i + 1)
  BY <1>1, <1>3 DEF EditAt
<1>5. ASSUME NEW v, NEW i \in 0..Len(events'), Awaits(v, i + 1),
             NEW u \in v + 1..srvVer
      PROVE  \E j \in i + 1..Len(events') : j \in 1..Len(events') /\ events'[j].op # "full" /\ events'[j].ver = u
  <2>1. PICK j \in i + 1 + 1..Len(events) : EditAt(j) /\ events[j].ver = u
    BY <1>5 DEF Awaits
  <2>2. j - 1 \in i + 1..Len(events') /\ j - 1 \in 1..Len(events') /\ j - 1 + 1 = j
    BY <1>1, <2>1
  <2> QED
    BY <1>1, <2>1, <2>2 DEF EditAt
<1>6. \A i \in 1..Len(events') : Records(events[i])'
  BY <1>1, <1>2, <1>3 DEF Published, Records
<1>7. ASSUME NEW i \in 1..Len(events'), NEW j \in 1..Len(events'), i < j, EditAt(i)', EditAt(j)'
      PROVE  events'[i].ver < events'[j].ver
  <2>1. i + 1 < j + 1
    BY <1>7
  <2> QED
    BY <1>1, <1>3, <1>4, <1>7, <2>1 DEF Published
<1>8. ASSUME NEW i \in 1..Len(events'), ~EditAt(i)' PROVE Awaits(events[i].ver, i)'
  <2>1. Awaits(events[i + 1].ver, i + 1) /\ events'[i] = events[i + 1] /\ i \in 0..Len(events')
    BY <1>1, <1>3, <1>4, <1>8 DEF Published
  <2>2. \A u \in events'[i].ver + 1..srvVer' : \E j \in i + 1..Len(events') :
           j \in 1..Len(events') /\ events'[j].op # "full" /\ events'[j].ver = u
    BY <1>2, <1>5, <2>1
  <2> QED
    BY <2>2 DEF Awaits, EditAt
<1>9. Awaits(Reached, 0)'
  <2>1. 0 \in 0..Len(events') /\ Awaits(Reached', 0 + 1)
    <3>1. Len(events') \in Nat
      BY DEF TypeOK
    <3> QED
      BY <3>1
  <2> QED
    BY <1>2, <1>5, <2>1 DEF Awaits, EditAt
<1> QED
  BY <1>2, <1>6, <1>7, <1>8, <1>9 DEF Published

(* Whatever hubLoop does, the queue keeps its meaning.                     *)
LEMMA HubPublished ==
  ASSUME Alone, TypeOK, TypeOK', Control, Published, Flow, HubWorks
  PROVE  Published'
<1>1. "hub" \in Workers /\ configVersion \in Nat
  BY ConstantsAssumption DEF Alone, TypeOK
<1>2. CASE HubSkip("hub")
  <2>1. UNCHANGED <<srvVars, configVersion, pc, ev>> /\ pc["hub"] = "idle" /\ events # <<>>
        /\ events' = Tail(events) /\ Head(events).op # "full" /\ Head(events).ver <= configVersion
    BY <1>2 DEF HubSkip, HubTake, agent, locals
  <2>2. Head(events) \in Events /\ ~(Head(events).ver > configVersion)
    BY <1>1, <2>1, HeadPublished, EventFields
  <2>3. Awaits(configVersion, 1)
    BY <2>1, <2>2, HeadPublished
  <2>4. Reached' = configVersion
    BY <2>1 DEF Reached
  <2> QED
    BY <2>1, <2>3, <2>4, TailPublished
<1>3. CASE HubAccept("hub")
  <2>1. /\ UNCHANGED <<srvVars, configVersion>> /\ pc["hub"] = "idle" /\ events # <<>>
        /\ events' = Tail(events) /\ ev' = Head(events)
        /\ Head(events).op = "full" \/ Head(events).ver > configVersion
    BY <1>3 DEF HubAccept, HubTake, agent
  <2>2. /\ Head(events) \in Events /\ Records(Head(events)) /\ Awaits(Head(events).ver, 1)
        /\ Head(events).op # "full" => Head(events).ver = configVersion + 1
    <3>1. Head(events) \in Events /\ Head(events).ver \in Nat
      BY <2>1, HeadPublished, EventFields
    <3> QED
      BY <1>1, <2>1, <3>1, HeadPublished
  <2>3. pc'["hub"] # "idle"
    <3>1. pc' = [pc EXCEPT !["hub"] = FirstStep(Head(events))]
      BY <1>3 DEF HubAccept, Goto
    <3>2. FirstStep(Head(events)) # "idle"
      BY <2>2, EventFields DEF FirstStep
    <3> QED
      BY <1>1, <3>1, <3>2 DEF TypeOK
  <2>4. Awaits(Reached', 1)
    BY <2>1, <2>2, <2>3 DEF Reached
  <2>5. (pc["hub"] # "idle" => Records(ev) /\ (ev.op # "full" => ev.ver = configVersion + 1))'
    BY <2>1, <2>2 DEF Records, srvVars
  <2> QED
    BY <2>1, <2>4, <2>5, TailPublished
<1>4. CASE Finish("hub")
  <2>1. /\ UNCHANGED <<srv, srvVer, history, events>> /\ configVersion' = ev.ver
        /\ pc["hub"] # "idle" /\ pc'["hub"] = "idle"
    BY <1>1, <1>4 DEF Finish, Goto, srvVars, TypeOK
  <2>2. ev.ver <= srvVer /\ Reached' = Reached
    BY <2>1 DEF Published, Records, Reached
  <2> QED
    BY <2>1, <2>2 DEF Published, Records, Awaits, EditAt
<1>5. CASE ~(HubSkip("hub") \/ HubAccept("hub") \/ Finish("hub"))
  <2>1. UNCHANGED <<srv, srvVer, history, events, configVersion, ev>>
    BY <1>5 DEF HubWorks, FullAdopt, Block, CopyRules, Evict, Forget, UpdateRulesList,
      StopForwarder, LoopStep, LoopTake, LoopNext, StartStep, Check, Announce, GetOrCreateTunnel,
      TunnelFails, Attach, Start, StartFails, Cleanup, Fail, Register, Mark, srvVars, agent
  <2>2. pc["hub"] # "idle"
    BY <1>5 DEF HubWorks, FullAdopt, Block, CopyRules, Evict, Forget, UpdateRulesList,
      StopForwarder, LoopStep, LoopTake, LoopNext, StartStep, Check, Announce, GetOrCreateTunnel,
      TunnelFails, Attach, Start, StartFails, Cleanup, Fail, Register, Mark
  <2>3. pc'["hub"] # "idle"
    <3>1. pc \in [Workers -> PCs] /\ ret["hub"] \in RetPCs
      BY <1>1 DEF TypeOK
    <3>2. CASE StopForwarder("hub") \/ Fail("hub") \/ Mark("hub")
      <4>1. pc' = [pc EXCEPT !["hub"] = ret["hub"]] /\ (pc["hub"] = "stop" \/ pc["hub"] \in StartPCs)
        BY <3>2 DEF StopForwarder, Fail, Mark, Goto, StartPCs
      <4>2. ret["hub"] # "idle"
        BY <1>1, <4>1 DEF Control, ControlOf, LoopPCs
      <4> QED
        BY <1>1, <3>1, <4>1, <4>2
    <3>3. CASE ~(StopForwarder("hub") \/ Fail("hub") \/ Mark("hub"))
      <4>1. pc' = pc \/ \E l \in PCs \ {"idle"} : pc' = [pc EXCEPT !["hub"] = l]
        BY <1>5, <3>3 DEF HubWorks, FullAdopt, Block, CopyRules, Evict, Forget, UpdateRulesList,
          LoopStep, LoopTake, LoopNext, StartStep, Check, Announce, GetOrCreateTunnel, Build,
          TunnelFails, Attach, Start, StartFails, Cleanup, Register, Goto, PCs, StartPCs, LoopPCs, HubPCs
      <4> QED
        BY <1>1, <2>2, <3>1, <4>1
    <3> QED
      BY <3>2, <3>3
  <2>4. Reached' = Reached
    BY <2>1, <2>2, <2>3 DEF Reached
  <2> QED
    BY <2>1, <2>2, <2>3, <2>4 DEF Published, Records, Awaits, EditAt
<1> QED
  BY <1>2, <1>3, <1>4, <1>5 DEF HubWorks

-----------------------------------------------------------------------------
(* The types of what "hub" works with.                                     *)
LEMMA HubTypes ==
  ASSUME Alone, TypeOK, Control
  PROVE  /\ "hub" \in Workers /\ ControlOf("hub")
         /\ pc \in [Workers -> PCs] /\ ret \in [Workers -> RetPCs]
         /\ todo \in [Workers -> SUBSET Rules] /\ plan \in [Workers -> RuleSets]
         /\ old \in [Workers -> RuleSets] /\ cur \in [Workers -> Rules \cup {None}]
         /\ hand \in [Workers -> Forwarder \cup {None}]
         /\ pc["hub"] # "idle" => ev \in Events
  BY DEF Alone, TypeOK, Control

(* The steps of handleConfigSync go where the event sends them,            *)
LEMMA HandlerFlow ==
  ASSUME Alone, TypeOK, Control, Published, Flow,
         HubSkip("hub") \/ HubAccept("hub") \/ FullAdopt("hub") \/ Block("hub")
           \/ CopyRules("hub") \/ Evict("hub") \/ Forget("hub") \/ UpdateRulesList("hub")
  PROVE  Flow'
<1> USE HubTypes DEF Flow, Goto, StartPCs, LoopPCs
<1>1. CASE HubSkip("hub")
  BY <1>1 DEF HubSkip, agent, locals
<1>2. CASE HubAccept("hub")
  <2>1. pc["hub"] = "idle" /\ events # <<>>
    BY <1>2 DEF HubAccept, HubTake
  <2>2. PICK e \in Events : e = Head(events)
    BY <2>1, HeadPublished
  <2>3. /\ pc'["hub"] = FirstStep(e) /\ ev' = e /\ plan'["hub"] = e.rules
        /\ cur'["hub"] = e.rule /\ ret'["hub"] = AfterStop(e)
    BY <1>2, <2>2 DEF HubAccept
  <2>4. /\ e.op \in {"full", "add", "upd", "del", "blk"}
        /\ e.op \in {"add", "upd"} => e.rule \in Rules /\ e.rules[e.rule] # None
    BY EventFields
  <2>5. FirstStep(e) = IF e.op = "full" THEN "adopt" ELSE IF e.op = "blk" THEN "block"
                       ELSE IF e.op = "add" THEN "check" ELSE "stop"
    BY <2>4 DEF FirstStep
  <2> QED
    BY <2>3, <2>4, <2>5 DEF AfterStop
<1>3. CASE FullAdopt("hub")
  BY <1>3 DEF FullAdopt
<1>4. CASE Block("hub")
  BY <1>4 DEF Block
<1>5. CASE CopyRules("hub")
  BY <1>5 DEF CopyRules
<1>6. CASE Evict("hub")
  BY <1>6 DEF Evict
<1>7. CASE Forget("hub")
  BY <1>7 DEF Forget
<1>8. CASE UpdateRulesList("hub")
  BY <1>8 DEF UpdateRulesList
<1> QED
  BY <1>1, <1>2, <1>3, <1>4, <1>5, <1>6, <1>7, <1>8

(* the loops start rules of a full synchronisation,                        *)
LEMMA LoopFlow ==
  ASSUME Alone, TypeOK, Control, Published, Flow,
         StopForwarder("hub") \/ LoopStep("hub") \/ Finish("hub")
  PROVE  Flow'
<1> USE HubTypes DEF Flow, Goto, StartPCs, LoopPCs
<1>1. CASE StopForwarder("hub")
  <2>1. ev.op \in {"add", "upd"} => ev.rule \in Rules /\ ev.rules[ev.rule] # None
    BY <1>1, EventFields DEF StopForwarder
  <2>2. /\ pc'["hub"] = AfterStop(ev) /\ ret'["hub"] = "list" /\ cur'["hub"] = ev.rule
        /\ ev.op \in {"del", "upd"} /\ UNCHANGED <<plan, ev>> /\ pc["hub"] # "idle"
    BY <1>1 DEF StopForwarder
  <2>3. AfterStop(ev) = IF ev.op = "del" THEN "forget" ELSE "check"
    BY <2>2 DEF AfterStop
  <2> QED
    BY <2>1, <2>2, <2>3
<1>2. CASE LoopTake("hub")
  <2>1. PICK r \in todo["hub"] :
          IF pc["hub"] = "scan" /\ Registered(r) # {}
            THEN UNCHANGED <<pc, cur, ret>>
            ELSE /\ pc' = [pc EXCEPT !["hub"] = "check"] /\ cur' = [cur EXCEPT !["hub"] = r]
                 /\ ret' = [ret EXCEPT !["hub"] = pc["hub"]]
    BY <1>2 DEF LoopTake
  <2>2. pc["hub"] \in {"restart", "scan"} /\ UNCHANGED <<plan, ev>>
    BY <1>2 DEF LoopTake
  <2>3. r \in Rules /\ ev.rules[r] # None
    BY <2>2 DEF ControlOf
  <2> QED
    BY <2>1, <2>2, <2>3
<1>3. CASE LoopNext("hub")
  BY <1>3 DEF LoopNext
<1>4. CASE Finish("hub")
  BY <1>4 DEF Finish
<1> QED
  BY <1>1, <1>2, <1>3, <1>4 DEF LoopStep

(* and startForwarder returns to its caller.                               *)
LEMMA StartFlow ==
  ASSUME Alone, TypeOK, Control, Published, Flow, StartStep("hub")
  PROVE  Flow'
<1> USE HubTypes DEF Flow, Goto, StartPCs, LoopPCs
<1>1. /\ UNCHANGED <<plan, ev, cur, ret>> /\ pc["hub"] \in StartPCs
  BY DEF StartStep, Check, Announce, GetOrCreateTunnel, TunnelFails, Attach, Start, StartFails,
         Cleanup, Fail, Register, Mark
<1>2. CASE Fail("hub") \/ Mark("hub")
  BY <1>1, <1>2 DEF Fail, Mark
<1>3. CASE ~(Fail("hub") \/ Mark("hub"))
  <2>1. pc'["hub"] \in StartPCs
    BY <1>3 DEF StartStep, Check, Announce, GetOrCreateTunnel, Build, TunnelFails, Attach, Start,
         StartFails, Cleanup, Register
  <2> QED
    BY <1>1, <2>1
<1> QED
  BY <1>2, <1>3

(* Whatever hubLoop does, its next step is one of the event in hand.       *)
LEMMA HubFlow ==
  ASSUME Alone, TypeOK, Control, Published, Flow, HubWorks
  PROVE  Flow'
  BY HandlerFlow, LoopFlow, StartFlow DEF HubWorks

-----------------------------------------------------------------------------
(* An edit in hand is the next one: except for its rule, the rules are     *)
(* what they were at the agent's version.                                  *)
LEMMA NextEdit ==
  ASSUME TypeOK, Published, pc["hub"] # "idle", ev.op # "full", NEW q \in Rules,
         ev.op = "blk" \/ q # ev.rule
  PROVE  ev.rules[q] = history[configVersion][q]
<1>1. ev.ver = configVersion + 1 /\ configVersion \in Nat
  BY ConstantsAssumption DEF Published, TypeOK
<1>2. ev.ver - 1 = configVersion
  BY <1>1
<1> QED
  BY <1>2 DEF Published, Records

(* The contents of forwarders and rules.                                   *)
LEMMA ForwarderFields ==
  ASSUME TypeOK
  PROVE  /\ \A f \in forwarders : f.rule \in Rules /\ f.cfg \in Configs /\ f.cfg # None
         /\ rules \in RuleSets /\ history[configVersion] \in RuleSets
         /\ "hub" \in Workers /\ hand["hub"] # None => hand["hub"] \in Forwarder
<1>1. \A f \in forwarders : f \in Forwarder
  BY DEF TypeOK
<1>2. \A f \in Forwarder : f.rule \in Rules /\ f.cfg \in Configs /\ f.cfg # None
  BY ConstantsAssumption DEF Forwarder
<1> QED
  BY <1>1, <1>2 DEF TypeOK

(* The steps of handleConfigSync keep Contents,                            *)
LEMMA HandlerContents ==
  ASSUME Alone, TypeOK, Control, Published, Flow, Contents,
         HubSkip("hub") \/ HubAccept("hub") \/ FullAdopt("hub") \/ Block("hub")
           \/ CopyRules("hub") \/ Evict("hub") \/ Forget("hub") \/ UpdateRulesList("hub")
  PROVE  Contents'
<1>1. /\ "hub" \in Workers /\ pc \in [Workers -> PCs]
      /\ \A f \in forwarders : f.rule \in Rules /\ f.cfg \in Configs /\ f.cfg # None
      /\ rules \in RuleSets /\ history[configVersion] \in RuleSets
  BY HubTypes, ForwarderFields
<1>2. hand["hub"] = None /\ hand' = hand
  <2>1. pc["hub"] \notin {"attach", "start", "cleanup", "register"} /\ hand' = hand
    BY DEF HubSkip, HubAccept, HubTake, FullAdopt, Block, CopyRules, Evict, Forget,
           UpdateRulesList, locals
  <2> QED
    BY <2>1, HubTypes DEF ControlOf
<1>3. CASE HubSkip("hub")
  BY <1>3 DEF HubSkip, agent, locals, srvVars, Contents, Merged
<1>4. CASE HubAccept("hub")
  <2>1. pc["hub"] = "idle" /\ events # <<>>
    BY <1>4 DEF HubAccept, HubTake
  <2>2. PICK e \in Events : e = Head(events)
    BY <2>1, HeadPublished
  <2>3. /\ pc'["hub"] = FirstStep(e) /\ ev' = e
        /\ UNCHANGED <<rules, history, configVersion, forwarders>>
        /\ e.op = "full" \/ e.ver > configVersion
    BY <1>1, <1>4, <2>2 DEF HubAccept, Goto, srvVars, agent
  <2>4. rules = history[configVersion] /\ \A f \in forwarders : f.cfg = rules[f.rule]
    BY <2>1 DEF Contents, Merged, Before, StartPCs
  <2>5. FirstStep(e) = IF e.op = "full" THEN "adopt" ELSE IF e.op = "blk" THEN "block"
                       ELSE IF e.op = "add" THEN "check" ELSE "stop"
    BY EventFields DEF FirstStep
  <2>6. CASE e.op = "add"
    <3>1. e.ver = configVersion + 1 /\ Records(e) /\ configVersion \in Nat
      BY <2>1, <2>2, <2>3, <2>6, HeadPublished, ConstantsAssumption, EventFields DEF TypeOK
    <3>2. /\ e.rule \in Rules /\ history[configVersion][e.rule] = None
          /\ \A q \in Rules \ {e.rule} : e.rules[q] = history[configVersion][q]
      <4>1. e.ver - 1 = configVersion
        BY <3>1
      <4> QED
        BY <2>6, <3>1, <4>1 DEF Records
    <3>3. \A f \in forwarders : f.rule # e.rule /\ f.cfg = e.rules[f.rule]
      BY <1>1, <2>4, <3>2
    <3> QED
      BY <1>2, <2>3, <2>4, <2>5, <2>6, <3>3 DEF Contents, Merged, Before
  <2>7. CASE e.op # "add"
    BY <1>2, <2>3, <2>4, <2>5, <2>7 DEF Contents, Merged, Before, StartPCs
  <2> QED
    BY <2>6, <2>7
<1>5. CASE FullAdopt("hub")
  <2>1. pc["hub"] = "adopt" /\ pc'["hub"] = "restart" /\ rules' = ev.rules /\ ev' = ev
    BY <1>1, <1>5 DEF FullAdopt, Goto
  <2>2. \A f \in forwarders : f.cfg = rules[f.rule]
    BY <2>1 DEF Contents, Before
  <2>3. \A f \in forwarders' :
          f \in forwarders /\ ev.rules[f.rule] # None /\ ~Changed(rules, f.rule, ev.rules)
    BY <1>5 DEF FullAdopt, Drop
  <2>4. \A f \in forwarders' : f.cfg = ev.rules[f.rule]
    BY <1>1, <2>2, <2>3 DEF Changed
  <2> QED
    BY <1>2, <2>1, <2>4 DEF Contents, Merged, Before
<1>6. CASE Block("hub") \/ CopyRules("hub") \/ Evict("hub")
  <2>1. /\ pc["hub"] \in {"block", "copy", "evict"} /\ pc'["hub"] \in {"copy", "evict", "list"}
        /\ forwarders' \subseteq forwarders
        /\ UNCHANGED <<rules, history, configVersion, ev>>
    BY <1>1, <1>6 DEF Block, CopyRules, Evict, Drop, Goto, srvVars, agent
  <2>2. ev.op = "blk" /\ rules = history[configVersion]
        /\ \A f \in forwarders : f.cfg = rules[f.rule]
    BY <2>1 DEF Flow, Contents, Merged, Before, StartPCs
  <2>3. \A q \in Rules : ev.rules[q] = rules[q]
    BY <2>1, <2>2, NextEdit
  <2> QED
    BY <1>1, <1>2, <2>1, <2>2, <2>3 DEF Contents, Merged, Before, StartPCs
<1>7. CASE Forget("hub")
  <2>1. /\ pc["hub"] = "forget" /\ pc'["hub"] = "list"
        /\ UNCHANGED <<rules, history, configVersion, ev, forwarders>>
    BY <1>1, <1>7, HubTypes DEF Forget, Goto, srvVars, Flow
  <2> QED
    BY <1>2, <2>1 DEF Contents, Merged, Before, StartPCs
<1>8. CASE UpdateRulesList("hub")
  <2>1. /\ pc["hub"] = "list" /\ pc'["hub"] = "finish" /\ ev.op # "full" /\ ev \in Events
        /\ rules' = IF ev.op = "blk" THEN rules ELSE [rules EXCEPT ![ev.rule] = ev.rules[ev.rule]]
        /\ UNCHANGED <<ev, forwarders>>
    BY <1>1, <1>8, HubTypes DEF UpdateRulesList, Goto, Flow
  <2>2. rules = history[configVersion] /\ \A f \in forwarders : f.cfg = ev.rules[f.rule]
    BY <2>1 DEF Contents, Merged, Before, StartPCs
  <2>3. \A q \in Rules : ev.op = "blk" \/ q # ev.rule => ev.rules[q] = rules[q]
    BY <2>1, <2>2, NextEdit
  <2>4. ev.rules \in RuleSets
    BY <2>1, EventFields
  <2>5. rules' = ev.rules
    <3>1. rules' \in RuleSets /\ \A q \in Rules : rules'[q] = ev.rules[q]
      BY <1>1, <2>1, <2>3, <2>4 DEF RuleSets
    <3> QED
      BY <2>4, <3>1 DEF RuleSets
  <2> QED
    BY <1>2, <2>1, <2>2, <2>5 DEF Contents, Merged, Before
<1> QED
  BY <1>3, <1>4, <1>5, <1>6, <1>7, <1>8

(* the loops and the stop,                                                 *)
LEMMA LoopContents ==
  ASSUME Alone, TypeOK, Control, Published, Flow, Contents,
         StopForwarder("hub") \/ LoopStep("hub") \/ Finish("hub")
  PROVE  Contents'
<1>1. /\ "hub" \in Workers /\ pc \in [Workers -> PCs]
      /\ \A f \in forwarders : f.rule \in Rules
  BY HubTypes, ForwarderFields
<1>2. hand["hub"] = None /\ hand' = hand
  <2>1. pc["hub"] \notin {"attach", "start", "cleanup", "register"} /\ hand' = hand
    BY DEF StopForwarder, LoopStep, LoopTake, LoopNext, Finish
  <2> QED
    BY <2>1, HubTypes DEF ControlOf
<1>3. CASE StopForwarder("hub")
  <2>1. /\ pc["hub"] = "stop" /\ pc'["hub"] \in {"forget", "check"} /\ ev.op \in {"del", "upd"}
        /\ forwarders' = forwarders \ Registered(ev.rule)
        /\ UNCHANGED <<rules, history, configVersion, ev>>
    BY <1>1, <1>3 DEF StopForwarder, Drop, Goto, srvVars, Flow, AfterStop
  <2>2. rules = history[configVersion] /\ \A f \in forwarders : f.cfg = rules[f.rule]
    BY <2>1 DEF Contents, Merged, Before, StartPCs
  <2>3. \A q \in Rules : q # ev.rule => ev.rules[q] = rules[q]
    BY <2>1, <2>2, NextEdit
  <2>4. \A f \in forwarders' : f.cfg = ev.rules[f.rule]
    BY <1>1, <2>1, <2>2, <2>3 DEF Registered
  <2> QED
    BY <1>2, <2>1, <2>2, <2>4 DEF Contents, Merged, Before
<1>4. CASE LoopStep("hub")
  <2>1. /\ pc["hub"] \in {"restart", "scan"} /\ pc'["hub"] \in {"restart", "scan", "check"}
        /\ UNCHANGED <<rules, forwarders, ev>> /\ ev.op = "full"
    BY <1>1, <1>4 DEF LoopStep, LoopTake, LoopNext, Goto, agent, Flow
  <2> QED
    BY <1>2, <2>1 DEF Contents, Merged, Before, StartPCs
<1>5. CASE Finish("hub")
  <2>1. /\ pc["hub"] \in {"scan", "finish"} /\ pc'["hub"] = "idle"
        /\ UNCHANGED <<rules, history, forwarders>> /\ configVersion' = ev.ver
    BY <1>1, <1>5 DEF Finish, Goto, srvVars
  <2>2. ev.rules = history[ev.ver] /\ rules = ev.rules
    BY <2>1 DEF Published, Records, Contents, Merged
  <2>3. \A f \in forwarders : f.cfg = ev.rules[f.rule]
    BY <2>1 DEF Contents, Before
  <2> QED
    BY <1>2, <2>1, <2>2, <2>3 DEF Contents, Merged, Before, StartPCs
<1> QED
  BY <1>3, <1>4, <1>5

(* and startForwarder.                                                     *)
LEMMA StartContents ==
  ASSUME Alone, TypeOK, Control, Hands, Published, Flow, Contents, StartStep("hub")
  PROVE  Contents'
<1>1. /\ "hub" \in Workers /\ pc \in [Workers -> PCs] /\ ret \in [Workers -> RetPCs]
      /\ pc["hub"] \in StartPCs /\ pc["hub"] \notin Before \cup {"restart", "scan", "finish"}
      /\ UNCHANGED <<rules, history, configVersion, ev, cur, ret, plan>>
  BY HubTypes DEF StartStep, Check, Announce, GetOrCreateTunnel, TunnelFails, Attach, Start,
       StartFails, Cleanup, Fail, Register, Mark, srvVars, agent, StartPCs, Before
<1>2. pc'["hub"] \in StartPCs \cup (IF ev.op = "full" THEN {"restart", "scan"} ELSE {"list"})
  <2>1. pc'["hub"] \in StartPCs \/ pc'["hub"] = ret["hub"]
    BY <1>1 DEF StartStep, Check, Announce, GetOrCreateTunnel, Build, TunnelFails, Attach, Start,
       StartFails, Cleanup, Fail, Register, Mark, Goto, StartPCs
  <2> QED
    BY <1>1, <2>1 DEF Flow, LoopPCs
<1>3. Merged' <=> Merged
  BY <1>1, <1>2 DEF Merged, StartPCs, Before
<1>4. pc'["hub"] \notin Before
  BY <1>2 DEF Before, StartPCs
<1>5. \A f \in forwarders : f.cfg = ev.rules[f.rule]
  BY <1>1 DEF Contents
<1>6. CASE Register("hub")
  <2>1. hand["hub"] # None /\ hand["hub"].rule = cur["hub"] /\ hand["hub"].cfg = ev.rules[cur["hub"]]
    BY <1>1, <1>6, HubTypes DEF Register, ControlOf, Hands, Contents
  <2>2. \A f \in forwarders' : f \in forwarders \/ f = hand["hub"]
    BY <1>6 DEF Register
  <2>3. hand'["hub"] = None
    BY <1>6, HubTypes DEF Register
  <2> QED
    BY <1>1, <1>3, <1>4, <1>5, <2>1, <2>2, <2>3 DEF Contents
<1>7. CASE GetOrCreateTunnel("hub")
  <2>1. \E t : Build("hub", t)
    BY <1>7 DEF GetOrCreateTunnel
  <2>2. hand'["hub"].cfg = plan["hub"][cur["hub"]] /\ forwarders' = forwarders
    BY <1>7, <2>1, HubTypes DEF Build, GetOrCreateTunnel
  <2>3. plan["hub"] = ev.rules
    BY <1>1 DEF Flow, Before
  <2> QED
    BY <1>1, <1>3, <1>4, <1>5, <2>2, <2>3 DEF Contents
<1>8. CASE ~(Register("hub") \/ GetOrCreateTunnel("hub"))
  <2>1. forwarders' = forwarders /\ (hand'["hub"] # None => hand'["hub"] = hand["hub"])
    BY <1>8, HubTypes DEF StartStep, Check, Announce, TunnelFails, Attach, Start, StartFails,
       Cleanup, Fail, Mark, agent
  <2> QED
    BY <1>1, <1>3, <1>4, <1>5, <2>1 DEF Contents
<1> QED
  BY <1>6, <1>7, <1>8

(* Whatever hubLoop does keeps Contents.                                   *)
LEMMA HubContents ==
  ASSUME Alone, TypeOK, Control, Hands, Published, Flow, Contents, HubWorks
  PROVE  Contents'
  BY HandlerContents, LoopContents, StartContents DEF HubWorks

-----------------------------------------------------------------------------
(* A rule the server adds has no forwarder yet.                            *)
LEMMA AddedIsNew ==
  ASSUME Alone, TypeOK, Control, Published, Contents, HubAccept("hub"), ev'.op = "add"
  PROVE  Registered(ev'.rule) = {}
<1>1. pc["hub"] = "idle" /\ events # <<>> /\ ev' = Head(events)
      /\ (Head(events).op = "full" \/ Head(events).ver > configVersion)
  BY DEF HubAccept, HubTake
<1>2. PICK e \in Events : e = Head(events) /\ Records(e)
  BY <1>1, HeadPublished
<1>3. e.ver - 1 = configVersion
  BY <1>1, <1>2, HeadPublished, ConstantsAssumption, EventFields DEF TypeOK
<1>4. history[configVersion][e.rule] = None
  BY <1>1, <1>2, <1>3 DEF Records
<1>5. rules = history[configVersion] /\ \A f \in forwarders : f.cfg = rules[f.rule]
  BY <1>1 DEF Contents, Merged, Before, StartPCs
<1> QED
  BY <1>1, <1>2, <1>4, <1>5, ForwarderFields DEF Registered

(* The reported status, at each step of handleConfigSync,                  *)
LEMMA HandlerReported ==
  ASSUME Alone, TypeOK, Control, Published, Flow, Contents, Reported,
         HubSkip("hub") \/ HubAccept("hub") \/ FullAdopt("hub") \/ Block("hub")
           \/ CopyRules("hub") \/ Evict("hub") \/ Forget("hub") \/ UpdateRulesList("hub")
  PROVE  Reported'
<1>1. /\ "hub" \in Workers /\ pc \in [Workers -> PCs] /\ todo["hub"] = {}
      /\ status \in [Rules -> {None, "starting", "running", "stopped", "error"}]
  <2>1. pc["hub"] \notin StartPCs \cup LoopPCs
    BY DEF HubSkip, HubAccept, HubTake, FullAdopt, Block, CopyRules, Evict, Forget,
           UpdateRulesList, StartPCs, LoopPCs
  <2> QED
    BY <2>1, HubTypes DEF ControlOf, TypeOK
<1> SUFFICES ASSUME NEW r \in Rules
             PROVE  /\ (Restarting(r) => Registered(r) = {} /\ ~Starting(r))'
                    /\ (Starting(r) => (Registered(r) # {} <=> pc["hub"] = "mark"))'
                    /\ (~Restarting(r) /\ ~Starting(r)
                          => (status[r] = "running" <=> Registered(r) # {}))'
  BY DEF Reported
<1>2. ~Restarting(r)
  BY <1>1 DEF Restarting
<1>3. CASE HubSkip("hub")
  BY <1>3 DEF HubSkip, agent, locals, Reported, Restarting, Starting, Registered
<1>4. CASE HubAccept("hub")
  <2>1. PICK e \in Events : e = Head(events)
    BY <1>4, HeadPublished DEF HubAccept, HubTake
  <2>2. /\ pc["hub"] = "idle" /\ pc'["hub"] = FirstStep(e) /\ ev' = e /\ cur'["hub"] = e.rule
        /\ ret'["hub"] = AfterStop(e) /\ UNCHANGED <<forwarders, status, todo>>
    BY <1>1, <1>4, <2>1, HubTypes DEF HubAccept, HubTake, Goto, agent
  <2>3. FirstStep(e) = IF e.op = "full" THEN "adopt" ELSE IF e.op = "blk" THEN "block"
                       ELSE IF e.op = "add" THEN "check" ELSE "stop"
    BY EventFields DEF FirstStep
  <2>4. ~Starting(r) /\ (status[r] = "running" <=> Registered(r) # {})
    BY <1>2, <2>2 DEF Starting, StartPCs, Reported
  <2>5. Registered(r)' = Registered(r) /\ ~Restarting(r)'
    BY <1>1, <2>2 DEF Registered, Restarting
  <2>6. Starting(r)' => r = e.rule /\ e.op = "add" /\ pc'["hub"] = "check"
    BY <2>2, <2>3 DEF Starting, StartPCs
  <2>7. Starting(r)' => Registered(r) = {}
    BY <1>4, <2>2, <2>6, AddedIsNew
  <2> QED
    BY <2>2, <2>4, <2>5, <2>6, <2>7
<1>5. CASE FullAdopt("hub")
  <2> DEFINE gone    == {f \in forwarders : ev.rules[f.rule] = None}
             barred  == {f \in forwarders \ gone : Protocol[ev.rules[f.rule]] \in ev.blk}
             changed == {f \in forwarders \ (gone \cup barred) : Changed(rules, f.rule, ev.rules)}
  <2>1. /\ pc["hub"] = "adopt" /\ pc'["hub"] = "restart"
        /\ forwarders' = forwarders \ (gone \cup barred \cup changed)
        /\ status'[r] = (IF \E f \in gone : f.rule = r THEN None
                         ELSE IF \E f \in barred : f.rule = r THEN "error" ELSE status[r])
        /\ todo'["hub"] = {f.rule : f \in changed}
    BY <1>1, <1>5, HubTypes DEF FullAdopt, Drop, Goto
  <2>2. status[r] = "running" <=> Registered(r) # {}
    BY <1>2, <2>1 DEF Starting, StartPCs, Reported
  <2>3. ~Starting(r)'
    BY <2>1 DEF Starting, StartPCs
  <2>4. Restarting(r)' <=> \E f \in changed : f.rule = r
    BY <1>1, <2>1 DEF Restarting, StartPCs
  <2>5. Registered(r)' = {f \in Registered(r) : f \notin gone \cup barred \cup changed}
    BY <2>1 DEF Registered
  <2>6. CASE Registered(r) = {}
    <3>1. ~\E f \in gone \cup barred \cup changed : f.rule = r
      BY <2>6 DEF Registered
    <3> HIDE DEF gone, barred, changed
    <3> QED
      BY <2>1, <2>2, <2>3, <2>4, <2>5, <2>6, <3>1
  <2>7. CASE Registered(r) # {}
    <3>1. CASE ev.rules[r] = None
      <4>1. (\E f \in gone : f.rule = r) /\ (\A f \in Registered(r) : f \in gone)
            /\ ~\E f \in changed : f.rule = r
        BY <2>7, <3>1 DEF Registered
      <4> HIDE DEF gone, barred, changed
      <4> QED
        BY <2>1, <2>3, <2>4, <2>5, <4>1, ConstantsAssumption
    <3>2. CASE ev.rules[r] # None /\ Protocol[ev.rules[r]] \in ev.blk
      <4>1. /\ ~\E f \in gone \cup changed : f.rule = r
            /\ \E f \in barred : f.rule = r
            /\ \A f \in Registered(r) : f \in barred
        BY <2>7, <3>2 DEF Registered
      <4> HIDE DEF gone, barred, changed
      <4> QED
        BY <2>1, <2>3, <2>4, <2>5, <4>1
    <3>3. CASE ev.rules[r] # None /\ Protocol[ev.rules[r]] \notin ev.blk /\ Changed(rules, r, ev.rules)
      <4>1. /\ ~\E f \in gone \cup barred : f.rule = r
            /\ \A f \in Registered(r) : f \in changed
        BY <2>7, <3>3 DEF Registered
      <4>2. \E f \in changed : f.rule = r
        BY <2>7, <4>1 DEF Registered
      <4> HIDE DEF gone, barred, changed
      <4> QED
        BY <2>1, <2>3, <2>4, <2>5, <4>1, <4>2
    <3>4. CASE ev.rules[r] # None /\ Protocol[ev.rules[r]] \notin ev.blk /\ ~Changed(rules, r, ev.rules)
      <4>1. ~\E f \in gone \cup barred \cup changed : f.rule = r
        BY <3>4
      <4>2. \A f \in Registered(r) : f \notin gone \cup barred \cup changed
        BY <4>1 DEF Registered
      <4> HIDE DEF gone, barred, changed
      <4> QED
        BY <2>1, <2>2, <2>3, <2>4, <2>5, <2>7, <4>1, <4>2
    <3> QED
      BY <3>1, <3>2, <3>3, <3>4
  <2> QED
    BY <2>6, <2>7
<1>6. CASE Block("hub") \/ CopyRules("hub") \/ UpdateRulesList("hub")
  <2>1. /\ pc["hub"] \in {"block", "copy", "list"} /\ pc'["hub"] \in {"copy", "evict", "list", "finish"}
        /\ UNCHANGED <<forwarders, status, todo>>
    BY <1>1, <1>6 DEF Block, CopyRules, UpdateRulesList, Goto, agent
  <2> QED
    BY <1>1, <1>2, <2>1 DEF Reported, Restarting, Starting, Registered, StartPCs
<1>7. CASE Evict("hub")
  <2> DEFINE out == {f \in forwarders : /\ old["hub"][f.rule] # None
                                        /\ Protocol[old["hub"][f.rule]] \in ev.blk}
  <2>1. /\ pc["hub"] = "evict" /\ pc'["hub"] = "list" /\ UNCHANGED todo
        /\ forwarders' = forwarders \ out
        /\ status'[r] = IF \E f \in out : f.rule = r THEN "error" ELSE status[r]
    BY <1>1, <1>7 DEF Evict, Drop, Goto
  <2>2. status[r] = "running" <=> Registered(r) # {}
    BY <1>2, <2>1 DEF Starting, StartPCs, Reported
  <2>3. ~Starting(r)' /\ ~Restarting(r)'
    BY <1>1, <2>1 DEF Starting, Restarting, StartPCs
  <2>4. (\E f \in out : f.rule = r) => \A f \in Registered(r) : f \in out
    BY DEF Registered
  <2>5. (~\E f \in out : f.rule = r) => \A f \in Registered(r) : f \notin out
    BY DEF Registered
  <2>6. Registered(r)' = {f \in Registered(r) : f \notin out}
    BY <2>1 DEF Registered
  <2> HIDE DEF out
  <2> QED
    BY <2>1, <2>2, <2>3, <2>4, <2>5, <2>6
<1>8. CASE Forget("hub")
  <2>1. /\ pc["hub"] = "forget" /\ pc'["hub"] = "list" /\ UNCHANGED <<forwarders, todo>>
        /\ status' = [status EXCEPT ![cur["hub"]] = None]
    BY <1>1, <1>8 DEF Forget, Goto, SetStatus
  <2>2. ~Starting(r)' /\ ~Restarting(r)' /\ Registered(r)' = Registered(r)
    BY <1>1, <2>1 DEF Starting, Restarting, StartPCs, Registered
  <2>3. CASE r = cur["hub"]
    <3>1. Registered(r) = {} /\ status'[r] = None
      BY <1>1, <2>1, <2>3 DEF Reported, Starting
    <3> QED
      BY <2>2, <3>1, ConstantsAssumption
  <2>4. CASE r # cur["hub"]
    <3>1. status'[r] = status[r] /\ ~Starting(r)
      BY <1>1, <2>1, <2>4 DEF Starting
    <3> QED
      BY <1>2, <2>2, <3>1 DEF Reported
  <2> QED
    BY <2>3, <2>4
<1> QED
  BY <1>3, <1>4, <1>5, <1>6, <1>7, <1>8

(* the loops and the stop,                                                 *)
LEMMA LoopReported ==
  ASSUME Alone, TypeOK, Control, Flow, Reported,
         StopForwarder("hub") \/ LoopStep("hub") \/ Finish("hub")
  PROVE  Reported'
<1>1. "hub" \in Workers /\ pc \in [Workers -> PCs]
  BY HubTypes
<1> SUFFICES ASSUME NEW r \in Rules
             PROVE  /\ (Restarting(r) => Registered(r) = {} /\ ~Starting(r))'
                    /\ (Starting(r) => (Registered(r) # {} <=> pc["hub"] = "mark"))'
                    /\ (~Restarting(r) /\ ~Starting(r)
                          => (status[r] = "running" <=> Registered(r) # {}))'
  BY DEF Reported
<1>2. CASE StopForwarder("hub")
  <2>1. /\ pc["hub"] = "stop" /\ pc'["hub"] \in {"forget", "check"} /\ todo["hub"] = {}
        /\ forwarders' = forwarders \ Registered(cur["hub"]) /\ UNCHANGED <<status, cur, todo>>
    BY <1>1, <1>2, HubTypes DEF StopForwarder, Drop, Goto, Flow, AfterStop, ControlOf, StartPCs, LoopPCs
  <2>2. Registered(r)' = IF r = cur["hub"] THEN {} ELSE Registered(r)
    BY <2>1 DEF Registered
  <2>3. ~Restarting(r)' /\ ~Restarting(r) /\ ~Starting(r) /\ (Starting(r)' <=> r = cur["hub"])
    BY <2>1 DEF Restarting, Starting, StartPCs
  <2> QED
    BY <2>1, <2>2, <2>3 DEF Reported
<1>3. CASE LoopTake("hub")
  <2>1. PICK q \in todo["hub"] :
          /\ todo'["hub"] = todo["hub"] \ {q}
          /\ IF pc["hub"] = "scan" /\ Registered(q) # {}
               THEN UNCHANGED <<pc, cur, ret>>
               ELSE pc'["hub"] = "check" /\ cur'["hub"] = q /\ ret'["hub"] = pc["hub"]
    BY <1>3, HubTypes DEF LoopTake, Goto
  <2>2. pc["hub"] \in {"restart", "scan"} /\ UNCHANGED <<forwarders, status>>
    BY <1>3 DEF LoopTake, agent
  <2>3. Registered(r)' = Registered(r) /\ ~Starting(r)
    BY <2>2 DEF Registered, Starting, StartPCs
  <2>4. Restarting(r) <=> pc["hub"] = "restart" /\ r \in todo["hub"]
    BY <2>2 DEF Restarting, StartPCs
  <2>5. Restarting(r)' <=> pc["hub"] = "restart" /\ r \in todo["hub"] /\ r # q
    BY <2>1, <2>2 DEF Restarting, StartPCs
  <2>6. Starting(r)' <=> r = q /\ ~(pc["hub"] = "scan" /\ Registered(q) # {})
    BY <2>1, <2>2 DEF Starting, StartPCs
  <2>7. Starting(r)' => Registered(r) = {} /\ pc'["hub"] = "check"
    BY <2>1, <2>2, <2>4, <2>6 DEF Reported
  <2>8. /\ Restarting(r) => Registered(r) = {}
        /\ ~Restarting(r) => (status[r] = "running" <=> Registered(r) # {})
    BY <2>3 DEF Reported
  <2> QED
    BY <2>1, <2>2, <2>3, <2>4, <2>5, <2>6, <2>7, <2>8
<1>4. CASE LoopNext("hub") \/ Finish("hub")
  <2>1. /\ pc["hub"] \in {"restart", "scan", "finish"} /\ pc'["hub"] \in {"scan", "idle"}
        /\ todo["hub"] = {} \/ pc["hub"] # "restart"
        /\ UNCHANGED <<forwarders, status>>
    BY <1>1, <1>4 DEF LoopNext, Finish, Goto, agent
  <2>2. Registered(r)' = Registered(r) /\ ~Starting(r) /\ ~Restarting(r)
    BY <2>1 DEF Registered, Starting, Restarting, StartPCs
  <2>3. ~Starting(r)' /\ ~Restarting(r)'
    BY <2>1 DEF Starting, Restarting, StartPCs
  <2> QED
    BY <2>1, <2>2, <2>3 DEF Reported
<1> QED
  BY <1>2, <1>3, <1>4 DEF LoopStep

(* and of startForwarder.                                                  *)
LEMMA StartReported ==
  ASSUME Alone, TypeOK, Control, Hands, Flow, Reported, StartStep("hub")
  PROVE  Reported'
<1>1. /\ "hub" \in Workers /\ pc \in [Workers -> PCs] /\ cur["hub"] \in Rules
      /\ status \in [Rules -> {None, "starting", "running", "stopped", "error"}]
      /\ pc["hub"] \in StartPCs /\ ret["hub"] \in {"restart", "scan", "list"}
      /\ UNCHANGED <<cur, ret, todo>>
  <2>1. pc["hub"] \in StartPCs /\ UNCHANGED <<cur, ret, todo>>
    BY DEF StartStep, Check, Announce, GetOrCreateTunnel, TunnelFails, Attach, Start, StartFails,
           Cleanup, Fail, Register, Mark, StartPCs
  <2> QED
    BY <2>1, HubTypes DEF Flow, LoopPCs, TypeOK
<1> SUFFICES ASSUME NEW r \in Rules
             PROVE  /\ (Restarting(r) => Registered(r) = {} /\ ~Starting(r))'
                    /\ (Starting(r) => (Registered(r) # {} <=> pc["hub"] = "mark"))'
                    /\ (~Restarting(r) /\ ~Starting(r)
                          => (status[r] = "running" <=> Registered(r) # {}))'
  BY DEF Reported
<1>2. Starting(r) <=> r = cur["hub"]
  BY <1>1 DEF Starting
<1>3. Restarting(r) <=> r \in todo["hub"] /\ ret["hub"] = "restart"
  BY <1>1 DEF Restarting, StartPCs
<1>4. CASE Fail("hub") \/ Mark("hub")
  <2>1. /\ pc["hub"] \in {"fail", "mark"} /\ pc'["hub"] = ret["hub"] /\ UNCHANGED forwarders
        /\ status' = [status EXCEPT ![cur["hub"]] = IF pc["hub"] = "mark" THEN "running" ELSE "error"]
    BY <1>1, <1>4 DEF Fail, Mark, Goto, SetStatus
  <2>2. Registered(r)' = Registered(r) /\ ~Starting(r)' /\ (Restarting(r)' <=> Restarting(r))
    BY <1>1, <1>3, <2>1 DEF Registered, Starting, Restarting, StartPCs
  <2>3. status'[r] = IF r # cur["hub"] THEN status[r]
                     ELSE IF pc["hub"] = "mark" THEN "running" ELSE "error"
    BY <1>1, <2>1
  <2>4. /\ Restarting(r) => Registered(r) = {}
        /\ Starting(r) => (Registered(r) # {} <=> pc["hub"] = "mark")
        /\ ~Restarting(r) /\ ~Starting(r) => (status[r] = "running" <=> Registered(r) # {})
        /\ Restarting(r) => ~Starting(r)
    BY DEF Reported
  <2> QED
    BY <1>2, <2>2, <2>3, <2>4
<1>5. CASE ~(Fail("hub") \/ Mark("hub"))
  <2>1. /\ pc'["hub"] \in StartPCs /\ pc["hub"] # "mark"
        /\ pc'["hub"] = "mark" <=> Register("hub")
    BY <1>1, <1>5 DEF StartStep, Check, Announce, GetOrCreateTunnel, Build, TunnelFails, Attach,
       Start, StartFails, Cleanup, Register, Goto, StartPCs
  <2>2. (Starting(r)' <=> Starting(r)) /\ (Restarting(r)' <=> Restarting(r))
    BY <1>1, <1>2, <1>3, <2>1 DEF Starting, Restarting, StartPCs
  <2>3. r # cur["hub"] => status'[r] = status[r]
    BY <1>1, <1>5 DEF StartStep, Check, Announce, GetOrCreateTunnel, TunnelFails, Attach, Start,
       StartFails, Cleanup, Register, SetStatus, agent
  <2>4. Registered(r)' = IF Register("hub") /\ r = cur["hub"] THEN {hand["hub"]} ELSE Registered(r)
    <3>1. CASE Register("hub")
      <4>1. hand["hub"].rule = cur["hub"]
        BY <1>1, <3>1, HubTypes DEF Register, ControlOf, Hands
      <4>2. forwarders' = (forwarders \ Registered(cur["hub"])) \cup {hand["hub"]}
        BY <3>1 DEF Register
      <4> QED
        BY <3>1, <4>1, <4>2 DEF Registered
    <3>2. CASE ~Register("hub")
      <4>1. forwarders' = forwarders
        BY <1>5, <3>2 DEF StartStep, Check, Announce, GetOrCreateTunnel, TunnelFails, Attach, Start,
           StartFails, Cleanup, agent
      <4> QED
        BY <3>2, <4>1 DEF Registered
    <3> QED
      BY <3>1, <3>2
  <2> QED
    BY <1>2, <2>1, <2>2, <2>3, <2>4 DEF Reported
<1> QED
  BY <1>4, <1>5

(* Whatever hubLoop does keeps Reported.                                   *)
LEMMA HubReported ==
  ASSUME Alone, TypeOK, Control, Hands, Published, Flow, Contents, Reported, HubWorks
  PROVE  Reported'
  BY HandlerReported, LoopReported, StartReported DEF HubWorks

-----------------------------------------------------------------------------
(* Blocked protocols.                                                      *)
LEMMA HubBarred ==
  ASSUME Alone, TypeOK, Control, Published, Flow, Contents, Contents', Barred, HubWorks
  PROVE  Barred'
<1>1. "hub" \in Workers /\ pc \in [Workers -> PCs] /\ ControlOf("hub")
  BY HubTypes
<1>2. CASE HubSkip("hub")
  BY <1>2 DEF HubSkip, agent, locals, Barred
<1>3. CASE HubAccept("hub")
  <2>1. PICK e \in Events : e = Head(events)
    BY <1>3, HeadPublished DEF HubAccept, HubTake
  <2>2. pc["hub"] = "idle" /\ pc'["hub"] = FirstStep(e) /\ UNCHANGED <<forwarders, blocked, hand>>
    BY <1>1, <1>3, <2>1 DEF HubAccept, HubTake, Goto, agent
  <2>3. FirstStep(e) \in {"adopt", "block", "stop", "check"}
    BY EventFields DEF FirstStep
  <2> QED
    BY <1>1, <2>2, <2>3 DEF Barred, ControlOf
<1>4. CASE FullAdopt("hub")
  <2>1. pc["hub"] = "adopt" /\ pc'["hub"] = "restart" /\ blocked' = ev.blk /\ UNCHANGED <<hand, ev>>
    BY <1>1, <1>4 DEF FullAdopt, Goto
  <2>2. \A f \in forwarders' : Protocol[ev.rules[f.rule]] \notin ev.blk
    BY <1>4 DEF FullAdopt, Drop
  <2>3. \A f \in forwarders' : f.cfg = ev.rules[f.rule]
    BY <2>1 DEF Contents, Before
  <2> QED
    BY <1>1, <2>1, <2>2, <2>3 DEF Barred, ControlOf
<1>5. CASE Block("hub")
  <2>1. /\ pc["hub"] = "block" /\ pc'["hub"] = IF ev.blk = {} THEN "list" ELSE "copy"
        /\ blocked' = ev.blk /\ UNCHANGED <<hand, ev, forwarders>>
    BY <1>1, <1>5 DEF Block, Goto
  <2> QED
    BY <1>1, <2>1 DEF Barred, ControlOf
<1>6. CASE CopyRules("hub")
  <2>1. /\ pc["hub"] = "copy" /\ pc'["hub"] = "evict" /\ old'["hub"] = rules
        /\ UNCHANGED <<hand, ev, forwarders, rules, blocked>>
    BY <1>1, <1>6, HubTypes DEF CopyRules, Goto, agent
  <2> QED
    BY <1>1, <2>1 DEF Barred, ControlOf
<1>7. CASE Evict("hub")
  <2>1. /\ pc["hub"] = "evict" /\ pc'["hub"] = "list" /\ UNCHANGED <<hand, blocked>>
        /\ \A f \in forwarders' : /\ f \in forwarders
                                  /\ old["hub"][f.rule] = None \/ Protocol[old["hub"][f.rule]] \notin ev.blk
    BY <1>1, <1>7 DEF Evict, Drop, Goto
  <2>2. old["hub"] = rules /\ blocked = ev.blk /\ \A f \in forwarders : f.cfg = rules[f.rule]
    BY <2>1 DEF Barred, Contents, Before
  <2>3. \A f \in forwarders' : Protocol[f.cfg] \notin blocked
    BY <2>1, <2>2, ForwarderFields
  <2> QED
    BY <1>1, <2>1, <2>3 DEF Barred, ControlOf
<1>8. CASE Forget("hub") \/ UpdateRulesList("hub") \/ StopForwarder("hub") \/ LoopStep("hub")
             \/ Finish("hub")
  <2>1. /\ pc["hub"] \notin {"copy", "evict", "attach", "start", "cleanup", "register"}
        /\ pc'["hub"] \notin {"copy", "evict", "announce", "tunnel"}
        /\ forwarders' \subseteq forwarders /\ UNCHANGED <<hand, blocked>>
    BY <1>1, <1>8 DEF Forget, UpdateRulesList, StopForwarder, LoopStep, LoopTake, LoopNext, Finish,
       Drop, Goto, agent, Flow, AfterStop
  <2> QED
    BY <1>1, <2>1 DEF Barred, ControlOf
<1>9. CASE StartStep("hub")
  <2>1. /\ pc["hub"] \in StartPCs /\ pc["hub"] \notin {"copy", "evict"} /\ ret["hub"] \notin {"copy", "evict", "announce", "tunnel"}
        /\ UNCHANGED <<blocked, cur, ev>> /\ plan["hub"] = ev.rules
    BY <1>1, <1>9 DEF StartStep, Check, Announce, GetOrCreateTunnel, TunnelFails, Attach, Start,
       StartFails, Cleanup, Fail, Register, Mark, StartPCs, LoopPCs, agent, Flow
  <2>2. \A f \in forwarders : Protocol[f.cfg] \notin blocked
    BY <2>1 DEF Barred
  <2>3. CASE Check("hub")
    <3>1. /\ pc["hub"] = "check" /\ UNCHANGED <<forwarders, hand>>
          /\ pc'["hub"] = IF Protocol[plan["hub"][cur["hub"]]] \in blocked THEN "fail" ELSE "announce"
      BY <1>1, <2>3 DEF Check, Goto, agent
    <3> QED
      BY <1>1, <2>1, <2>2, <3>1 DEF Barred, ControlOf
  <2>4. CASE GetOrCreateTunnel("hub")
    <3>1. \E t : Build("hub", t)
      BY <2>4 DEF GetOrCreateTunnel
    <3>2. /\ pc["hub"] = "tunnel" /\ pc'["hub"] = "attach" /\ UNCHANGED forwarders
          /\ hand'["hub"].cfg = plan["hub"][cur["hub"]]
      BY <1>1, <2>4, <3>1, HubTypes DEF Build, GetOrCreateTunnel, Goto
    <3> QED
      BY <2>1, <2>2, <3>2 DEF Barred
  <2>5. CASE Register("hub")
    <3>1. /\ pc["hub"] = "register" /\ pc'["hub"] = "mark" /\ hand'["hub"] = None
          /\ \A f \in forwarders' : f \in forwarders \/ f = hand["hub"]
      BY <1>1, <2>5, HubTypes DEF Register, Goto
    <3> QED
      BY <1>1, <2>1, <2>2, <3>1 DEF Barred, ControlOf
  <2>6. CASE Announce("hub")
    <3>1. pc["hub"] = "announce" /\ pc'["hub"] = "tunnel" /\ UNCHANGED <<forwarders, hand>>
      BY <1>1, <2>6 DEF Announce, Goto
    <3> QED
      BY <2>1, <2>2, <3>1 DEF Barred
  <2>7. CASE ~(Check("hub") \/ GetOrCreateTunnel("hub") \/ Register("hub") \/ Announce("hub"))
    <3>1. UNCHANGED forwarders /\ (hand'["hub"] # None => hand'["hub"] = hand["hub"])
      BY <1>9, <2>7, HubTypes DEF StartStep, TunnelFails, Attach, Start, StartFails, Cleanup, Fail,
         Mark, agent
    <3>2. pc'["hub"] \notin {"copy", "evict", "announce", "tunnel"}
      BY <1>1, <1>9, <2>1, <2>7 DEF StartStep, TunnelFails, Attach, Start, StartFails, Cleanup, Fail,
         Mark, Goto
    <3> QED
      BY <2>1, <2>2, <3>1, <3>2 DEF Barred
  <2> QED
    BY <2>3, <2>4, <2>5, <2>6, <2>7
<1> QED
  BY <1>2, <1>3, <1>4, <1>5, <1>6, <1>7, <1>8, <1>9 DEF HubWorks

-----------------------------------------------------------------------------
(* The wiring.  The failed start of a chain entry stops the tunnel and     *)
(* leaves it in a.tunnels, where the next start of the rule takes it up    *)
(* again; every other kind also forgets the tunnel it stops.               *)
Forgetting == \A r \in Rules : Kind[r] # "chain"

(* The forwarders that are registered, and the one that is being started.  *)
Objects == {f \in forwarders \cup {hand["hub"]} : f # None}

(* Their tunnels are up, no two rules share one, and those of the kinds    *)
(* that reuse theirs stay up as long as a.tunnels has them.                *)
Dialled ==
  /\ \A f \in Objects : f.tun # None => /\ f.tun \in up
                                        /\ \A r \in Rules : tunnels[r] = f.tun => f.rule = r
  /\ \A f, g \in Objects : f.rule # g.rule /\ f.tun = g.tun => f.tun = None
  /\ \A r, s \in Rules : r # s /\ tunnels[r] = tunnels[s] => tunnels[r] = None
  /\ \A r \in Rules : tunnels[r] # None /\ Kind[r] \in Reuses => tunnels[r] \in up

(* What was started is registered or about to be, and the messages of its  *)
(* rule go to it.                                                          *)
Wired ==
  /\ alive = forwarders \cup {f \in {hand["hub"]} : pc["hub"] = "register"}
  /\ \A f \in forwarders : Kind[f.rule] \in Handles => handler[f.rule] = f.id
  /\ pc["hub"] \in {"start", "register"} /\ Kind[cur["hub"]] \in Handles
       => handler[cur["hub"]] = hand["hub"].id
  /\ pc["hub"] = "cleanup" => Kind[cur["hub"]] # "relay"
  /\ Dialled

(* Only forwarders and the one in hand matter.                             *)
LEMMA ObjectFields ==
  ASSUME TypeOK, Alone
  PROVE  /\ forwarders \subseteq Objects /\ Objects \subseteq Forwarder
         /\ hand["hub"] # None => hand["hub"] \in Objects
         /\ \A f \in Objects : f \in forwarders \/ (f = hand["hub"] /\ f # None)
         /\ \A f \in Objects : f.rule \in Rules /\ f.tun \in TunnelIds \cup {None}
<1>1. "hub" \in Workers /\ forwarders \subseteq Forwarder
      /\ hand \in [Workers -> Forwarder \cup {None}]
  BY DEF TypeOK, Alone
<1>2. None \notin Forwarder
  BY ConstantsAssumption
<1>3. \A f \in Forwarder : f.rule \in Rules /\ f.tun \in TunnelIds \cup {None}
  BY DEF Forwarder
<1> QED
  BY <1>1, <1>2, <1>3 DEF Objects

(* Stopping every forwarder of some rules, and a tunnel of one of them.    *)
LEMMA DropDialled ==
  ASSUME Alone, TypeOK, Dialled, hand["hub"] = None, hand' = hand,
         NEW F \in SUBSET forwarders, NEW T, Drop(F, T),
         \A f \in F, g \in forwarders : f.rule = g.rule => g \in F,
         \/ T = {} /\ tunnels' = tunnels
         \/ \E r \in Rules : /\ T = {tunnels[r]} /\ tunnels' = [tunnels EXCEPT ![r] = None]
                             /\ Registered(r) \subseteq F
  PROVE  Dialled'
<1>1. /\ tunnels \in [Rules -> TunnelIds \cup {None}] /\ None \notin TunnelIds
      /\ up \subseteq TunnelIds
  BY ConstantsAssumption DEF TypeOK
<1>2. Objects = forwarders /\ Objects' = forwarders \ F
  BY ObjectFields, ConstantsAssumption DEF Objects, Drop, TypeOK
<1>3. \A f \in forwarders : f.rule \in Rules
  BY <1>2, ObjectFields
<1>4. up' = up \ (T \cup OwnTunnels(F))
  BY DEF Drop
<1>5. \A r \in Rules : tunnels'[r] = tunnels[r] \/ tunnels'[r] = None
  BY <1>1
<1>6. ASSUME NEW f \in forwarders \ F, f.tun # None PROVE f.tun \notin T \cup OwnTunnels(F)
  <2>1. f.tun \notin OwnTunnels(F)
    <3>1. \A g \in F : g.rule # f.rule
      BY <1>6
    <3>2. \A g \in F : g.tun # f.tun
      BY <1>2, <1>6, <3>1 DEF Dialled
    <3> QED
      BY <3>2 DEF OwnTunnels
  <2>2. f.tun \notin T
    <3>1. \A r \in Rules : tunnels[r] = f.tun => f \in Registered(r)
      BY <1>2, <1>6 DEF Dialled, Registered
    <3> QED
      BY <1>6, <3>1
  <2> QED
    BY <2>1, <2>2
<1>7. ASSUME NEW r \in Rules, tunnels'[r] # None, Kind[r] \in Reuses
      PROVE  tunnels'[r] \in up'
  <2>1. tunnels'[r] = tunnels[r] /\ tunnels[r] \in up
    BY <1>5, <1>7 DEF Dialled
  <2>2. tunnels[r] \notin T
    BY <1>1, <1>7, <2>1 DEF Dialled
  <2>3. tunnels[r] \notin OwnTunnels(F)
    <3>1. \A g \in F : g.tun = tunnels[r] => g.rule = r
      BY <1>2, <1>7, <2>1 DEF Dialled
    <3>2. Kind[r] \notin Owns
      BY <1>7 DEF Reuses, Owns
    <3> QED
      BY <3>1, <3>2 DEF OwnTunnels
  <2> QED
    BY <1>4, <2>1, <2>2, <2>3
<1>8. \A f \in Objects' : f.tun # None => /\ f.tun \in up'
                                          /\ \A r \in Rules : tunnels'[r] = f.tun => f.rule = r
  BY <1>2, <1>4, <1>5, <1>6 DEF Dialled
<1>9. \A f, g \in Objects' : f.rule # g.rule /\ f.tun = g.tun => f.tun = None
  BY <1>2 DEF Dialled
<1>10. \A r, s \in Rules : r # s /\ tunnels'[r] = tunnels'[s] => tunnels'[r] = None
  BY <1>5 DEF Dialled
<1> QED
  BY <1>7, <1>8, <1>9, <1>10 DEF Dialled

(* Dialling, or taking up the tunnel there is.                             *)
LEMMA BuildDialled ==
  ASSUME Alone, TypeOK, Control, Flow, Reported, Dialled, GetOrCreateTunnel("hub")
  PROVE  Dialled'
<1>1. /\ tunnels \in [Rules -> TunnelIds \cup {None}] /\ None \notin TunnelIds
      /\ cur["hub"] \in Rules /\ hand["hub"] = None /\ UNCHANGED forwarders
  BY ConstantsAssumption, HubTypes DEF TypeOK, GetOrCreateTunnel, Flow, StartPCs, ControlOf
<1>2. Registered(cur["hub"]) = {}
  BY <1>1 DEF GetOrCreateTunnel, Reported, Starting, StartPCs
<1>3. \A f \in forwarders : f.rule \in Rules /\ f.rule # cur["hub"] /\ f \in Objects
  BY <1>2, ObjectFields DEF Registered
<1>4. ASSUME NEW t \in TunnelIds \cup {None}, Build("hub", t)
      PROVE  \A f \in Objects' : f \in forwarders \/ (f.rule = cur["hub"] /\ f.tun = t)
  <2>1. PICK i \in FreeIds : hand'["hub"] =
          [id |-> i, rule |-> cur["hub"], cfg |-> plan["hub"][cur["hub"]], tun |-> t]
    BY <1>4, HubTypes DEF Build
  <2>2. hand'["hub"].rule = cur["hub"] /\ hand'["hub"].tun = t
    BY <2>1
  <2> QED
    BY <1>1, <2>2 DEF Objects
<1>5. CASE Build("hub", None) /\ UNCHANGED <<tunnels, up>>
  <2>1. \A f \in Objects' : f.tun # None => f \in Objects
    BY <1>3, <1>4, <1>5
  <2> QED
    BY <1>5, <2>1 DEF Dialled
<1>6. CASE /\ kind("hub") \in Reuses /\ tunnels[cur["hub"]] # None
           /\ Build("hub", tunnels[cur["hub"]]) /\ UNCHANGED <<tunnels, up>>
  <2> DEFINE t == tunnels[cur["hub"]]
  <2>1. t \in TunnelIds /\ t \in up /\ \A r \in Rules : tunnels[r] = t => r = cur["hub"]
    BY <1>1, <1>6 DEF Dialled, kind
  <2>2. \A f \in Objects' : f \in forwarders \/ (f.rule = cur["hub"] /\ f.tun = t)
    BY <1>4, <1>6, <2>1
  <2>3. \A f \in forwarders : f.tun # t
    BY <1>1, <1>3, <1>6 DEF Dialled
  <2> HIDE DEF t
  <2>4. \A f \in Objects' : f.tun # None => /\ f.tun \in up
                                            /\ \A r \in Rules : tunnels[r] = f.tun => f.rule = r
    BY <1>3, <2>1, <2>2 DEF Dialled
  <2>5. \A f, g \in Objects' : f.rule # g.rule /\ f.tun = g.tun => f.tun = None
    BY <1>3, <2>2, <2>3 DEF Dialled
  <2> QED
    BY <1>6, <2>4, <2>5 DEF Dialled
<1>7. CASE \E t \in FreeTunnels :
             /\ Build("hub", t)
             /\ up' = up \cup {t}
             /\ tunnels' = IF kind("hub") \in Reuses THEN [tunnels EXCEPT ![cur["hub"]] = t]
                           ELSE tunnels
  <2>1. PICK t \in FreeTunnels :
             /\ Build("hub", t)
             /\ up' = up \cup {t}
             /\ tunnels' = IF kind("hub") \in Reuses THEN [tunnels EXCEPT ![cur["hub"]] = t]
                           ELSE tunnels
    BY <1>7
  <2>2. /\ t \in TunnelIds /\ t # None /\ \A r \in Rules : tunnels[r] # t
        /\ \A f \in forwarders : f.tun # t
    BY <1>1 DEF FreeTunnels, InUse
  <2>3. \A f \in Objects' : f \in forwarders \/ (f.rule = cur["hub"] /\ f.tun = t)
    BY <1>4, <2>1, <2>2
  <2>4. \A r \in Rules : \/ tunnels'[r] = tunnels[r]
                         \/ r = cur["hub"] /\ tunnels'[r] = t
    BY <1>1, <2>1
  <2>5. \A f \in Objects' : f.tun # None => /\ f.tun \in up'
                                            /\ \A r \in Rules : tunnels'[r] = f.tun => f.rule = r
    BY <1>3, <2>1, <2>2, <2>3, <2>4 DEF Dialled
  <2>6. \A f, g \in Objects' : f.rule # g.rule /\ f.tun = g.tun => f.tun = None
    BY <1>3, <2>2, <2>3 DEF Dialled
  <2>7. \A r, s \in Rules : r # s /\ tunnels'[r] = tunnels'[s] => tunnels'[r] = None
    BY <2>2, <2>4 DEF Dialled
  <2>8. \A r \in Rules : tunnels'[r] # None /\ Kind[r] \in Reuses => tunnels'[r] \in up'
    BY <2>1, <2>4 DEF Dialled
  <2> QED
    BY <2>5, <2>6, <2>7, <2>8 DEF Dialled
<1> QED
  BY <1>5, <1>6, <1>7 DEF GetOrCreateTunnel

(* While a forwarder is in hand, its rule has no other.                    *)
LEMMA InHand ==
  ASSUME Alone, TypeOK, Control, Hands, Flow, Reported, hand["hub"] # None
  PROVE  /\ cur["hub"] \in Rules /\ hand["hub"].rule = cur["hub"] /\ hand["hub"] \in Objects
         /\ Registered(cur["hub"]) = {} /\ \A f \in forwarders : f.rule # cur["hub"]
<1>1. pc["hub"] \in StartPCs /\ pc["hub"] # "mark" /\ cur["hub"] \in Rules
  BY HubTypes DEF ControlOf, StartPCs, Flow
<1>2. Registered(cur["hub"]) = {}
  BY <1>1 DEF Reported, Starting
<1> QED
  BY <1>1, <1>2, ObjectFields DEF Hands, Alone, Registered

(* Load balancing stores its tunnel when it attaches.                      *)
LEMMA AttachDialled ==
  ASSUME Alone, TypeOK, Control, Hands, Flow, Reported, Dialled, Attach("hub")
  PROVE  Dialled'
<1>1. /\ hand["hub"] # None /\ UNCHANGED <<forwarders, hand, up>>
      /\ tunnels \in [Rules -> TunnelIds \cup {None}]
      /\ tunnels' = IF kind("hub") = "multi" THEN [tunnels EXCEPT ![cur["hub"]] = hand["hub"].tun]
                    ELSE tunnels
  BY HubTypes DEF Attach, ControlOf, TypeOK
<1>2. Objects' = Objects
  BY <1>1 DEF Objects
<1>3. CASE tunnels' = tunnels
  BY <1>1, <1>2, <1>3 DEF Dialled
<1>4. CASE Kind[cur["hub"]] = "multi"
  <2>1. \A r \in Rules : tunnels'[r] = IF r = cur["hub"] THEN hand["hub"].tun ELSE tunnels[r]
    BY <1>1, <1>4 DEF kind
  <2>2. cur["hub"] \in Rules /\ hand["hub"].rule = cur["hub"] /\ hand["hub"] \in Objects
    BY <1>1, InHand
  <2>3. \A f \in Objects, r \in Rules : tunnels'[r] = f.tun /\ f.tun # None => f.rule = r
    BY <2>1, <2>2 DEF Dialled
  <2>4. \A r, s \in Rules : r # s /\ tunnels'[r] = tunnels'[s] => tunnels'[r] = None
    BY <2>1, <2>2 DEF Dialled
  <2>5. \A r \in Rules : tunnels'[r] # None /\ Kind[r] \in Reuses => tunnels'[r] \in up
    BY <1>4, <2>1 DEF Dialled, Reuses
  <2> QED
    BY <1>1, <1>2, <2>3, <2>4, <2>5 DEF Dialled
<1> QED
  BY <1>1, <1>3, <1>4 DEF kind

(* A failed start takes nobody else's tunnel away.                         *)
LEMMA CleanupDialled ==
  ASSUME Alone, Forgetting, TypeOK, Control, Hands, Flow, Reported, Wired, Cleanup("hub")
  PROVE  Dialled'
<1> DEFINE forget == Kind[cur["hub"]] \in {"entry", "multi"}
           x == IF forget THEN tunnels[cur["hub"]] ELSE hand["hub"].tun
<1>1. /\ hand["hub"] # None /\ UNCHANGED forwarders /\ hand'["hub"] = None
      /\ tunnels \in [Rules -> TunnelIds \cup {None}]
      /\ up' = up \ {x}
      /\ tunnels' = IF forget THEN [tunnels EXCEPT ![cur["hub"]] = None] ELSE tunnels
      /\ Kind[cur["hub"]] # "relay" /\ Dialled
  BY HubTypes DEF Cleanup, ControlOf, TypeOK, kind, Wired
<1>2. /\ cur["hub"] \in Rules /\ hand["hub"].rule = cur["hub"] /\ hand["hub"] \in Objects
      /\ \A f \in forwarders : f.rule # cur["hub"]
  BY <1>1, InHand
<1>3. Objects' = forwarders /\ forwarders \subseteq Objects
  BY <1>1, ObjectFields, ConstantsAssumption DEF Objects, TypeOK
<1>4. \A f \in forwarders : f.tun # None => f.tun # x
  BY <1>1, <1>2, <1>3 DEF Dialled
<1>5. \A r \in Rules : \/ tunnels'[r] = tunnels[r] /\ (forget => r # cur["hub"])
                       \/ tunnels'[r] = None
  BY <1>1
<1>6. ASSUME NEW r \in Rules, tunnels'[r] # None, Kind[r] \in Reuses
      PROVE  tunnels'[r] \in up'
  <2>1. tunnels'[r] = tunnels[r] /\ tunnels[r] \in up /\ (forget => r # cur["hub"])
    BY <1>1, <1>5, <1>6 DEF Dialled
  <2>2. tunnels[r] # x
    <3>1. CASE forget
      BY <1>1, <1>2, <1>6, <2>1, <3>1 DEF Dialled
    <3>2. CASE ~forget
      <4>1. Kind[cur["hub"]] \notin Reuses
        BY <1>1, <1>2, <3>2 DEF Forgetting, Reuses
      <4>2. tunnels[r] = hand["hub"].tun => r = cur["hub"]
        BY <1>1, <1>2, <1>6, <2>1 DEF Dialled
      <4> QED
        BY <1>6, <3>2, <4>1, <4>2
    <3> QED
      BY <3>1, <3>2
  <2> QED
    BY <1>1, <2>1, <2>2
<1> HIDE DEF x, forget
<1>7. \A f \in Objects' : f.tun # None => /\ f.tun \in up'
                                          /\ \A r \in Rules : tunnels'[r] = f.tun => f.rule = r
  BY <1>1, <1>3, <1>4, <1>5 DEF Dialled
<1>8. \A f, g \in Objects' : f.rule # g.rule /\ f.tun = g.tun => f.tun = None
  BY <1>1, <1>3 DEF Dialled
<1>9. \A r, s \in Rules : r # s /\ tunnels'[r] = tunnels'[s] => tunnels'[r] = None
  BY <1>1, <1>5 DEF Dialled
<1> QED
  BY <1>6, <1>7, <1>8, <1>9 DEF Dialled

(* The steps of handleConfigSync and of the loops: what is stopped is      *)
(* stopped everywhere.                                                     *)
LEMMA HandlerWired ==
  ASSUME Alone, TypeOK, Control, Published, Flow, Wired, HubWorks, ~StartStep("hub")
  PROVE  Wired'
<1>1. /\ "hub" \in Workers /\ pc \in [Workers -> PCs] /\ hand["hub"] = None /\ UNCHANGED <<hand, handler>>
      /\ pc["hub"] \notin {"attach", "start", "cleanup", "register"}
      /\ pc'["hub"] \notin {"attach", "start", "cleanup", "register"}
  <2>1. /\ "hub" \in Workers /\ pc \in [Workers -> PCs] /\ ControlOf("hub") /\ UNCHANGED <<hand, handler>>
        /\ pc["hub"] \notin {"attach", "start", "cleanup", "register"}
    BY HubTypes DEF HubWorks, HubSkip, HubAccept, HubTake, FullAdopt, Block, CopyRules, Evict, Forget,
       UpdateRulesList, StopForwarder, LoopStep, LoopTake, LoopNext, Finish, agent, locals
  <2>2. CASE HubAccept("hub")
    <3>1. pc'["hub"] = FirstStep(Head(events)) /\ Head(events).op \in {"full", "add", "upd", "del", "blk"}
      BY <2>1, <2>2, HeadTail, EventFields DEF HubAccept, HubTake, Goto, TypeOK
    <3> QED
      BY <2>1, <3>1 DEF FirstStep, ControlOf
  <2>3. CASE ~HubAccept("hub")
    <3>1. pc'["hub"] \notin {"attach", "start", "cleanup", "register"}
      BY <2>1, <2>3 DEF HubWorks, HubSkip, HubTake, FullAdopt, Block, CopyRules, Evict, Forget,
        UpdateRulesList, StopForwarder, LoopStep, LoopTake, LoopNext, Finish, Goto, locals,
        ControlOf
    <3> QED
      BY <2>1, <3>1 DEF ControlOf
  <2> QED
    BY <2>2, <2>3
<1>2. alive = forwarders /\ Dialled
      /\ \A f \in forwarders : Kind[f.rule] \in Handles => handler[f.rule] = f.id
  BY <1>1 DEF Wired
<1>3. CASE FullAdopt("hub")
  <2> DEFINE gone    == {f \in forwarders : ev.rules[f.rule] = None}
             barred  == {f \in forwarders \ gone : Protocol[ev.rules[f.rule]] \in ev.blk}
             changed == {f \in forwarders \ (gone \cup barred) : Changed(rules, f.rule, ev.rules)}
             F == gone \cup barred \cup changed
  <2>1. Drop(F, {}) /\ UNCHANGED tunnels
    BY <1>3 DEF FullAdopt
  <2>2. \A f \in F, g \in forwarders : f.rule = g.rule => g \in F
    OBVIOUS
  <2>3. F \in SUBSET forwarders
    OBVIOUS
  <2> HIDE DEF F
  <2>4. Dialled'
    BY <1>1, <1>2, <2>1, <2>2, <2>3, DropDialled
  <2>5. forwarders' = forwarders \ F /\ alive' = alive \ F
    BY <2>1 DEF Drop
  <2> QED
    BY <1>1, <1>2, <2>4, <2>5 DEF Wired
<1>4. CASE Evict("hub")
  <2> DEFINE F == {f \in forwarders : /\ old["hub"][f.rule] # None
                                      /\ Protocol[old["hub"][f.rule]] \in ev.blk}
  <2>1. Drop(F, {}) /\ UNCHANGED tunnels
    BY <1>4 DEF Evict
  <2>2. \A f \in F, g \in forwarders : f.rule = g.rule => g \in F
    OBVIOUS
  <2>3. F \in SUBSET forwarders
    OBVIOUS
  <2> HIDE DEF F
  <2>4. Dialled'
    BY <1>1, <1>2, <2>1, <2>2, <2>3, DropDialled
  <2>5. forwarders' = forwarders \ F /\ alive' = alive \ F
    BY <2>1 DEF Drop
  <2> QED
    BY <1>1, <1>2, <2>4, <2>5 DEF Wired
<1>5. CASE StopForwarder("hub")
  <2> DEFINE F == Registered(cur["hub"])
             T == {tunnels[cur["hub"]]}
  <2>1. Drop(F, T) /\ tunnels' = [tunnels EXCEPT ![cur["hub"]] = None]
    BY <1>5 DEF StopForwarder
  <2>2. \A f \in F, g \in forwarders : f.rule = g.rule => g \in F
    BY DEF Registered
  <2>3. F \in SUBSET forwarders
    BY DEF Registered
  <2>4. cur["hub"] \in Rules
    <3>1. pc["hub"] = "stop"
      BY <1>5 DEF StopForwarder
    <3> QED
      BY <3>1 DEF Flow, Published, Records
  <2>6. \E r \in Rules : /\ T = {tunnels[r]} /\ tunnels' = [tunnels EXCEPT ![r] = None]
                         /\ Registered(r) \subseteq F
    BY <2>1, <2>4
  <2> HIDE DEF F, T
  <2>7. Dialled'
    BY <1>1, <1>2, <2>1, <2>2, <2>3, <2>6, DropDialled
  <2>5. forwarders' = forwarders \ F /\ alive' = alive \ F
    BY <2>1 DEF Drop
  <2> QED
    BY <1>1, <1>2, <2>5, <2>7 DEF Wired
<1>6. CASE ~(FullAdopt("hub") \/ Evict("hub") \/ StopForwarder("hub"))
  <2>1. UNCHANGED <<forwarders, alive, up, tunnels>>
    BY <1>6 DEF HubWorks, HubSkip, HubAccept, Block, CopyRules, Forget, UpdateRulesList, LoopStep,
      LoopTake, LoopNext, Finish, agent
  <2>2. Dialled'
    BY <1>1, <1>2, <2>1 DEF Dialled, Objects
  <2> QED
    BY <1>1, <1>2, <2>1, <2>2 DEF Wired
<1> QED
  BY <1>3, <1>4, <1>5, <1>6

(* The steps of startForwarder.                                            *)
LEMMA StartWired ==
  ASSUME Alone, Forgetting, TypeOK, Control, Hands, Flow, Reported, Wired, StartStep("hub")
  PROVE  Wired'
<1>1. /\ "hub" \in Workers /\ pc \in [Workers -> PCs] /\ ControlOf("hub")
      /\ handler \in [Rules -> ForwarderIds \cup {None}]
      /\ pc["hub"] \in StartPCs /\ UNCHANGED cur
      /\ ret["hub"] \notin {"attach", "start", "cleanup", "register"}
  <2>1. pc["hub"] \in StartPCs /\ UNCHANGED cur
    BY DEF StartStep, Check, Announce, GetOrCreateTunnel, TunnelFails, Attach, Start, StartFails,
           Cleanup, Fail, Register, Mark, StartPCs
  <2> QED
    BY <2>1, HubTypes DEF TypeOK, ControlOf, LoopPCs
<1>2. \A f \in forwarders : Kind[f.rule] \in Handles => handler[f.rule] = f.id
  BY DEF Wired
<1>3. CASE Check("hub") \/ Announce("hub") \/ TunnelFails("hub") \/ Fail("hub") \/ Mark("hub")
  <2>1. /\ UNCHANGED <<forwarders, hand, handler, alive, up, tunnels>>
        /\ pc["hub"] \notin {"attach", "start", "cleanup", "register"}
        /\ pc'["hub"] \notin {"attach", "start", "cleanup", "register"}
    BY <1>1, <1>3 DEF Check, Announce, TunnelFails, Fail, Mark, Goto, agent
  <2>2. Dialled'
    BY <2>1 DEF Wired, Dialled, Objects
  <2> QED
    BY <2>1, <2>2 DEF Wired
<1>4. CASE GetOrCreateTunnel("hub")
  <2>1. pc["hub"] = "tunnel" /\ pc'["hub"] = "attach" /\ UNCHANGED <<forwarders, handler, alive>>
    BY <1>1, <1>4 DEF GetOrCreateTunnel, Build, Goto
  <2>2. Dialled'
    BY <1>4, BuildDialled DEF Wired
  <2> QED
    BY <2>1, <2>2 DEF Wired
<1>5. CASE Attach("hub")
  <2>1. /\ pc["hub"] = "attach" /\ pc'["hub"] = "start" /\ UNCHANGED <<forwarders, hand, alive>>
        /\ handler' = IF kind("hub") \in Handles THEN [handler EXCEPT ![cur["hub"]] = hand["hub"].id]
                      ELSE handler
    BY <1>1, <1>5 DEF Attach, Goto
  <2>2. cur["hub"] \in Rules /\ \A f \in forwarders : f.rule # cur["hub"] /\ f.rule \in Rules
    BY <1>1, <2>1, InHand, ForwarderFields DEF ControlOf
  <2>3. Dialled'
    BY <1>5, AttachDialled DEF Wired
  <2>4. alive = forwarders
    BY <2>1 DEF Wired
  <2>5. \A f \in forwarders : handler'[f.rule] = handler[f.rule]
    BY <1>1, <2>1, <2>2
  <2>6. Kind[cur["hub"]] \in Handles => handler'[cur["hub"]] = hand["hub"].id
    BY <1>1, <2>1, <2>2 DEF kind
  <2> QED
    BY <1>1, <1>2, <2>1, <2>3, <2>4, <2>5, <2>6 DEF Wired
<1>6. CASE Start("hub")
  <2>1. /\ pc["hub"] = "start" /\ pc'["hub"] = "register"
        /\ UNCHANGED <<forwarders, hand, handler, up, tunnels>> /\ alive' = alive \cup {hand["hub"]}
    BY <1>1, <1>6 DEF Start, Goto
  <2>2. Dialled'
    BY <2>1 DEF Wired, Dialled, Objects
  <2>3. alive = forwarders
    BY <2>1 DEF Wired
  <2> QED
    BY <1>1, <2>1, <2>2, <2>3 DEF Wired
<1>7. CASE StartFails("hub")
  <2>1. /\ pc["hub"] = "start" /\ pc'["hub"] = "cleanup" /\ Kind[cur["hub"]] # "relay"
        /\ UNCHANGED <<forwarders, hand, handler, alive, up, tunnels>>
    BY <1>1, <1>7 DEF StartFails, Goto, kind, agent
  <2>2. Dialled'
    BY <2>1 DEF Wired, Dialled, Objects
  <2> QED
    BY <1>1, <2>1, <2>2 DEF Wired
<1>8. CASE Cleanup("hub")
  <2>1. /\ pc["hub"] = "cleanup" /\ pc'["hub"] = "fail" /\ UNCHANGED <<forwarders, alive>>
        /\ handler' = IF kind("hub") = "exit" THEN [handler EXCEPT ![cur["hub"]] = None] ELSE handler
    BY <1>1, <1>8 DEF Cleanup, Goto
  <2>2. cur["hub"] \in Rules /\ \A f \in forwarders : f.rule # cur["hub"] /\ f.rule \in Rules
    BY <1>1, <2>1, InHand, ForwarderFields DEF ControlOf
  <2>3. Dialled'
    BY <1>8, CleanupDialled
  <2>4. \A f \in forwarders : handler'[f.rule] = handler[f.rule]
    BY <1>1, <2>1, <2>2
  <2> QED
    BY <1>2, <2>1, <2>3, <2>4 DEF Wired
<1>9. CASE Register("hub")
  <2>1. /\ pc["hub"] = "register" /\ pc'["hub"] = "mark" /\ hand'["hub"] = None
        /\ forwarders' = (forwarders \ Registered(cur["hub"])) \cup {hand["hub"]}
        /\ UNCHANGED <<handler, alive, up, tunnels>>
    BY <1>1, <1>9, HubTypes DEF Register, Goto
  <2>2. hand["hub"] # None /\ hand["hub"].rule = cur["hub"] /\ Registered(cur["hub"]) = {}
    BY <1>1, <2>1, InHand DEF ControlOf
  <2>3. forwarders' = forwarders \cup {hand["hub"]} /\ alive = forwarders'
    BY <2>1, <2>2 DEF Wired
  <2>4. Objects' \subseteq Objects
    BY <2>1, <2>2, <2>3 DEF Objects
  <2>5. Dialled'
    BY <2>1, <2>4 DEF Wired, Dialled
  <2>6. \A f \in forwarders' : Kind[f.rule] \in Handles => handler[f.rule] = f.id
    BY <1>2, <2>1, <2>2, <2>3 DEF Wired
  <2> QED
    BY <1>1, <2>1, <2>3, <2>5, <2>6 DEF Wired
<1> QED
  BY <1>3, <1>4, <1>5, <1>6, <1>7, <1>8, <1>9 DEF StartStep

(* Whatever hubLoop does keeps Wired.                                      *)
LEMMA HubWired ==
  ASSUME Alone, Forgetting, TypeOK, Control, Hands, Published, Flow, Reported, Wired, HubWorks
  PROVE  Wired'
  BY HandlerWired, StartWired

-----------------------------------------------------------------------------
(* Together they are an inductive invariant.                               *)
Attuned == Published /\ Flow /\ Contents /\ Reported /\ Barred

(* They hold when the agent starts,                                        *)
LEMMA InitAttuned == ASSUME Alone, Init PROVE Attuned /\ Wired
<1> USE DEF Init
<1>1. "hub" \in Workers /\ pc["hub"] = "idle" /\ hand["hub"] = None /\ todo["hub"] = {}
      /\ forwarders = {} /\ events = <<>>
  BY DEF Alone
<1>2. Published
  <2>1. Len(events) = 0 /\ srvVer = 0 /\ configVersion = 0 /\ srv = history[srvVer]
    BY ConstantsAssumption
  <2>2. \A u \in 0 + 1..0 : FALSE
    OBVIOUS
  <2>3. Awaits(Reached, 0)
    BY <1>1, <2>1, <2>2 DEF Awaits, Reached
  <2> QED
    BY <1>1, <2>1, <2>3 DEF Published
<1>3. Flow /\ Contents
  BY <1>1, ConstantsAssumption DEF Flow, StartPCs, Contents, Merged
<1>4. Reported
  BY <1>1, ConstantsAssumption DEF Reported, Restarting, Starting, StartPCs, Registered
<1>5. Barred
  BY <1>1 DEF Barred
<1>6. Objects = {}
  BY <1>1 DEF Objects
<1>7. Wired
  BY <1>1, <1>6 DEF Wired, Dialled
<1> QED
  BY <1>2, <1>3, <1>4, <1>5, <1>7 DEF Attuned

(* every step keeps them,                                                  *)
LEMMA NextAttuned ==
  ASSUME Alone, TypeOK, TypeOK', Control, Hands, Attuned, [Next]_vars
  PROVE  Attuned' /\ (Forgetting /\ Wired => Wired')
<1>1. CASE Server
  <2>1. UNCHANGED <<agent, locals>>
    BY <1>1 DEF Server, AddRule, UpdateRule, RemoveRule, BlockProtocols, SendFullSync, Edit
  <2>2. Published'
    BY <1>1, ServerPublished DEF Attuned
  <2>3. Flow' /\ Reported' /\ Barred'
    BY <2>1 DEF Attuned, agent, locals, Flow, Reported, Restarting, Starting, Registered, Barred
  <2>4. history'[configVersion] = history[configVersion]
    <3>1. CASE SendFullSync
      BY <3>1 DEF SendFullSync, srvVars
    <3>2. CASE ~SendFullSync
      <4>1. srvVer < MaxVersion /\ \E S : history' = [history EXCEPT ![srvVer + 1] = S]
        BY <1>1, <3>2 DEF Server, AddRule, UpdateRule, RemoveRule, BlockProtocols, Edit
      <4>2. configVersion \in 0..MaxVersion /\ srvVer \in Nat /\ configVersion <= srvVer
            /\ history \in [0..MaxVersion -> RuleSets]
        BY ConstantsAssumption DEF TypeOK, Attuned, Published
      <4> QED
        BY <4>1, <4>2
    <3> QED
      BY <3>1, <3>2
  <2>5. Contents'
    BY <2>1, <2>4 DEF Attuned, agent, locals, Contents, Merged
  <2>6. Wired => Wired'
    BY <2>1 DEF agent, locals, Wired, Dialled, Objects
  <2> QED
    BY <2>2, <2>3, <2>5, <2>6 DEF Attuned
<1>2. CASE HubWorks
  BY <1>2, HubPublished, HubFlow, HubContents, HubReported, HubBarred, HubWired DEF Attuned
<1>3. CASE UNCHANGED vars
  <2>1. UNCHANGED <<srv, srvVer, history, events, agent, locals>>
    BY <1>3 DEF vars, srvVars
  <2>2. Published' /\ Flow' /\ Contents'
    BY <2>1 DEF Attuned, agent, locals, Published, Records, Awaits, EditAt, Reached, Flow,
       Contents, Merged
  <2>3. Reported' /\ Barred' /\ (Wired => Wired')
    BY <2>1 DEF Attuned, agent, locals, Reported, Restarting, Starting, Registered, Barred, Wired,
       Dialled, Objects
  <2> QED
    BY <2>2, <2>3 DEF Attuned
<1> QED
  BY <1>1, <1>2, <1>3, AloneStep DEF Attuned

(* so they hold in every state;                                            *)
LEMMA AttunedHolds ==
  ASSUME Alone PROVE Spec => [](TypeOK /\ Control /\ Hands /\ Attuned)
<1>1. Init => Attuned
  BY InitAttuned
<1>2. TypeOK /\ TypeOK' /\ Control /\ Hands /\ Attuned /\ [Next]_vars => Attuned'
  BY NextAttuned
<1> QED
  BY <1>1, <1>2, LocalsCorrect, HandsCorrect, PTL DEF Spec

(* Wired too, if every tunnel that is stopped is forgotten.                *)
LEMMA WiredHolds ==
  ASSUME Alone, Forgetting PROVE Spec => []Wired
<1>1. Init => Wired
  BY InitAttuned
<1>2. TypeOK /\ TypeOK' /\ Control /\ Hands /\ Attuned /\ Wired /\ [Next]_vars => Wired'
  BY NextAttuned
<1> QED
  BY <1>1, <1>2, AttunedHolds, PTL DEF Spec

(* While hubLoop is the only goroutine that starts and stops forwarders,   *)
(* and no event is lost, the agent between two events is exactly at one    *)
(* version of the server's rules: its list is that version's, and every    *)
(* forwarder runs the content the version gives its rule, however many     *)
(* edits and full synchronisations overtake each other.                    *)
THEOREM AtItsVersion == ASSUME Alone PROVE Spec => []AgentAtItsVersion
<1>1. Attuned => AgentAtItsVersion
  <2> SUFFICES ASSUME Attuned, Quiet PROVE AgentAtItsVersion
    BY DEF AgentAtItsVersion
  <2>1. pc["hub"] = "idle"
    BY DEF Quiet, Alone
  <2> QED
    BY <2>1 DEF Attuned, Contents, Merged, Before, StartPCs, AgentAtItsVersion
<1> QED
  BY <1>1, AttunedHolds, PTL

(* Under the same conditions the status the agent reports is true between  *)
(* two events: "running" for the rules that have a forwarder and no other, *)
(* whichever starts failed, were refused or were cut short.                *)
THEOREM StatusIsTruthful == ASSUME Alone PROVE Spec => []StatusTruthful
<1>1. TypeOK /\ Control /\ Attuned => StatusTruthful
  <2> SUFFICES ASSUME TypeOK, Control, Attuned, Quiet PROVE StatusTruthful
    BY DEF StatusTruthful
  <2>1. pc["hub"] = "idle"
    BY DEF Quiet, Alone
  <2>2. \A r \in Rules : ~Restarting(r) /\ ~Starting(r)
    BY <2>1 DEF Restarting, Starting, StartPCs
  <2> QED
    BY <2>2 DEF Attuned, Reported, StatusTruthful
<1> QED
  BY <1>1, AttunedHolds, PTL

(* and nothing of a protocol on the block list is running, although the    *)
(* list is installed, the rules are copied and the forwarders are evicted  *)
(* under three different locks.                                            *)
THEOREM BlockedIsStopped == ASSUME Alone PROVE Spec => []BlockedNotRunning
<1>1. Attuned => BlockedNotRunning
  <2> SUFFICES ASSUME Attuned, Quiet PROVE BlockedNotRunning
    BY DEF BlockedNotRunning
  <2>1. pc["hub"] = "idle"
    BY DEF Quiet, Alone
  <2> QED
    BY <2>1 DEF Attuned, Barred, BlockedNotRunning
<1> QED
  BY <1>1, AttunedHolds, PTL

(* And, for every kind of rule but the chain entry, what runs between two  *)
(* events is registered, gets the messages of its rule and has a tunnel    *)
(* that is up: no failed start and no stop takes a tunnel from another     *)
(* rule, and none leaves a stopped tunnel for the next start to take up.   *)
THEOREM RegisteredAreWired ==
  ASSUME Alone, Forgetting PROVE Spec => []RegisteredIsWired
<1>1. TypeOK /\ Wired => RegisteredIsWired
  <2> SUFFICES ASSUME TypeOK, Wired, Quiet PROVE RegisteredIsWired
    BY DEF RegisteredIsWired
  <2>1. pc["hub"] = "idle"
    BY DEF Quiet, Alone
  <2>2. forwarders \subseteq Objects
    BY ObjectFields
  <2> QED
    BY <2>1, <2>2 DEF Wired, Dialled, RegisteredIsWired
<1> QED
  BY <1>1, WiredHolds, AttunedHolds, PTL
=============================================================================
