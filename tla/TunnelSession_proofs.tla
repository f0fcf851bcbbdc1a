------------------------- MODULE TunnelSession_proofs -------------------------
(***************************************************************************)
(* Proofs about TunnelSession, for any connections, tunnels, forwarders,   *)
(* capacity, reads and faults.                                             *)
(***************************************************************************)
EXTENDS TunnelSession, SequenceTheorems, TLAPS

-----------------------------------------------------------------------------
(* Types.  The ends and the wires get lemmas of their own, by the          *)
(* operations that change them.                                            *)
EndOf(s) == {c \in Ends : Len(c.queue) <= Capacity /\ c.read <= MaxReads[s]}

EndsTyped == end \in [Sides -> [Conns -> Ends]] /\ \A s \in Sides, k \in Conns : end[s][k] \in EndOf(s)

Wires == [Sides -> [Tunnels -> Seq(Messages)]]

NetTyped == link \in [Tunnels -> {"new", "up", "lost"}] /\ tunnel \in Tunnels \cup {None}

SetupTyped ==
  /\ server \in [Tunnels -> {"off", "choose", "register", "recheck", "adopt", "sender", "read", "gone"}]
  /\ captured \in [Tunnels -> Exits \cup {None}] /\ current \in [Tunnels -> Exits \cup {None}]
  /\ overtaken \subseteq Tunnels

SwapTyped ==
  /\ handler \in Exits \cup {None}
  /\ exits \in [Exits -> {"new", "published", "notified", "added", "running", "stopping", "stopped"}]
  /\ sender \in [Exits -> Tunnels \cup {None}]

RestTyped ==
  /\ owner \in [Conns -> Exits \cup {None}]
  /\ hand \in [Loops -> [conn : Conns, item : Nat] \cup {None}]
  /\ panic \in {"no", "send on closed", "nil context"}
  /\ faults \in 0..MaxFaults

(* The type invariant, by the parts of the state.                          *)
LEMMA TypeParts ==
  TypeOK <=> /\ EndsTyped /\ wire \in Wires
             /\ NetTyped /\ SetupTyped /\ SwapTyped /\ RestTyped
  BY DEF TypeOK, EndsTyped, EndOf, Wires, NetTyped, SetupTyped, SwapTyped, RestTyped

(* The type invariant from its parts, after a step.                        *)
LEMMA TypeAgain ==
  ASSUME EndsTyped', wire' \in Wires, NetTyped', SetupTyped', SwapTyped', RestTyped'
  PROVE  TypeOK'
  BY DEF TypeOK, EndsTyped, EndOf, Wires, NetTyped, SetupTyped, SwapTyped, RestTyped

(* The two sides, the read loops and the tunnels tell one another apart.   *)
LEMMA SideFacts ==
  /\ \A l \in Loops : SideOf(l) \in Sides /\ Other(SideOf(l)) \in Sides
  /\ \A s \in Sides : Other(s) \in Sides /\ Other(Other(s)) = s
  /\ ClientLoop \in Loops /\ Tunnels \subseteq Loops /\ ClientLoop \notin Tunnels
  /\ 1 \in Tunnels /\ 1 \in Exits /\ None \notin Tunnels /\ None \notin Exits
  BY SessionAssumption DEF Loops, SideOf, Other, Sides, ClientLoop, Tunnels, Exits

(* A fault counts, up to the bound.                                        *)
LEMMA FaultType ==
  ASSUME faults \in 0..MaxFaults, Fault
  PROVE  faults' \in 0..MaxFaults /\ faults' > 0
  BY SessionAssumption DEF Fault

(* One end changes.                                                        *)
LEMMA EndChange ==
  ASSUME EndsTyped, NEW s \in Sides, NEW k \in Conns, NEW c \in EndOf(s),
         end' = [end EXCEPT ![s][k] = c]
  PROVE  EndsTyped'
  BY DEF EndsTyped, EndOf

(* A closed connection is an end, whether it is still in the map or not.   *)
LEMMA ShutType ==
  ASSUME NEW s \in Sides, NEW c \in EndOf(s)
  PROVE  Shut(c) \in EndOf(s) /\ [Shut(c) EXCEPT !.held = FALSE] \in EndOf(s)
<1>1. <<>> \in Seq(Nat) /\ Len(<<>>) <= Capacity
  BY SessionAssumption
<1> QED
  BY <1>1 DEF EndOf, Ends, Shut

(* Every connection of a forwarder is closed.                              *)
LEMMA ShutAllType ==
  ASSUME EndsTyped, NEW x, end' = ShutAll(x)
  PROVE  EndsTyped'
<1>1. \A k \in Conns : Shut(end["exit"][k]) \in EndOf("exit")
  BY ShutType DEF EndsTyped, Sides
<1> QED
  BY <1>1 DEF EndsTyped, ShutAll, EndOf, Sides

(* The messages of the protocol.                                           *)
LEMMA MessageType ==
  ASSUME NEW k \in Conns, NEW i \in Nat
  PROVE  /\ Message("connect", k, i) \in Messages
         /\ Message("data", k, i) \in Messages
         /\ Message("close", k, i) \in Messages
  BY DEF Message, Messages

(* One tunnel's messages change.                                           *)
LEMMA WireChange ==
  ASSUME NEW w \in Wires, NEW s \in Sides, NEW t, NEW q, t \in Tunnels => q \in Seq(Messages)
  PROVE  [w EXCEPT ![s][t] = q] \in Wires
<1>1. CASE t \in Tunnels
  BY <1>1 DEF Wires
<1>2. CASE t \notin Tunnels
  BY <1>2 DEF Wires
<1> QED
  BY <1>1, <1>2

(* A message is put on the tunnel of its connection.                       *)
LEMMA PutType ==
  ASSUME NEW w \in Wires, NEW s \in Sides, NEW k, NEW m \in Messages
  PROVE  Put(w, s, k, m) \in Wires
<1> DEFINE t == Route(s, k)
<1>1. t \in Tunnels => Append(w[s][t], m) \in Seq(Messages)
  BY DEF Wires
<1>2. [w EXCEPT ![s][t] = Append(w[s][t], m)] \in Wires
  BY <1>1, WireChange
<1> QED
  BY <1>2 DEF Put

(* A connection is taken out of the map and closed.                        *)
LEMMA CloseConnType ==
  ASSUME EndsTyped, NEW s \in Sides, NEW k \in Conns, NEW w \in Wires, NEW c \in EndOf(s),
         CloseConn(s, k, w, c)
  PROVE  EndsTyped' /\ wire' \in Wires
<1>1. EndsTyped'
  <2>1. (IF c.held THEN [Shut(c) EXCEPT !.held = FALSE] ELSE c) \in EndOf(s)
    BY ShutType
  <2> QED
    BY <2>1, EndChange DEF CloseConn
<1>2. wire' \in Wires
  BY PutType, MessageType DEF CloseConn
<1> QED
  BY <1>1, <1>2

(* A loop reads the first message.                                         *)
LEMMA TailType ==
  ASSUME NEW q \in Seq(Messages), q # <<>>
  PROVE  Tail(q) \in Seq(Messages) /\ Head(q) \in Messages
  BY HeadTailProperties

(* A loop that reads has a tunnel to read.                                 *)
LEMMA LoopReads ==
  ASSUME TypeOK, NEW l \in Loops, Reading(l), Pending(l) # <<>>
  PROVE  /\ Source(l) \in Tunnels
         /\ Pending(l) \in Seq(Messages) /\ Head(Pending(l)) \in Messages
         /\ Head(Pending(l)).conn \in Conns /\ Head(Pending(l)).item \in Nat
         /\ Rest(l) \in Wires
<1>1. Source(l) \in Tunnels
  BY SessionAssumption DEF TypeOK, Reading, Source, Loops
<1>2. Pending(l) \in Seq(Messages)
  <2>1. wire \in Wires /\ Other(SideOf(l)) \in Sides
    BY TypeParts, SideFacts
  <2> QED
    BY <1>1, <2>1 DEF Wires, Pending
<1>3. Head(Pending(l)) \in Messages /\ Tail(Pending(l)) \in Seq(Messages)
  BY <1>2, TailType
<1>4. Rest(l) \in Wires
  <2>1. [wire EXCEPT ![Other(SideOf(l))][Source(l)] = Tail(Pending(l))] \in Wires
    BY <1>3, SideFacts, TypeParts, WireChange
  <2> QED
    BY <2>1 DEF Rest, Pending
<1> QED
  BY <1>1, <1>2, <1>3, <1>4 DEF Messages

(* The types hold before the first connection.                             *)
LEMMA InitType == Init => TypeOK
<1> SUFFICES ASSUME Init PROVE TypeOK
  OBVIOUS
<1>1. EndsTyped
  <2>1. MaxReads["entry"] >= 0 /\ MaxReads["exit"] >= 0 /\ Capacity >= 0
    BY SessionAssumption DEF Sides
  <2> QED
    BY <2>1 DEF Init, EndsTyped, EndOf, Ends, Sides
<1>2. wire \in Wires
  BY DEF Init, Wires
<1>3. NetTyped /\ SetupTyped /\ SwapTyped
  BY SideFacts DEF Init, NetTyped, SetupTyped, SwapTyped
<1>4. RestTyped
  <2>1. 0 \in 0..MaxFaults
    BY SessionAssumption
  <2> QED
    BY <2>1 DEF Init, RestTyped
<1> QED
  BY <1>1, <1>2, <1>3, <1>4, TypeParts

(* The pumps, the write loops and the outside.                             *)
PumpStep(s, k) ==
  \/ Send(s, k) \/ ReadEnds(s, k) \/ EndPump(s, k) \/ Deliver(s, k)
  \/ ReadData(s, k) \/ DeliveryFails(s, k) \/ OutsideCloses(s, k)

(* Types: a step of a connection's pump or write loop.                     *)
LEMMA PumpType ==
  ASSUME TypeOK, NEW s \in Sides, NEW k \in Conns, PumpStep(s, k)
  PROVE  TypeOK'
<1> DEFINE c == end[s][k]
<1>0. /\ EndsTyped /\ wire \in Wires /\ NetTyped /\ SetupTyped /\ SwapTyped /\ RestTyped
      /\ c \in EndOf(s)
  BY TypeParts DEF EndsTyped
<1>1. UNCHANGED <<link, tunnel, setup, swap, owner, hand, panic, faults>>
  BY DEF PumpStep, Send, ReadEnds, EndPump, Deliver, ReadData, DeliveryFails, OutsideCloses, net
<1>2. NetTyped' /\ SetupTyped' /\ SwapTyped' /\ RestTyped'
  BY <1>0, <1>1 DEF NetTyped, SetupTyped, SwapTyped, RestTyped, setup, swap
<1>3. \A l \in {"connect", "read", "send", "closing", "done"} :
        [c EXCEPT !.pump = l] \in EndOf(s)
  BY <1>0 DEF EndOf, Ends
<1>4. c.queue # <<>> => Tail(c.queue) \in Seq(Nat) /\ Head(c.queue) \in Nat
                        /\ Len(Tail(c.queue)) <= Capacity
  <2>1. c.queue \in Seq(Nat) /\ Len(c.queue) <= Capacity /\ Capacity \in Nat
    BY <1>0, SessionAssumption DEF EndOf, Ends
  <2> HIDE DEF c
  <2>2. ASSUME c.queue # <<>>
        PROVE  /\ Tail(c.queue) \in Seq(Nat) /\ Head(c.queue) \in Nat
               /\ Len(Tail(c.queue)) = Len(c.queue) - 1
    BY <2>1, <2>2, HeadTailProperties
  <2>3. Len(c.queue) \in Nat
    BY <2>1
  <2> QED
    BY <2>1, <2>2, <2>3
<1>5. EndsTyped' /\ wire' \in Wires
  <2>1. CASE Send(s, k)
    <3>1. EndsTyped'
      BY <1>0, <1>3, <2>1, EndChange DEF Send, PumpGoto
    <3>2. c.read \in Nat
      BY <1>0 DEF EndOf, Ends
    <3> QED
      BY <1>0, <2>1, <3>1, <3>2, PutType, MessageType DEF Send
  <2>2. CASE ReadEnds(s, k)
    BY <1>0, <1>3, <2>2, EndChange DEF ReadEnds, PumpGoto, net
  <2>3. CASE EndPump(s, k)
    BY <1>0, <1>3, <2>3, CloseConnType DEF EndPump
  <2>4. CASE Deliver(s, k)
    <3>1. [c EXCEPT !.queue = Tail(@), !.got = Append(@, Head(c.queue))] \in EndOf(s)
      <4>1. Append(c.got, Head(c.queue)) \in Seq(Nat)
        BY <1>0, <1>4, <2>4 DEF Deliver, EndOf, Ends
      <4> QED
        BY <1>0, <1>4, <2>4, <4>1 DEF Deliver, EndOf, Ends
    <3> QED
      BY <1>0, <2>4, <3>1, EndChange DEF Deliver, net
  <2>5. CASE ReadData(s, k)
    <3>1. [c EXCEPT !.pump = "send", !.read = @ + 1] \in EndOf(s)
      <4>1. MaxReads[s] \in Nat
        BY SessionAssumption
      <4>2. c.read \in Nat /\ c.read + 1 \in Nat /\ c.read + 1 <= MaxReads[s]
        BY <1>0, <2>5, <4>1 DEF ReadData, EndOf, Ends
      <4> QED
        BY <1>0, <4>2 DEF EndOf, Ends
    <3>2. end' = [end EXCEPT ![s][k] = [c EXCEPT !.pump = "send", !.read = @ + 1]]
      BY <1>0, <2>5 DEF ReadData, EndsTyped, Ends
    <3> QED
      BY <1>0, <2>5, <3>1, <3>2, EndChange DEF ReadData, net
  <2>6. CASE DeliveryFails(s, k)
    <3>1. [c EXCEPT !.queue = Tail(@), !.state = "failed"] \in EndOf(s)
      BY <1>0, <1>4, <2>6 DEF DeliveryFails, EndOf, Ends
    <3> QED
      BY <1>0, <2>6, <3>1, EndChange DEF DeliveryFails, net
  <2>7. CASE OutsideCloses(s, k)
    <3>1. [c EXCEPT !.peer = "closed"] \in EndOf(s)
      BY <1>0 DEF EndOf, Ends
    <3> QED
      BY <1>0, <2>7, <3>1, EndChange DEF OutsideCloses, net
  <2> QED
    BY <2>1, <2>2, <2>3, <2>4, <2>5, <2>6, <2>7 DEF PumpStep
<1> QED
  BY <1>2, <1>5, TypeAgain

(* A connection begins, or a process ends.                                 *)
LEMMA BeginType ==
  ASSUME TypeOK, NEW k \in Conns, Accept(k) \/ ReadPanics(k)
  PROVE  TypeOK'
<1>0. /\ EndsTyped /\ wire \in Wires /\ NetTyped /\ SetupTyped /\ SwapTyped /\ RestTyped
  BY TypeParts
<1>1. UNCHANGED <<net, setup, swap, owner, hand, faults>>
      /\ panic' \in {"no", "send on closed", "nil context"}
  BY <1>0 DEF Accept, ReadPanics, RestTyped
<1>2. EndsTyped'
  <2>1. CASE Accept(k)
    <3>1. [end["entry"][k] EXCEPT !.pump = "connect", !.held = TRUE, !.state = "open"] \in EndOf("entry")
      BY <1>0 DEF EndsTyped, EndOf, Ends, Sides
    <3>2. end' = [end EXCEPT !["entry"][k] =
                    [end["entry"][k] EXCEPT !.pump = "connect", !.held = TRUE, !.state = "open"]]
      BY <1>0, <2>1 DEF Accept, EndsTyped, Ends, Sides
    <3> QED
      BY <1>0, <3>1, <3>2, EndChange DEF Sides
  <2>2. CASE ReadPanics(k)
    BY <1>0, <2>2 DEF ReadPanics, EndsTyped
  <2> QED
    BY <2>1, <2>2
<1>3. wire' \in Wires /\ NetTyped' /\ SetupTyped' /\ SwapTyped' /\ RestTyped'
  BY <1>0, <1>1 DEF NetTyped, SetupTyped, SwapTyped, RestTyped, setup, swap, net
<1> QED
  BY <1>2, <1>3, TypeAgain

(* Types: a step of a read loop.                                           *)
LEMMA LoopType ==
  ASSUME TypeOK, NEW l \in Loops, Loop(l) \/ WritePanics(l)
  PROVE  TypeOK'
<1>0. /\ EndsTyped /\ wire \in Wires /\ NetTyped /\ SetupTyped /\ SwapTyped /\ RestTyped
      /\ SideOf(l) \in Sides
  BY TypeParts, SideFacts
<1>1. /\ UNCHANGED <<link, tunnel, setup, swap, owner, faults>>
      /\ panic' \in {"no", "send on closed", "nil context"}
  BY <1>0 DEF Loop, ReceiveData, Write, ReceiveClose, WritePanics, RestTyped, net
<1>2. hand' \in [Loops -> [conn : Conns, item : Nat] \cup {None}] /\ EndsTyped' /\ wire' \in Wires
  <2>1. CASE ReceiveData(l)
    <3>1. EndsTyped' /\ wire' \in Wires
      BY <1>0, <2>1, LoopReads DEF ReceiveData, EndsTyped
    <3>2. [conn |-> Head(Pending(l)).conn, item |-> Head(Pending(l)).item] \in [conn : Conns, item : Nat]
      BY <2>1, LoopReads DEF ReceiveData
    <3> QED
      BY <1>0, <2>1, <3>1, <3>2 DEF ReceiveData, RestTyped
  <2>2. CASE Write(l)
    <3> DEFINE k == hand[l].conn
               c == end[SideOf(l)][k]
    <3>1. k \in Conns /\ hand[l].item \in Nat
      BY <1>0, <2>2 DEF Write, RestTyped
    <3>2. c \in EndOf(SideOf(l))
      BY <1>0, <3>1 DEF EndsTyped
    <3>0. hand' \in [Loops -> [conn : Conns, item : Nat] \cup {None}]
      BY <1>0, <2>2 DEF Write, RestTyped
    <3>3. CASE /\ Len(c.queue) < Capacity /\ UNCHANGED wire
               /\ end' = [end EXCEPT ![SideOf(l)][k] = Queued(c, hand[l].item)]
      <4>1. Queued(c, hand[l].item) \in EndOf(SideOf(l))
        <5>1. c.queue \in Seq(Nat)
          BY <3>2 DEF EndOf, Ends
        <5>2. Append(c.queue, hand[l].item) \in Seq(Nat)
              /\ Len(Append(c.queue, hand[l].item)) = Len(c.queue) + 1
          BY <3>1, <5>1, AppendProperties
        <5>3. Len(Append(c.queue, hand[l].item)) <= Capacity
          BY <3>3, <5>1, <5>2, SessionAssumption
        <5> QED
          BY <3>2, <5>2, <5>3 DEF EndOf, Ends, Queued
      <4> QED
        BY <1>0, <3>0, <3>1, <3>3, <4>1, EndChange
    <3>4. CASE CloseConn(SideOf(l), k, wire, c)
      BY <1>0, <3>0, <3>1, <3>2, <3>4, CloseConnType
    <3>5. Enqueue(l, SideOf(l), k, hand[l].item)
      BY <2>2 DEF Write
    <3>6. end' = [end EXCEPT ![SideOf(l)][k] = Queued(@, hand[l].item)] =>
            end' = [end EXCEPT ![SideOf(l)][k] = Queued(c, hand[l].item)]
      OBVIOUS
    <3> QED
      BY <3>3, <3>4, <3>5, <3>6 DEF Enqueue
  <2>3. CASE ReceiveClose(l)
    <3> DEFINE k == Head(Pending(l)).conn
    <3>1. k \in Conns /\ Rest(l) \in Wires
      BY <2>3, LoopReads DEF ReceiveClose
    <3>2. end[SideOf(l)][k] \in EndOf(SideOf(l))
      BY <1>0, <3>1 DEF EndsTyped
    <3>3. CASE CloseConn(SideOf(l), k, Rest(l), end[SideOf(l)][k])
      BY <1>0, <2>3, <3>1, <3>2, <3>3, CloseConnType DEF ReceiveClose, RestTyped
    <3>4. CASE wire' = Rest(l) /\ UNCHANGED end
      BY <1>0, <2>3, <3>1, <3>4 DEF ReceiveClose, RestTyped, EndsTyped
    <3> QED
      BY <2>3, <3>3, <3>4 DEF ReceiveClose
  <2>4. CASE WritePanics(l)
    BY <1>0, <2>4 DEF WritePanics, EndsTyped, RestTyped, net
  <2> QED
    BY <2>1, <2>2, <2>3, <2>4 DEF Loop
<1>3. NetTyped' /\ SetupTyped' /\ SwapTyped' /\ RestTyped'
  BY <1>0, <1>1, <1>2 DEF NetTyped, SetupTyped, SwapTyped, RestTyped, setup, swap
<1> QED
  BY <1>2, <1>3, TypeAgain

(* The client's connection, and the server's set-up of a tunnel.           *)
LEMMA TunnelType ==
  ASSUME TypeOK,
         \/ ReadFails \/ Dial
         \/ \E t \in Tunnels :
              \/ Choose(t) \/ Register(t) \/ Recheck(t) \/ Adopt(t) \/ SetSender(t)
              \/ ReceiveConnect(t) \/ Disconnect(t) \/ Lose(t) \/ GiveUp(t)
  PROVE  TypeOK'
<1>0. /\ EndsTyped /\ wire \in Wires /\ NetTyped /\ SetupTyped /\ SwapTyped /\ RestTyped
  BY TypeParts
<1>1. CASE ReadFails
  <2>1. NetTyped' /\ wire' \in Wires /\ SetupTyped' /\ SwapTyped' /\ RestTyped' /\ EndsTyped'
    BY <1>0, <1>1 DEF ReadFails, NetTyped, SetupTyped, SwapTyped, RestTyped, EndsTyped, setup, swap
  <2> QED
    BY <2>1, TypeAgain
<1>2. CASE Dial
  <2>1. NetTyped' /\ wire' \in Wires /\ SetupTyped'
    BY <1>0, <1>2 DEF Dial, NetTyped, SetupTyped
  <2>2. SwapTyped' /\ RestTyped' /\ EndsTyped'
    BY <1>0, <1>2 DEF Dial, SwapTyped, RestTyped, EndsTyped, swap
  <2> QED
    BY <2>1, <2>2, TypeAgain
<1>3. ASSUME NEW t \in Tunnels, Choose(t) \/ Register(t) \/ Recheck(t) \/ Adopt(t)
      PROVE  TypeOK'
  <2>1. SetupTyped'
    BY <1>0, <1>3 DEF Choose, Register, Recheck, Adopt, ServerGoto, SetupTyped, SwapTyped, setup
  <2>2. NetTyped' /\ wire' \in Wires /\ SwapTyped' /\ RestTyped' /\ EndsTyped'
    BY <1>0, <1>3 DEF Choose, Register, Recheck, Adopt, NetTyped, SwapTyped, RestTyped, EndsTyped, swap, net
  <2> QED
    BY <2>1, <2>2, TypeAgain
<1>4. ASSUME NEW t \in Tunnels, SetSender(t)
      PROVE  TypeOK'
  <2>1. SetupTyped' /\ SwapTyped'
    BY <1>0, <1>4 DEF SetSender, ServerGoto, SetupTyped, SwapTyped, setup
  <2>2. NetTyped' /\ wire' \in Wires /\ RestTyped' /\ EndsTyped'
    BY <1>0, <1>4 DEF SetSender, NetTyped, RestTyped, EndsTyped, net
  <2> QED
    BY <2>1, <2>2, TypeAgain
<1>5. ASSUME NEW t \in Tunnels, ReceiveConnect(t)
      PROVE  TypeOK'
  <2> DEFINE k == Head(Pending(t)).conn
             x == sender[current[t]]
  <2>1. t \in Loops /\ k \in Conns /\ Rest(t) \in Wires
    BY <1>5, LoopReads, SideFacts DEF ReceiveConnect
  <2>2. EndsTyped'
    <3>1. [end["exit"][k] EXCEPT !.held = TRUE, !.state = "open", !.pump = "read"] \in EndOf("exit")
      <4>1. end["exit"][k] \in EndOf("exit")
        BY <1>0, <2>1 DEF EndsTyped, Sides
      <4> QED
        BY <4>1 DEF EndOf, Ends
    <3>2. CASE end' = [end EXCEPT !["exit"][k].held = TRUE, !["exit"][k].state = "open", !["exit"][k].pump = "read"]
      <4>1. end' = [end EXCEPT !["exit"][k] =
                      [end["exit"][k] EXCEPT !.held = TRUE, !.state = "open", !.pump = "read"]]
        BY <1>0, <2>1, <3>2 DEF EndsTyped, Ends, Sides
      <4> QED
        BY <1>0, <2>1, <3>1, <4>1, EndChange DEF Sides
    <3>3. CASE UNCHANGED end
      BY <1>0, <3>3 DEF EndsTyped
    <3> QED
      BY <1>5, <3>2, <3>3 DEF ReceiveConnect
  <2>3. wire' \in Wires
    <3>1. CASE wire' = Rest(t)
      BY <2>1, <3>1
    <3>2. CASE wire' = [Rest(t) EXCEPT !["exit"][x] = Append(@, Message("close", k, 0))]
      <4>1. x \in Tunnels => Append(Rest(t)["exit"][x], Message("close", k, 0)) \in Seq(Messages)
        BY <2>1, MessageType DEF Wires, Sides
      <4>2. [Rest(t) EXCEPT !["exit"][x] = Append(Rest(t)["exit"][x], Message("close", k, 0))] \in Wires
        BY <2>1, <4>1, WireChange DEF Sides
      <4> QED
        BY <3>2, <4>2
    <3> QED
      BY <1>5, <3>1, <3>2 DEF ReceiveConnect
  <2>4. RestTyped'
    BY <1>0, <1>5, <2>1 DEF ReceiveConnect, RestTyped, SetupTyped
  <2>5. NetTyped' /\ SetupTyped' /\ SwapTyped'
    BY <1>0, <1>5 DEF ReceiveConnect, NetTyped, SetupTyped, SwapTyped, setup, swap
  <2> QED
    BY <2>2, <2>3, <2>4, <2>5, TypeAgain
<1>6. ASSUME NEW t \in Tunnels, Disconnect(t)
      PROVE  TypeOK'
  <2>1. EndsTyped'
    BY <1>0, <1>6, ShutAllType DEF Disconnect
  <2>2. SetupTyped'
    BY <1>0, <1>6 DEF Disconnect, ServerGoto, SetupTyped
  <2>3. NetTyped' /\ wire' \in Wires /\ SwapTyped' /\ RestTyped'
    BY <1>0, <1>6 DEF Disconnect, NetTyped, SwapTyped, RestTyped, swap, net
  <2> QED
    BY <2>1, <2>2, <2>3, TypeAgain
<1>7. ASSUME NEW t \in Tunnels, Lose(t)
      PROVE  TypeOK'
  <2>1. \A s \in Sides : \A p \in Prefixes(wire[s][t]) : p \in Seq(Messages)
    <3> TAKE s \in Sides
    <3>1. wire[s][t] \in Seq(Messages)
      BY <1>0 DEF Wires
    <3> QED
      BY <3>1, SubSeqProperties DEF Prefixes
  <2>2. wire' \in Wires
    <3>1. PICK p \in Prefixes(wire["entry"][t]), q \in Prefixes(wire["exit"][t]) :
            wire' = [wire EXCEPT !["entry"][t] = p, !["exit"][t] = q]
      BY <1>7 DEF Lose
    <3>2. p \in Seq(Messages) /\ q \in Seq(Messages)
      BY <2>1 DEF Sides
    <3> QED
      BY <1>0, <3>1, <3>2 DEF Wires, Sides
  <2>3. NetTyped' /\ RestTyped'
    BY <1>0, <1>7, FaultType DEF Lose, NetTyped, RestTyped
  <2>4. SetupTyped' /\ SwapTyped' /\ EndsTyped'
    BY <1>0, <1>7 DEF Lose, SetupTyped, SwapTyped, EndsTyped, setup, swap
  <2> QED
    BY <2>2, <2>3, <2>4, TypeAgain
<1>8. ASSUME NEW t \in Tunnels, GiveUp(t)
      PROVE  TypeOK'
  <2>1. wire' \in Wires
    BY <1>0, <1>8 DEF GiveUp, Wires, Sides
  <2>2. NetTyped' /\ RestTyped' /\ SetupTyped'
    BY <1>0, <1>8, FaultType DEF GiveUp, ServerGoto, NetTyped, RestTyped, SetupTyped
  <2>3. SwapTyped' /\ EndsTyped'
    BY <1>0, <1>8 DEF GiveUp, SwapTyped, EndsTyped, swap
  <2> QED
    BY <2>1, <2>2, <2>3, TypeAgain
<1> QED
  BY <1>1, <1>2, <1>3, <1>4, <1>5, <1>6, <1>7, <1>8

(* Types: the agent adds, starts or stops an exit forwarder.               *)
LEMMA AgentType ==
  ASSUME TypeOK, NEW x \in Exits, Agent(x) \/ Stop(x)
  PROVE  TypeOK'
<1>0. /\ EndsTyped /\ wire \in Wires /\ NetTyped /\ SetupTyped /\ SwapTyped /\ RestTyped
  BY TypeParts
<1>1. wire' \in Wires /\ NetTyped'
  BY <1>0 DEF Agent, Publish, Notify, Rewire, Start, Stop, StopReturns, net, NetTyped
<1>2. RestTyped'
  BY <1>0, FaultType DEF Agent, Publish, Notify, Rewire, Start, Stop, StopReturns, RestTyped
<1>3. SetupTyped' /\ SwapTyped'
  <2>1. CASE Publish(x) \/ Notify(x) \/ Start(x) \/ Stop(x) \/ StopReturns(x)
    BY <1>0, <2>1
    DEF Publish, Notify, Start, Stop, StopReturns, ExitGoto, SetupTyped, SwapTyped, setup
  <2>2. CASE Rewire(x)
    <3>1. SetupTyped'
      BY <1>0, <2>2 DEF Rewire, SetupTyped
    <3>2. SwapTyped'
      BY <1>0, <2>2 DEF Rewire, ExitGoto, SwapTyped
    <3> QED
      BY <3>1, <3>2
  <2> QED
    BY <2>1, <2>2 DEF Agent
<1>4. EndsTyped'
  <2>1. CASE Publish(x) \/ Rewire(x) \/ Start(x) \/ StopReturns(x)
    BY <1>0, <2>1 DEF Publish, Rewire, Start, StopReturns, EndsTyped
  <2>2. CASE Notify(x)
    BY <1>0, <2>2, ShutAllType DEF Notify
  <2>3. CASE Stop(x)
    <3>1. \A k \in Conns : /\ Shut(end["exit"][k]) \in EndOf("exit")
                           /\ [Shut(end["exit"][k]) EXCEPT !.held = FALSE] \in EndOf("exit")
                           /\ [end["exit"][k] EXCEPT !.held = FALSE] \in EndOf("exit")
      <4>1. \A k \in Conns : end["exit"][k] \in EndOf("exit")
        BY <1>0 DEF EndsTyped, Sides
      <4>2. \A c \in EndOf("exit") : [c EXCEPT !.held = FALSE] \in EndOf("exit")
        BY DEF EndOf, Ends
      <4> QED
        BY <4>1, <4>2, ShutType DEF Sides
    <3>2. ShutAll(x) = [end EXCEPT !["exit"] = ShutAll(x)["exit"]]
          /\ \A k \in Conns : ShutAll(x)["exit"][k] =
               IF end["exit"][k].held /\ owner[k] = x THEN Shut(end["exit"][k]) ELSE end["exit"][k]
      BY <1>0 DEF ShutAll, EndsTyped, Sides
    <3>3. \A k \in Conns : end'["exit"][k] =
            IF owner[k] = x THEN [ShutAll(x)["exit"][k] EXCEPT !.held = FALSE] ELSE ShutAll(x)["exit"][k]
      BY <1>0, <2>3, <3>2 DEF Stop, EndsTyped, Sides
    <3>4. \A k \in Conns : end'["exit"][k] \in EndOf("exit")
      <4>1. \A k \in Conns : end["exit"][k] \in EndOf("exit")
        BY <1>0 DEF EndsTyped, Sides
      <4>2. \A k \in Conns : /\ ShutAll(x)["exit"][k] \in EndOf("exit")
                             /\ [ShutAll(x)["exit"][k] EXCEPT !.held = FALSE] \in EndOf("exit")
        BY <3>1, <3>2, <4>1
      <4> QED
        BY <3>3, <4>2
    <3>5. end' = [s \in Sides |-> IF s = "exit" THEN [k \in Conns |-> end'["exit"][k]] ELSE end[s]]
      BY <1>0, <2>3, <3>2 DEF Stop, EndsTyped, Sides
    <3> QED
      BY <1>0, <3>4, <3>5 DEF EndsTyped, EndOf, Sides
  <2> QED
    BY <2>1, <2>2, <2>3 DEF Agent
<1> QED
  BY <1>1, <1>2, <1>3, <1>4, TypeAgain

(* The steps by what they change: every proof about [Next]_vars splits     *)
(* them like this.                                                         *)
ServerStep(t) ==
  \/ Choose(t) \/ Register(t) \/ Recheck(t) \/ Adopt(t) \/ SetSender(t)
  \/ ReceiveConnect(t) \/ Disconnect(t) \/ Lose(t) \/ GiveUp(t)

(* What the steps of the session are.                                      *)
LEMMA Steps ==
  ASSUME [Next]_vars
  PROVE  \/ UNCHANGED vars
         \/ \E s \in Sides, k \in Conns : PumpStep(s, k)
         \/ \E k \in Conns : Accept(k) \/ ReadPanics(k)
         \/ \E l \in Loops : Loop(l) \/ WritePanics(l)
         \/ ReadFails \/ Dial
         \/ \E t \in Tunnels : ServerStep(t)
         \/ \E x \in Exits : Agent(x) \/ Stop(x)
<1>1. CASE Client
  BY <1>1, SideFacts DEF Client
<1>2. ASSUME NEW t \in Tunnels, HandleTunnel(t)
      PROVE  ServerStep(t) \/ \E l \in Loops : Loop(l)
  BY <1>2, SideFacts DEF HandleTunnel, ServerStep
<1> QED
  BY <1>1, <1>2 DEF Next, Running, Pump, PumpStep, ServerStep

(* Types, step by step.                                                    *)
LEMMA TypeStep == TypeOK /\ [Next]_vars => TypeOK'
<1> SUFFICES ASSUME TypeOK, [Next]_vars PROVE TypeOK'
  OBVIOUS
<1>1. CASE UNCHANGED vars
  BY <1>1 DEF TypeOK, vars, net, setup, swap
<1>2. \A t \in Tunnels : ServerStep(t) => TypeOK'
  BY TunnelType DEF ServerStep
<1> QED
  BY <1>1, <1>2, Steps, PumpType, BeginType, LoopType, TunnelType, AgentType

(* Every variable keeps its type: no write queue ever holds more than its  *)
(* capacity, whatever the read loops and the pumps do.                     *)
THEOREM TypeCorrect == Spec => []TypeOK
  BY InitType, TypeStep, PTL DEF Spec

-----------------------------------------------------------------------------
(* Registration and hot swap.                                              *)

(* The exit forwarders come one after the other, each published when the   *)
(* one before has stopped; a handler that a tunnel knows was published.    *)
Handlers ==
  /\ \A x \in Exits : exits[x] \notin {"new", "stopped"} => handler = x
  /\ \A x, y \in Exits : x < y /\ exits[y] # "new" => exits[x] = "stopped"
  /\ \A x \in Exits : handler = None => exits[x] = "new"
  /\ handler # None => exits[handler] # "new"
  /\ \A t \in Tunnels : /\ captured[t] # None => exits[captured[t]] # "new"
                        /\ current[t] # None => exits[current[t]] # "new"

(* AddHandler finds a tunnel in connHandler from its registration until it *)
(* is gone.  Before the double check the tunnel may be behind, but not if  *)
(* the check is going to find nothing new.                                 *)
SetUp ==
  \A t \in Tunnels :
    /\ current[t] = None <=> server[t] \in {"off", "choose", "register", "gone"}
    /\ captured[t] = None => server[t] \in {"off", "choose", "gone"}
    /\ server[t] = "recheck" /\ handler = captured[t] => current[t] = handler

(* The server does not know a tunnel before it is dialled.                 *)
Undialled == \A t \in Tunnels : link[t] = "new" => server[t] = "off"

(* Only a tunnel that is dialled reaches the server.                       *)
LEMMA UndialledStep ==
  ASSUME TypeOK, Undialled, [Next]_vars
  PROVE  Undialled'
<1>0. NetTyped /\ SetupTyped
  BY TypeParts
<1>1. CASE UNCHANGED <<link, server>>
  BY <1>1 DEF Undialled
<1>2. CASE Dial
  BY <1>0, <1>2 DEF Dial, Undialled, NetTyped, SetupTyped
<1>3. ASSUME NEW t \in Tunnels, ServerStep(t)
      PROVE  Undialled'
  <2>1. CASE /\ UNCHANGED server
             /\ UNCHANGED link \/ (link[t] # "new" /\ link' = [link EXCEPT ![t] = "lost"])
    BY <1>0, <2>1 DEF Undialled, NetTyped
  <2>2. CASE /\ server[t] # "off" /\ \E l : server' = [server EXCEPT ![t] = l]
             /\ UNCHANGED link \/ link' = [link EXCEPT ![t] = "lost"]
    BY <1>0, <2>2 DEF Undialled, NetTyped, SetupTyped
  <2>3. CASE ReceiveConnect(t)
    <3>1. UNCHANGED <<link, setup>>
      BY <2>3 DEF ReceiveConnect
    <3> QED
      BY <1>1, <3>1 DEF setup
  <2>a. CASE Lose(t)
    BY <2>1, <2>a DEF Lose, setup
  <2>4. CASE Choose(t) \/ Register(t) \/ Adopt(t) \/ SetSender(t) \/ Disconnect(t)
    BY <2>2, <2>4 DEF Choose, Register, Adopt, SetSender, Disconnect, ServerGoto, net
  <2>5. CASE Recheck(t)
    BY <2>2, <2>5 DEF Recheck, ServerGoto, net
  <2>6. CASE GiveUp(t)
    BY <2>2, <2>6 DEF GiveUp, ServerGoto
  <2> QED
    BY <1>3, <2>3, <2>4, <2>5, <2>6, <2>a DEF ServerStep
<1>4. ASSUME NEW x \in Exits, Agent(x) \/ Stop(x)
      PROVE  UNCHANGED <<link, server>>
  BY <1>4 DEF Agent, Publish, Notify, Rewire, Start, Stop, StopReturns, net, setup
<1>5. ASSUME NEW s \in Sides, NEW k \in Conns, PumpStep(s, k)
      PROVE  UNCHANGED <<link, server>>
  BY <1>5
  DEF PumpStep, Send, ReadEnds, EndPump, Deliver, ReadData, DeliveryFails, OutsideCloses, net, setup
<1>6. ASSUME NEW k \in Conns, Accept(k) \/ ReadPanics(k)
      PROVE  UNCHANGED <<link, server>>
  BY <1>6 DEF Accept, ReadPanics, net, setup
<1>7. ASSUME NEW l \in Loops, Loop(l) \/ WritePanics(l)
      PROVE  UNCHANGED <<link, server>>
  BY <1>7 DEF Loop, ReceiveData, Write, ReceiveClose, WritePanics, net, setup
<1>8. UNCHANGED vars \/ ReadFails => UNCHANGED <<link, server>>
  BY DEF ReadFails, vars, net, setup
<1> QED
  BY <1>1, <1>2, <1>3, <1>4, <1>5, <1>6, <1>7, <1>8, Steps

Swap == TypeOK /\ Undialled /\ Handlers /\ SetUp /\ HotSwapReachesAll

(* No tunnel and no handler at the beginning.                              *)
LEMMA InitSwap == Init => Swap
<1> SUFFICES ASSUME Init PROVE Swap
  OBVIOUS
<1>1. TypeOK
  BY InitType
<1>2. Undialled /\ Handlers /\ SetUp /\ HotSwapReachesAll
  BY SideFacts DEF Init, Undialled, Handlers, SetUp, HotSwapReachesAll
<1> QED
  BY <1>1, <1>2 DEF Swap

(* A step that touches no handler.                                         *)
LEMMA Unswapped ==
  ASSUME Swap, UNCHANGED <<setup, handler, exits>>
  PROVE  Handlers' /\ SetUp' /\ HotSwapReachesAll'
  BY DEF Swap, Handlers, SetUp, HotSwapReachesAll, setup

(* handleTunnel registers a tunnel and looks for its handler twice.        *)
LEMMA ServerSwap ==
  ASSUME Swap, NEW t \in Tunnels, ServerStep(t)
  PROVE  Handlers' /\ SetUp' /\ HotSwapReachesAll'
<1>0. /\ SetupTyped /\ SwapTyped /\ Handlers /\ SetUp /\ HotSwapReachesAll
  BY TypeParts DEF Swap
<1>1. CASE Choose(t)
  BY <1>0, <1>1, SideFacts
  DEF Choose, ServerGoto, SetupTyped, SwapTyped, Handlers, SetUp, HotSwapReachesAll, swap
<1>2. CASE Register(t)
  BY <1>0, <1>2, SideFacts
  DEF Register, ServerGoto, SetupTyped, SwapTyped, Handlers, SetUp, HotSwapReachesAll, swap
<1>3. CASE Recheck(t)
  <2>1. handler # None
    BY <1>0, <1>3, SideFacts DEF Recheck, SetupTyped, SwapTyped, Handlers, SetUp
  <2> QED
    BY <1>0, <1>3, <2>1, SideFacts
    DEF Recheck, ServerGoto, SetupTyped, SwapTyped, Handlers, SetUp, HotSwapReachesAll, swap
<1>4. CASE Adopt(t)
  BY <1>0, <1>4, SideFacts
  DEF Adopt, ServerGoto, SetupTyped, SwapTyped, Handlers, SetUp, HotSwapReachesAll, swap
<1>5. CASE SetSender(t)
  BY <1>0, <1>5, SideFacts
  DEF SetSender, ServerGoto, SetupTyped, SwapTyped, Handlers, SetUp, HotSwapReachesAll
<1>6. CASE ReceiveConnect(t) \/ Lose(t)
  BY <1>6, Unswapped DEF ReceiveConnect, Lose, swap
<1>7. CASE Disconnect(t)
  BY <1>0, <1>7, SideFacts
  DEF Disconnect, ServerGoto, SetupTyped, SwapTyped, Handlers, SetUp, HotSwapReachesAll, swap
<1>8. CASE GiveUp(t)
  BY <1>0, <1>8, SideFacts
  DEF GiveUp, ServerGoto, SetupTyped, SwapTyped, Handlers, SetUp, HotSwapReachesAll, swap
<1> QED
  BY <1>1, <1>2, <1>3, <1>4, <1>5, <1>6, <1>7, <1>8 DEF ServerStep

(* AddHandler replaces the handler of every tunnel it finds; Stop does     *)
(* not.                                                                    *)
LEMMA AgentSwap ==
  ASSUME Swap, NEW x \in Exits, Agent(x) \/ Stop(x)
  PROVE  Handlers' /\ SetUp' /\ HotSwapReachesAll'
<1>0. /\ SetupTyped /\ SwapTyped /\ Handlers /\ SetUp /\ HotSwapReachesAll
  BY TypeParts DEF Swap
<1>a. Exits \subseteq Int
  BY DEF Exits
<1>1. CASE Publish(x)
  <2>1. Handlers'
    BY <1>0, <1>a, <1>1, SideFacts DEF Publish, ExitGoto, SetupTyped, SwapTyped, Handlers, setup
  <2>2. SetUp'
    BY <1>0, <1>1, SideFacts DEF Publish, SetupTyped, SwapTyped, Handlers, SetUp, setup
  <2>3. handler = None => \A t \in Tunnels : server[t] \notin {"sender", "read"}
    BY <1>0, SideFacts DEF SetupTyped, SwapTyped, Handlers, SetUp
  <2>4. HotSwapReachesAll'
    BY <1>0, <1>1, <2>3, SideFacts
    DEF Publish, ExitGoto, SetupTyped, SwapTyped, HotSwapReachesAll, setup
  <2> QED
    BY <2>1, <2>2, <2>4
<1>2. CASE Rewire(x)
  <2>1. handler = x /\ x # None
    BY <1>0, <1>2, SideFacts DEF Rewire, Handlers
  <2>2. Handlers'
    BY <1>0, <1>a, <1>2, <2>1, SideFacts DEF Rewire, ExitGoto, SetupTyped, SwapTyped, Handlers
  <2>3. SetUp' /\ HotSwapReachesAll'
    BY <1>0, <1>2, <2>1, SideFacts DEF Rewire, SetupTyped, SwapTyped, SetUp, HotSwapReachesAll
  <2> QED
    BY <2>2, <2>3
<1>3. CASE Notify(x) \/ Start(x) \/ Stop(x) \/ StopReturns(x)
  <2>1. /\ UNCHANGED <<setup, handler>> /\ handler = x
        /\ exits[x] \notin {"new", "stopped"}
        /\ exits[x] \in {"published", "notified"} => exits'[x] \in {"published", "notified"}
        /\ \E l \in {"notified", "running", "stopping", "stopped"} :
             exits' = [exits EXCEPT ![x] = l]
    BY <1>0, <1>3 DEF Notify, Start, Stop, StopReturns, ExitGoto, Handlers, SwapTyped
  <2>2. Handlers'
    BY <1>0, <1>a, <2>1, SideFacts DEF SetupTyped, SwapTyped, Handlers, setup
  <2>3. SetUp' /\ HotSwapReachesAll'
    BY <1>0, <2>1, SideFacts DEF SetupTyped, SwapTyped, SetUp, HotSwapReachesAll, setup
  <2> QED
    BY <2>2, <2>3
<1> QED
  BY <1>1, <1>2, <1>3 DEF Agent

(* Registration and hot swap, step by step.                                *)
LEMMA SwapStep == Swap /\ [Next]_vars => Swap'
<1> SUFFICES ASSUME Swap, [Next]_vars PROVE Swap'
  OBVIOUS
<1>1. TypeOK' /\ Undialled'
  BY TypeStep, UndialledStep DEF Swap
<1>2. Handlers' /\ SetUp' /\ HotSwapReachesAll'
  <2>1. CASE UNCHANGED vars
    BY <2>1, Unswapped DEF vars, swap
  <2>2. ASSUME NEW s \in Sides, NEW k \in Conns, PumpStep(s, k)
        PROVE  UNCHANGED <<setup, handler, exits>>
    BY <2>2
    DEF PumpStep, Send, ReadEnds, EndPump, Deliver, ReadData, DeliveryFails, OutsideCloses, swap
  <2>3. ASSUME NEW k \in Conns, Accept(k) \/ ReadPanics(k)
        PROVE  UNCHANGED <<setup, handler, exits>>
    BY <2>3 DEF Accept, ReadPanics, swap
  <2>4. ASSUME NEW l \in Loops, Loop(l) \/ WritePanics(l)
        PROVE  UNCHANGED <<setup, handler, exits>>
    BY <2>4 DEF Loop, ReceiveData, Write, ReceiveClose, WritePanics, swap
  <2>5. CASE ReadFails
    BY <2>5, Unswapped DEF ReadFails, swap
  <2>6. CASE Dial
    <3>1. SetupTyped /\ SwapTyped /\ Handlers /\ SetUp /\ HotSwapReachesAll
      BY TypeParts DEF Swap
    <3>2. PICK t \in Tunnels : server' = [server EXCEPT ![t] = "choose"] /\ link[t] = "new"
      BY <2>6 DEF Dial
    <3>3. server[t] = "off"
      BY <3>2 DEF Swap, Undialled
    <3> QED
      BY <2>6, <3>1, <3>2, <3>3, SideFacts
      DEF Dial, SetupTyped, SwapTyped, Handlers, SetUp, HotSwapReachesAll, swap
  <2> QED
    BY <2>1, <2>2, <2>3, <2>4, <2>5, <2>6, Steps, Unswapped, ServerSwap, AgentSwap
<1> QED
  BY <1>1, <1>2 DEF Swap

(* However often the handler is replaced while tunnels are set up, one     *)
(* that is set up has the newest, unless AddHandler has gone past it       *)
(* between its double check and its adoption of an older one.              *)
THEOREM SwapReachesAll == Spec => []HotSwapReachesAll
<1>1. Swap => HotSwapReachesAll
  BY DEF Swap
<1> QED
  BY <1>1, InitSwap, SwapStep, PTL DEF Spec

-----------------------------------------------------------------------------
(* What may happen to the messages of a tunnel.                            *)

(* Each connect and data message of q1 is one of q, in the same order, and *)
(* no two of them are the same: a message was read, some were lost, a      *)
(* close was added.                                                        *)
Carries(q1, q) ==
  \E d \in Nat : \A p \in 1..Len(q1) :
    q1[p].type # "close" => p + d \in 1..Len(q) /\ q1[p] = q[p + d]

AllCarried(w1, w) == \A s \in Sides, t \in Tunnels : Carries(w1[s][t], w[s][t])

(* Nothing happens to the messages.                                        *)
LEMMA CarriesSame ==
  ASSUME NEW q \in Seq(Messages)
  PROVE  Carries(q, q)
<1>1. \A p \in 1..Len(q) : p + 0 \in 1..Len(q) /\ q[p] = q[p + 0]
  OBVIOUS
<1> QED
  BY <1>1 DEF Carries

(* The last messages are lost.                                             *)
LEMMA CarriesPrefix ==
  ASSUME NEW q \in Seq(Messages), NEW q1 \in Prefixes(q)
  PROVE  Carries(q1, q)
<1>1. PICK n \in 0..Len(q) : q1 = SubSeq(q, 1, n)
  BY DEF Prefixes
<1>2. Len(q1) = n /\ \A p \in 1..n : q1[p] = q[p]
  BY <1>1, SubSeqProperties
<1>3. \A p \in 1..Len(q1) : p + 0 \in 1..Len(q) /\ q1[p] = q[p + 0]
  BY <1>2
<1> QED
  BY <1>3 DEF Carries

(* The first message is read.                                              *)
LEMMA CarriesTail ==
  ASSUME NEW q \in Seq(Messages), q # <<>>
  PROVE  Carries(Tail(q), q)
<1>1. Len(Tail(q)) = Len(q) - 1 /\ \A p \in 1..Len(Tail(q)) : Tail(q)[p] = q[p + 1]
  BY HeadTailProperties
<1>2. \A p \in 1..Len(Tail(q)) : p + 1 \in 1..Len(q) /\ Tail(q)[p] = q[p + 1]
  BY <1>1
<1> QED
  BY <1>2 DEF Carries

(* All messages are lost.                                                  *)
LEMMA CarriesNone ==
  ASSUME NEW q \in Seq(Messages)
  PROVE  Carries(<<>>, q)
<1>1. \A p \in 1..Len(<<>>) : FALSE
  OBVIOUS
<1> QED
  BY <1>1 DEF Carries

(* A close is added after what was carried.                                *)
LEMMA CarriesClose ==
  ASSUME NEW q \in Seq(Messages), NEW q1 \in Seq(Messages), Carries(q1, q),
         NEW m \in Messages, m.type = "close"
  PROVE  Carries(Append(q1, m), q)
<1>1. PICK d \in Nat : \A p \in 1..Len(q1) :
        q1[p].type # "close" => p + d \in 1..Len(q) /\ q1[p] = q[p + d]
  BY DEF Carries
<1>2. \A p \in 1..Len(Append(q1, m)) : p \in 1..Len(q1) \/ Append(q1, m)[p] = m
  BY AppendProperties
<1>3. \A p \in 1..Len(q1) : Append(q1, m)[p] = q1[p]
  BY AppendProperties
<1>4. \A p \in 1..Len(Append(q1, m)) : Append(q1, m)[p].type # "close" =>
        p + d \in 1..Len(q) /\ Append(q1, m)[p] = q[p + d]
  BY <1>1, <1>2, <1>3
<1> QED
  BY <1>4 DEF Carries

(* No tunnel changes.                                                      *)
LEMMA AllCarriedSame ==
  ASSUME NEW w \in Wires
  PROVE  AllCarried(w, w)
  BY CarriesSame DEF AllCarried, Wires

(* One tunnel is read.                                                     *)
LEMMA CarriedTail ==
  ASSUME NEW w \in Wires, NEW s \in Sides, NEW t \in Tunnels, w[s][t] # <<>>
  PROVE  AllCarried([w EXCEPT ![s][t] = Tail(@)], w)
  BY CarriesSame, CarriesTail DEF AllCarried, Wires

(* A close is added to one tunnel.                                         *)
LEMMA CarriedClose ==
  ASSUME NEW w \in Wires, NEW w1 \in Wires, AllCarried(w1, w), NEW s \in Sides, NEW t,
         NEW m \in Messages, m.type = "close"
  PROVE  AllCarried([w1 EXCEPT ![s][t] = Append(@, m)], w)
<1>1. CASE t \in Tunnels
  BY <1>1, CarriesClose DEF AllCarried, Wires
<1>2. CASE t \notin Tunnels
  BY <1>2 DEF AllCarried, Wires
<1> QED
  BY <1>1, <1>2

(* A close is put on the tunnel of its connection.                         *)
LEMMA CarriedPut ==
  ASSUME NEW w \in Wires, NEW w1 \in Wires, AllCarried(w1, w), NEW s \in Sides, NEW k \in Conns
  PROVE  AllCarried(Put(w1, s, k, Message("close", k, 0)), w)
<1>1. Message("close", k, 0) \in Messages /\ Message("close", k, 0).type = "close"
  BY MessageType DEF Message
<1>2. \A t : AllCarried([w1 EXCEPT ![s][t] = Append(@, Message("close", k, 0))], w)
  BY <1>1, CarriedClose
<1> QED
  BY <1>2 DEF Put

(* Closing a connection adds at most its close.                            *)
LEMMA CarriedCloseConn ==
  ASSUME NEW w \in Wires, NEW w1 \in Wires, AllCarried(w1, w), NEW s \in Sides, NEW k \in Conns,
         NEW c, CloseConn(s, k, w1, c)
  PROVE  AllCarried(wire', w)
  BY CarriedPut DEF CloseConn

(* Only a pump that sends adds a connect or data message.                  *)
LEMMA Carried ==
  ASSUME TypeOK, [Next]_vars
  PROVE  \/ AllCarried(wire', wire)
         \/ \E s \in Sides, k \in Conns : Send(s, k)
<1>0. wire \in Wires /\ AllCarried(wire, wire)
  BY TypeParts, AllCarriedSame
<1>1. UNCHANGED wire => AllCarried(wire', wire)
  BY <1>0
<1>2. CASE UNCHANGED vars
  BY <1>1, <1>2 DEF vars, net
<1>3. ASSUME NEW s \in Sides, NEW k \in Conns, PumpStep(s, k), ~Send(s, k)
      PROVE  AllCarried(wire', wire)
  <2>1. CASE EndPump(s, k)
    BY <1>0, <2>1, CarriedCloseConn DEF EndPump
  <2>2. CASE ~EndPump(s, k)
    BY <1>1, <1>3, <2>2
    DEF PumpStep, ReadEnds, Deliver, ReadData, DeliveryFails, OutsideCloses, net
  <2> QED
    BY <2>1, <2>2
<1>4. ASSUME NEW k \in Conns, Accept(k) \/ ReadPanics(k)
      PROVE  AllCarried(wire', wire)
  BY <1>1, <1>4 DEF Accept, ReadPanics, net
<1>5. ASSUME NEW l \in Loops, Loop(l) \/ WritePanics(l)
      PROVE  AllCarried(wire', wire)
  <2>0. Reading(l) /\ Pending(l) # <<>> => AllCarried(Rest(l), wire) /\ Rest(l) \in Wires
    BY <1>0, LoopReads, SideFacts, CarriedTail DEF Rest, Pending
  <2>1. CASE ReceiveData(l)
    BY <2>0, <2>1 DEF ReceiveData
  <2>2. CASE Write(l)
    <3>1. hand[l].conn \in Conns /\ SideOf(l) \in Sides
      BY <2>2, SideFacts, TypeParts DEF Write, RestTyped
    <3>2. UNCHANGED wire \/ CloseConn(SideOf(l), hand[l].conn, wire, end[SideOf(l)][hand[l].conn])
      BY <2>2 DEF Write, Enqueue
    <3> QED
      BY <1>0, <1>1, <3>1, <3>2, CarriedCloseConn
  <2>3. CASE ReceiveClose(l)
    <3> DEFINE k == Head(Pending(l)).conn
    <3>1. k \in Conns /\ SideOf(l) \in Sides /\ AllCarried(Rest(l), wire) /\ Rest(l) \in Wires
      BY <2>0, <2>3, LoopReads, SideFacts DEF ReceiveClose
    <3>2. wire' = Rest(l) \/ CloseConn(SideOf(l), k, Rest(l), end[SideOf(l)][k])
      BY <2>3 DEF ReceiveClose
    <3> QED
      BY <1>0, <3>1, <3>2, CarriedCloseConn
  <2>4. CASE WritePanics(l)
    BY <1>1, <2>4 DEF WritePanics, net
  <2> QED
    BY <1>5, <2>1, <2>2, <2>3, <2>4 DEF Loop
<1>6. CASE ReadFails \/ Dial
  BY <1>1, <1>6 DEF ReadFails, Dial
<1>7. ASSUME NEW t \in Tunnels, ServerStep(t)
      PROVE  AllCarried(wire', wire)
  <2>1. CASE ReceiveConnect(t)
    <3> DEFINE k == Head(Pending(t)).conn
               x == sender[current[t]]
    <3>1. t \in Loops /\ SideOf(t) = "exit" /\ Source(t) = t
      BY SideFacts DEF SideOf, Source
    <3>2. k \in Conns /\ AllCarried(Rest(t), wire) /\ Rest(t) \in Wires
      BY <1>0, <2>1, <3>1, LoopReads, SideFacts, CarriedTail DEF ReceiveConnect, Rest, Pending
    <3>3. Message("close", k, 0) \in Messages /\ Message("close", k, 0).type = "close"
      BY <3>2, MessageType DEF Message
    <3>4. wire' = Rest(t) \/ wire' = [Rest(t) EXCEPT !["exit"][x] = Append(@, Message("close", k, 0))]
      BY <2>1 DEF ReceiveConnect
    <3>5. AllCarried([Rest(t) EXCEPT !["exit"][x] = Append(@, Message("close", k, 0))], wire)
      BY <1>0, <3>2, <3>3, CarriedClose DEF Sides
    <3> QED
      BY <3>2, <3>4, <3>5
  <2>2. CASE Lose(t)
    <3>1. PICK p \in Prefixes(wire["entry"][t]), q \in Prefixes(wire["exit"][t]) :
            wire' = [wire EXCEPT !["entry"][t] = p, !["exit"][t] = q]
      BY <2>2 DEF Lose
    <3>2. Carries(p, wire["entry"][t]) /\ Carries(q, wire["exit"][t])
      BY <1>0, CarriesPrefix DEF Wires, Sides
    <3> QED
      BY <1>0, <3>1, <3>2 DEF AllCarried, Wires, Sides
  <2>3. CASE GiveUp(t)
    <3>1. Carries(<<>>, wire["entry"][t])
      BY <1>0, CarriesNone DEF Wires, Sides
    <3> QED
      BY <1>0, <2>3, <3>1 DEF GiveUp, AllCarried, Wires, Sides
  <2>4. CASE Choose(t) \/ Register(t) \/ Recheck(t) \/ Adopt(t) \/ SetSender(t) \/ Disconnect(t)
    BY <1>1, <2>4 DEF Choose, Register, Recheck, Adopt, SetSender, Disconnect, net
  <2> QED
    BY <1>7, <2>1, <2>2, <2>3, <2>4 DEF ServerStep
<1>8. ASSUME NEW x \in Exits, Agent(x) \/ Stop(x)
      PROVE  AllCarried(wire', wire)
  BY <1>1, <1>8 DEF Agent, Publish, Notify, Rewire, Start, Stop, StopReturns, net
<1> QED
  BY <1>2, <1>3, <1>4, <1>5, <1>6, <1>7, <1>8, Steps

-----------------------------------------------------------------------------
(* What may happen to an end.                                              *)

(* Nothing new is read or delivered, and the end is no more alive than     *)
(* before: this is all that most steps do to it.                           *)
Wanes(c2, c) ==
  /\ c2.got = c.got /\ c2.read = c.read
  /\ \/ c2.queue = c.queue
     \/ c2.state # "open" /\ (c2.queue = <<>> \/ (c.queue # <<>> /\ c2.queue = Tail(c.queue)))
  /\ c2.held => c.held
  /\ c2.state \in {"open", "failed"} /\ c.held => c2.held
  /\ c2.state # c.state => \/ c.state = "open" /\ c2.state = "failed"
                           \/ c.state # "none" /\ c2.state = "closed"
  /\ c2.pump # c.pump => \/ c.pump = "read" /\ c2.pump = "closing"
                         \/ c.pump = "closing" /\ c2.pump = "done"

AllWane == \A s \in Sides, k \in Conns : Wanes(end'[s][k], end[s][k])

(* Nothing happens to the end.                                             *)
LEMMA WanesSame == \A c : Wanes(c, c)
  BY DEF Wanes

(* Closing an end lets it wane.                                            *)
LEMMA ShutWanes ==
  ASSUME NEW s \in Sides, NEW c \in EndOf(s)
  PROVE  Wanes(Shut(c), c) /\ Wanes([Shut(c) EXCEPT !.held = FALSE], c)
  BY DEF EndOf, Ends, Shut, Wanes

(* One end wanes, the others stay.                                         *)
LEMMA OneWanes ==
  ASSUME EndsTyped, NEW s \in Sides, NEW k \in Conns, NEW c, Wanes(c, end[s][k]),
         end' = [end EXCEPT ![s][k] = c]
  PROVE  AllWane
  BY WanesSame DEF EndsTyped, AllWane

(* Taking a connection out of the map lets its end wane.                   *)
LEMMA CloseConnWanes ==
  ASSUME EndsTyped, NEW s \in Sides, NEW k \in Conns, NEW w, CloseConn(s, k, w, end[s][k])
  PROVE  AllWane
<1>1. end[s][k] \in EndOf(s)
  BY DEF EndsTyped
<1>2. Wanes(IF end[s][k].held THEN [Shut(end[s][k]) EXCEPT !.held = FALSE] ELSE end[s][k], end[s][k])
  BY <1>1, ShutWanes, WanesSame
<1> QED
  BY <1>2, OneWanes DEF CloseConn

(* ShutAll changes the exit's ends only, those of its forwarder.           *)
LEMMA ShutAllEnds ==
  ASSUME EndsTyped, NEW x
  PROVE  /\ ShutAll(x) = [end EXCEPT !["exit"] = ShutAll(x)["exit"]]
         /\ \A k \in Conns : ShutAll(x)["exit"][k] =
              IF end["exit"][k].held /\ owner[k] = x THEN Shut(end["exit"][k]) ELSE end["exit"][k]
         /\ ShutAll(x)["entry"] = end["entry"]
  BY DEF ShutAll, EndsTyped, Sides

(* Closing every connection of a forwarder lets them wane.                 *)
LEMMA ShutAllWanes ==
  ASSUME EndsTyped, NEW x, end' = ShutAll(x)
  PROVE  AllWane
<1>1. \A k \in Conns : Wanes(end'["exit"][k], end["exit"][k])
  <2> TAKE k \in Conns
  <2>1. end["exit"][k] \in EndOf("exit")
    BY DEF EndsTyped, Sides
  <2> QED
    BY <2>1, ShutAllEnds, ShutWanes, WanesSame DEF Sides
<1>2. \A k \in Conns : Wanes(end'["entry"][k], end["entry"][k])
  BY ShutAllEnds, WanesSame
<1> QED
  BY <1>1, <1>2 DEF AllWane, Sides

(* Stopping a forwarder lets its ends wane.                                *)
LEMMA StopWanes ==
  ASSUME EndsTyped, NEW x \in Exits, Stop(x)
  PROVE  AllWane
<1>1. \A k \in Conns : Wanes(end'["exit"][k], end["exit"][k])
  <2> TAKE k \in Conns
  <2> DEFINE c == end["exit"][k]
  <2>1. c \in EndOf("exit")
    BY DEF EndsTyped, Sides
  <2>2. end'["exit"][k] =
          IF owner[k] = x THEN [ShutAll(x)["exit"][k] EXCEPT !.held = FALSE] ELSE ShutAll(x)["exit"][k]
    BY ShutAllEnds DEF Stop, EndsTyped, Sides
  <2>3. CASE owner[k] # x
    BY <2>2, <2>3, ShutAllEnds, WanesSame
  <2>4. CASE owner[k] = x /\ c.held
    BY <2>1, <2>2, <2>4, ShutAllEnds, ShutWanes DEF Sides
  <2>5. CASE owner[k] = x /\ ~c.held
    <3>1. end'["exit"][k] = [c EXCEPT !.held = FALSE]
      BY <2>2, <2>5, ShutAllEnds
    <3>2. [c EXCEPT !.held = FALSE] = c
      BY <2>1, <2>5 DEF EndOf, Ends
    <3> QED
      BY <3>1, <3>2, WanesSame
  <2> QED
    BY <2>3, <2>4, <2>5
<1>2. \A k \in Conns : Wanes(end'["entry"][k], end["entry"][k])
  <2>1. end'["entry"] = end["entry"]
    BY ShutAllEnds DEF Stop, EndsTyped, Sides
  <2> QED
    BY <2>1, WanesSame
<1> QED
  BY <1>1, <1>2 DEF AllWane, Sides

(* The steps by what they do to the streams.  Most of them only lose.      *)
Fades ==
  /\ AllWane /\ UNCHANGED owner
  /\ \A l \in Loops : hand'[l] \in {hand[l], None}

Enqueued(l) ==
  LET k == hand[l].conn
      c == end[SideOf(l)][k]
  IN /\ hand[l] # None /\ c.state \in {"open", "failed"} /\ Len(c.queue) < Capacity
     /\ end' = [end EXCEPT ![SideOf(l)][k] = Queued(c, hand[l].item)]
     /\ hand' = [hand EXCEPT ![l] = None]
     /\ UNCHANGED <<wire, link, tunnel, setup, swap, owner, panic, faults>>

(* Every step is one of a few, or lets the streams fade.                   *)
LEMMA Kinds ==
  ASSUME TypeOK, [Next]_vars
  PROVE  \/ Fades /\ AllCarried(wire', wire)
         \/ \E s \in Sides, k \in Conns : Send(s, k) \/ ReadData(s, k) \/ Deliver(s, k)
         \/ \E k \in Conns : Accept(k)
         \/ \E l \in Loops : ReceiveData(l) \/ Enqueued(l)
         \/ \E t \in Tunnels : ReceiveConnect(t)
<1>0. EndsTyped /\ RestTyped
  BY TypeParts
<1>1. UNCHANGED <<end, owner, hand>> => Fades
  BY WanesSame DEF Fades, AllWane
<1>9. Fades => AllCarried(wire', wire) \/ \E s \in Sides, k \in Conns : Send(s, k)
  BY Carried
<1>2. CASE UNCHANGED vars
  BY <1>1, <1>2, <1>9 DEF vars
<1>3. ASSUME NEW s \in Sides, NEW k \in Conns, PumpStep(s, k),
             ~Send(s, k), ~ReadData(s, k), ~Deliver(s, k)
      PROVE  Fades
  <2> DEFINE c == end[s][k]
  <2>0. c \in EndOf(s)
    BY <1>0 DEF EndsTyped
  <2>1. UNCHANGED <<owner, hand>>
    BY <1>3 DEF PumpStep, ReadEnds, EndPump, DeliveryFails, OutsideCloses
  <2>2. CASE ReadEnds(s, k)
    <3>1. Wanes([c EXCEPT !.pump = "closing"], c)
      <4>1. c.pump = "read"
        BY <2>2 DEF ReadEnds
      <4> QED
        BY <2>0, <4>1 DEF Wanes, EndOf, Ends
    <3>2. end' = [end EXCEPT ![s][k] = [c EXCEPT !.pump = "closing"]]
      BY <2>2 DEF ReadEnds, PumpGoto
    <3> QED
      BY <1>0, <2>1, <3>1, <3>2, OneWanes DEF Fades
  <2>3. CASE EndPump(s, k)
    <3> DEFINE d == [c EXCEPT !.pump = "done"]
    <3>1. Wanes(IF d.held THEN [Shut(d) EXCEPT !.held = FALSE] ELSE d, c)
      BY <2>0, <2>3 DEF EndPump, Wanes, EndOf, Ends, Shut
    <3>2. end' = [end EXCEPT ![s][k] = IF d.held THEN [Shut(d) EXCEPT !.held = FALSE] ELSE d]
      BY <2>3 DEF EndPump, CloseConn
    <3> QED
      BY <1>0, <2>1, <3>1, <3>2, OneWanes DEF Fades
  <2>4. CASE DeliveryFails(s, k)
    <3>1. Wanes([c EXCEPT !.queue = Tail(@), !.state = "failed"], c)
      <4>1. c.state = "open" /\ c.queue # <<>>
        BY <2>4 DEF DeliveryFails
      <4> QED
        BY <2>0, <4>1 DEF Wanes, EndOf, Ends
    <3> QED
      BY <1>0, <2>1, <2>4, <3>1, OneWanes DEF Fades, DeliveryFails
  <2>5. CASE OutsideCloses(s, k)
    <3>1. Wanes([c EXCEPT !.peer = "closed"], c)
      BY <2>0 DEF Wanes, EndOf, Ends
    <3>2. end' = [end EXCEPT ![s][k] = [c EXCEPT !.peer = "closed"]]
      BY <2>5 DEF OutsideCloses
    <3> QED
      BY <1>0, <2>1, <3>1, <3>2, OneWanes DEF Fades
  <2> QED
    BY <1>3, <2>2, <2>3, <2>4, <2>5 DEF PumpStep
<1>4. ASSUME NEW k \in Conns, ReadPanics(k)
      PROVE  Fades
  BY <1>1, <1>4 DEF ReadPanics
<1>5. ASSUME NEW l \in Loops, Loop(l) \/ WritePanics(l), ~ReceiveData(l), ~Enqueued(l)
      PROVE  Fades
  <2>0. SideOf(l) \in Sides
    BY SideFacts
  <2>1. CASE Write(l)
    <3> DEFINE k == hand[l].conn
    <3>1. k \in Conns
      BY <1>0, <2>1 DEF Write, RestTyped
    <3>2. CloseConn(SideOf(l), k, wire, end[SideOf(l)][k])
      BY <1>5, <2>1 DEF Write, Enqueue, Enqueued
    <3>3. UNCHANGED owner /\ \A m \in Loops : hand'[m] \in {hand[m], None}
      BY <1>0, <2>1 DEF Write, RestTyped
    <3> QED
      BY <1>0, <2>0, <3>1, <3>2, <3>3, CloseConnWanes DEF Fades
  <2>2. CASE ReceiveClose(l)
    <3> DEFINE k == Head(Pending(l)).conn
    <3>1. k \in Conns
      BY <2>2, LoopReads DEF ReceiveClose
    <3>2. UNCHANGED end \/ CloseConn(SideOf(l), k, Rest(l), end[SideOf(l)][k])
      BY <2>2 DEF ReceiveClose
    <3>3. UNCHANGED <<owner, hand>>
      BY <2>2 DEF ReceiveClose
    <3> QED
      BY <1>0, <1>1, <2>0, <3>1, <3>2, <3>3, CloseConnWanes DEF Fades
  <2>3. CASE WritePanics(l)
    BY <1>1, <2>3 DEF WritePanics
  <2> QED
    BY <1>5, <2>1, <2>2, <2>3 DEF Loop
<1>6. CASE ReadFails \/ Dial
  <2>1. UNCHANGED <<end, owner, hand>>
    BY <1>6 DEF ReadFails, Dial
  <2> QED
    BY <1>1, <1>9, <2>1
<1>7. ASSUME NEW t \in Tunnels, ServerStep(t), ~ReceiveConnect(t)
      PROVE  Fades
  <2>1. CASE Disconnect(t)
    <3>1. UNCHANGED <<owner, hand>> /\ end' = ShutAll(captured[t])
      BY <2>1 DEF Disconnect
    <3> QED
      BY <1>0, <3>1, ShutAllWanes DEF Fades
  <2>2. CASE ~Disconnect(t)
    <3>1. UNCHANGED <<end, owner, hand>>
      BY <1>7, <2>2 DEF ServerStep, Choose, Register, Recheck, Adopt, SetSender, Lose, GiveUp
    <3> QED
      BY <1>1, <3>1
  <2> QED
    BY <2>1, <2>2
<1>8. ASSUME NEW x \in Exits, Agent(x) \/ Stop(x)
      PROVE  Fades
  <2>1. CASE Stop(x)
    BY <1>0, <2>1, StopWanes DEF Fades, Stop
  <2>2. CASE Notify(x)
    <3>1. UNCHANGED <<owner, hand>> /\ end' = ShutAll(x - 1)
      BY <2>2 DEF Notify
    <3> QED
      BY <1>0, <3>1, ShutAllWanes DEF Fades
  <2>3. CASE Publish(x) \/ Rewire(x) \/ Start(x) \/ StopReturns(x)
    BY <1>1, <2>3 DEF Publish, Rewire, Start, StopReturns
  <2> QED
    BY <1>8, <2>1, <2>2, <2>3 DEF Agent
<1> QED
  BY <1>2, <1>3, <1>4, <1>5, <1>6, <1>7, <1>8, <1>9, Steps

-----------------------------------------------------------------------------
(* A connection is connected once.                                         *)

Untouched(c) == /\ ~c.held /\ c.state = "none" /\ c.pump = "off"
                /\ c.queue = <<>> /\ c.got = <<>> /\ c.read = 0

(* An exit forwarder has a connection from its Connect on.                 *)
Owned ==
  \A k \in Conns :
    LET c == end["entry"][k] IN
    /\ owner[k] = None => Untouched(end["exit"][k])
    /\ c.pump = "off" => Untouched(c)
    /\ c.pump \in {"off", "connect"} => owner[k] = None /\ c.read = 0

ConnectAt(t, p, k) ==
  LET q == wire["entry"][t] IN p \in 1..Len(q) /\ q[p].type = "connect" /\ q[p].conn = k

ConnectOnce ==
  \A k \in Conns, t \in Tunnels, p \in Nat : ConnectAt(t, p, k) =>
    /\ end["entry"][k].pump \notin {"off", "connect"} /\ owner[k] = None
    /\ \A u \in Tunnels, r \in Nat : ConnectAt(u, r, k) => u = t /\ r = p

(* What is taken out of the map is closed in the same step.                *)
HeldWhileOpen ==
  \A s \in Sides, k \in Conns : end[s][k].state \in {"open", "failed"} => end[s][k].held

Connects == Owned /\ ConnectOnce /\ HeldWhileOpen

(* What was not begun does not begin by waning.                            *)
LEMMA UntouchedWanes ==
  ASSUME NEW c, NEW c2, Untouched(c), Wanes(c2, c)
  PROVE  Untouched(c2)
  BY DEF Untouched, Wanes

(* A read loop takes a message off its tunnel.                             *)
LEMMA RestCarried ==
  ASSUME TypeOK, NEW l \in Loops, Reading(l), Pending(l) # <<>>
  PROVE  AllCarried(Rest(l), wire)
  BY TypeParts, LoopReads, SideFacts, CarriedTail DEF Rest, Pending

(* A Connect that is still there was there before, at the same distance    *)
(* from the others.                                                        *)
LEMMA ConnectCarried ==
  ASSUME NEW t \in Tunnels, Carries(wire'["entry"][t], wire["entry"][t])
  PROVE  \E d \in Nat : \A p \in Nat, k \in Conns : ConnectAt(t, p, k)' => ConnectAt(t, p + d, k)
<1>1. PICK d \in Nat : \A p \in 1..Len(wire'["entry"][t]) :
        wire'["entry"][t][p].type # "close" =>
          p + d \in 1..Len(wire["entry"][t]) /\ wire'["entry"][t][p] = wire["entry"][t][p + d]
  BY DEF Carries
<1>2. \A p \in Nat, k \in Conns : ConnectAt(t, p, k)' => ConnectAt(t, p + d, k)
  BY <1>1 DEF ConnectAt
<1> QED
  BY <1>2

(* No Connect is added, and what has been connected stays so.              *)
LEMMA OnceKept ==
  ASSUME ConnectOnce,
         \A t \in Tunnels : \E d \in Nat : \A p \in Nat, k \in Conns :
           ConnectAt(t, p, k)' => ConnectAt(t, p + d, k),
         \A k \in Conns : end["entry"][k].pump \notin {"off", "connect"} /\ owner[k] = None =>
           end'["entry"][k].pump \notin {"off", "connect"} /\ owner'[k] = None
  PROVE  ConnectOnce'
<1> SUFFICES ASSUME NEW k \in Conns, NEW t \in Tunnels, NEW p \in Nat, ConnectAt(t, p, k)'
             PROVE  /\ end'["entry"][k].pump \notin {"off", "connect"} /\ owner'[k] = None
                    /\ \A u \in Tunnels, r \in Nat : ConnectAt(u, r, k)' => u = t /\ r = p
  BY DEF ConnectOnce
<1>1. PICK d \in Nat : \A r \in Nat, j \in Conns : ConnectAt(t, r, j)' => ConnectAt(t, r + d, j)
  OBVIOUS
<1>2. ConnectAt(t, p + d, k)
  BY <1>1
<1>3. ASSUME NEW u \in Tunnels, NEW r \in Nat, ConnectAt(u, r, k)'
      PROVE  u = t /\ r = p
  <2>1. PICK e \in Nat : ConnectAt(u, r + e, k)
    BY <1>3
  <2>2. u = t
    BY <1>2, <2>1 DEF ConnectOnce
  <2>3. ConnectAt(t, r + d, k)
    BY <1>1, <1>3, <2>2
  <2>4. r + d = p + d
    BY <1>2, <2>3 DEF ConnectOnce
  <2> QED
    BY <2>2, <2>4
<1> QED
  BY <1>2, <1>3 DEF ConnectOnce

(* At the beginning nothing is connected.                                  *)
LEMMA InitConnects == Init => Connects
<1> SUFFICES ASSUME Init PROVE Connects
  OBVIOUS
<1>1. Owned /\ HeldWhileOpen
  BY DEF Init, Owned, HeldWhileOpen, Untouched, Sides
<1>2. \A t \in Tunnels, p \in Nat, k \in Conns : ~ConnectAt(t, p, k)
  <2>1. \A t \in Tunnels : wire["entry"][t] = <<>>
    BY DEF Init, Sides
  <2>2. \A p \in 1..Len(<<>>) : FALSE
    OBVIOUS
  <2> QED
    BY <2>1, <2>2 DEF ConnectAt
<1> QED
  BY <1>1, <1>2 DEF Connects, ConnectOnce

(* Fading connects nothing.                                                *)
LEMMA FadesConnects ==
  ASSUME TypeOK, Connects, Fades, AllCarried(wire', wire)
  PROVE  Connects'
<1>1. Owned'
  <2> SUFFICES ASSUME NEW k \in Conns
               PROVE  LET c == end'["entry"][k] IN
                      /\ owner'[k] = None => Untouched(end'["exit"][k])
                      /\ c.pump = "off" => Untouched(c)
                      /\ c.pump \in {"off", "connect"} => owner'[k] = None /\ c.read = 0
    BY DEF Owned
  <2>1. /\ Wanes(end'["entry"][k], end["entry"][k]) /\ Wanes(end'["exit"][k], end["exit"][k])
        /\ owner'[k] = owner[k]
    BY DEF Fades, AllWane, Sides
  <2>2. owner'[k] = None => Untouched(end'["exit"][k])
    BY <2>1, UntouchedWanes DEF Connects, Owned
  <2>3. end'["entry"][k].pump = "off" => Untouched(end'["entry"][k])
    BY <2>1, UntouchedWanes DEF Connects, Owned, Wanes
  <2>4. end'["entry"][k].pump \in {"off", "connect"} => owner'[k] = None /\ end'["entry"][k].read = 0
    BY <2>1 DEF Connects, Owned, Wanes
  <2> QED
    BY <2>2, <2>3, <2>4
<1>2. ConnectOnce'
  <2>1. \A t \in Tunnels : Carries(wire'["entry"][t], wire["entry"][t])
    BY DEF AllCarried, Sides
  <2>2. \A k \in Conns : Wanes(end'["entry"][k], end["entry"][k]) /\ owner'[k] = owner[k]
    BY DEF Fades, AllWane, Sides
  <2>3. \A k \in Conns : end["entry"][k].pump \notin {"off", "connect"} /\ owner[k] = None =>
           end'["entry"][k].pump \notin {"off", "connect"} /\ owner'[k] = None
    BY <2>2 DEF Wanes
  <2> QED
    BY <2>1, <2>3, ConnectCarried, OnceKept DEF Connects
<1>3. HeldWhileOpen'
  BY DEF Connects, HeldWhileOpen, Fades, AllWane, Wanes
<1> QED
  BY <1>1, <1>2, <1>3 DEF Connects

(* What Send changes: the pump's end and the tunnel it writes to.          *)
LEMMA SendFacts ==
  ASSUME TypeOK, NEW s \in Sides, NEW k \in Conns, Send(s, k)
  PROVE  LET c == end[s][k]
             m == IF c.pump = "connect" THEN Message("connect", k, 0) ELSE Message("data", k, c.read)
         IN /\ c \in EndOf(s) /\ c.pump \in {"connect", "send"} /\ m \in Messages
            /\ end' \in [Sides -> [Conns -> Ends]]
            /\ \E l \in {"read", "closing"} : end' = [end EXCEPT ![s][k] = [c EXCEPT !.pump = l]]
            /\ wire' = wire \/ wire' = [wire EXCEPT ![s][Route(s, k)] = Append(@, m)]
            /\ UNCHANGED <<link, tunnel, setup, swap, owner, hand, panic, faults>>
<1>1. EndsTyped /\ end[s][k] \in EndOf(s) /\ EndsTyped'
  BY TypeParts, PumpType, TypeStep DEF EndsTyped, PumpStep, TypeOK, EndOf
<1>2. end[s][k].read \in Nat
  BY <1>1 DEF EndOf, Ends
<1>3. Message("connect", k, 0) \in Messages /\ Message("data", k, end[s][k].read) \in Messages
  BY <1>2, MessageType
<1>4. \E l \in {"read", "closing"} : end' = [end EXCEPT ![s][k].pump = l]
  BY DEF Send, PumpGoto
<1> QED
  BY <1>1, <1>3, <1>4 DEF Send, EndsTyped, Put

(* The only Connect of a connection is sent when its pump starts.          *)
LEMMA SendConnects ==
  ASSUME TypeOK, Connects, NEW s \in Sides, NEW k \in Conns, Send(s, k)
  PROVE  Connects'
<1> DEFINE c == end[s][k]
           m == IF c.pump = "connect" THEN Message("connect", k, 0) ELSE Message("data", k, c.read)
           t == Route(s, k)
<1>0. /\ EndsTyped /\ wire \in Wires /\ c \in EndOf(s) /\ c.pump \in {"connect", "send"}
      /\ m \in Messages /\ UNCHANGED owner
      /\ wire' = wire \/ wire' = [wire EXCEPT ![s][t] = Append(wire[s][t], m)]
  BY TypeParts, SendFacts
<1>1. PICK l \in {"read", "closing"} : end' = [end EXCEPT ![s][k] = [c EXCEPT !.pump = l]]
  BY SendFacts
<1>2. \A r \in Sides, j \in Conns :
        IF r = s /\ j = k THEN /\ end'[r][j].pump = l
                               /\ end'[r][j].held = c.held /\ end'[r][j].state = c.state
                          ELSE end'[r][j] = end[r][j]
  BY <1>0, <1>1 DEF EndsTyped, EndOf, Ends
<1>3. Owned'
  BY <1>0, <1>1, <1>2 DEF Connects, Owned, Untouched, Sides
<1>4. HeldWhileOpen'
  BY <1>2 DEF Connects, HeldWhileOpen
<1>5. ConnectOnce'
  <2>0. \A j \in Conns : end["entry"][j].pump \notin {"off", "connect"} /\ owner[j] = None =>
          end'["entry"][j].pump \notin {"off", "connect"} /\ owner'[j] = None
    BY <1>0, <1>1, <1>2 DEF Sides
  <2>1. CASE wire'["entry"] = wire["entry"]
    <3>1. \A u \in Tunnels, p \in Nat, j \in Conns : ConnectAt(u, p, j)' => ConnectAt(u, p + 0, j)
      BY <2>1 DEF ConnectAt
    <3> QED
      BY <2>0, <3>1, OnceKept DEF Connects
  <2>2. CASE wire'["entry"] # wire["entry"]
    <3>1. s = "entry" /\ wire' = [wire EXCEPT !["entry"][t] = Append(wire["entry"][t], m)] /\ t \in Tunnels
      BY <1>0, <2>2 DEF Wires, Sides
    <3> DEFINE q == wire["entry"][t]
    <3>2. /\ q \in Seq(Messages) /\ wire'["entry"][t] = Append(q, m)
          /\ \A u \in Tunnels : u # t => wire'["entry"][u] = wire["entry"][u]
      BY <1>0, <3>1 DEF Wires, Sides
    <3>3. /\ Len(Append(q, m)) = Len(q) + 1 /\ Append(q, m)[Len(q) + 1] = m
          /\ \A p \in 1..Len(q) : Append(q, m)[p] = q[p]
      BY <1>0, <3>2, AppendProperties
    <3>4. \A u \in Tunnels, p \in Nat, j \in Conns :
            ConnectAt(u, p, j)' => \/ ConnectAt(u, p, j)
                                   \/ u = t /\ p = Len(q) + 1 /\ m.type = "connect" /\ m.conn = j
      <4> TAKE u \in Tunnels, p \in Nat, j \in Conns
      <4>1. CASE u # t
        BY <3>2, <4>1 DEF ConnectAt
      <4>2. CASE u = t
        <5>1. p \in 1..(Len(q) + 1) => p \in 1..Len(q) \/ p = Len(q) + 1
          BY <3>2
        <5> QED
          BY <3>2, <3>3, <4>2, <5>1 DEF ConnectAt
      <4> QED
        BY <4>1, <4>2
    <3>5. m.conn = k /\ (m.type = "connect" => c.pump = "connect")
      BY DEF Message
    <3>6. CASE c.pump = "connect"
      <4>1. \A u \in Tunnels, p \in Nat : ~ConnectAt(u, p, k)
        BY <3>1, <3>6 DEF Connects, ConnectOnce
      <4>2. owner'[k] = None /\ end'["entry"][k].pump \notin {"off", "connect"}
        BY <1>0, <1>2, <3>1, <3>6 DEF Connects, Owned, Sides
      <4> DEFINE e == Len(q) + 1
      <4>3. ASSUME NEW u \in Tunnels, NEW p \in Nat, NEW j \in Conns, ConnectAt(u, p, j)'
            PROVE  IF j = k THEN u = t /\ p = e ELSE ConnectAt(u, p, j)
        BY <3>4, <3>5, <4>1, <4>3
      <4> HIDE DEF e
      <4> SUFFICES ASSUME NEW u \in Tunnels, NEW p \in Nat, NEW j \in Conns, ConnectAt(u, p, j)'
                   PROVE  /\ end'["entry"][j].pump \notin {"off", "connect"} /\ owner'[j] = None
                          /\ \A v \in Tunnels, r \in Nat : ConnectAt(v, r, j)' => v = u /\ r = p
        BY DEF ConnectOnce
      <4>4. CASE j = k
        BY <4>2, <4>3, <4>4
      <4>5. CASE j # k
        <5>1. /\ end["entry"][j].pump \notin {"off", "connect"} /\ owner[j] = None
              /\ \A v \in Tunnels, r \in Nat : ConnectAt(v, r, j) => v = u /\ r = p
          BY <4>3, <4>5 DEF Connects, ConnectOnce
        <5> QED
          BY <2>0, <4>3, <4>5, <5>1
      <4> QED
        BY <4>4, <4>5
    <3>7. CASE c.pump # "connect"
      <4>1. \A u \in Tunnels, p \in Nat, j \in Conns : ConnectAt(u, p, j)' => ConnectAt(u, p + 0, j)
        BY <3>4, <3>5, <3>7
      <4> QED
        BY <2>0, <4>1, OnceKept DEF Connects
    <3> QED
      BY <3>6, <3>7
  <2> QED
    BY <2>1, <2>2
<1> QED
  BY <1>3, <1>4, <1>5 DEF Connects

(* What else happens to an end, told by its fields.                        *)
LEMMA ReadDataFacts ==
  ASSUME EndsTyped, NEW s \in Sides, NEW k \in Conns, ReadData(s, k)
  PROVE  LET c == end[s][k] IN
         /\ end' = [end EXCEPT ![s][k] = [c EXCEPT !.pump = "send", !.read = @ + 1]]
         /\ c.pump = "read" /\ c.state # "closed" /\ c \in EndOf(s)
         /\ UNCHANGED <<net, setup, swap, owner, hand, panic, faults>>
  BY DEF ReadData, EndsTyped, Ends

(* What Accept changes: an end that was off.                               *)
LEMMA AcceptFacts ==
  ASSUME EndsTyped, NEW k \in Conns, Accept(k)
  PROVE  LET c == end["entry"][k] IN
         /\ end' = [end EXCEPT !["entry"][k] = [c EXCEPT !.pump = "connect", !.held = TRUE, !.state = "open"]]
         /\ c.pump = "off" /\ c \in EndOf("entry")
         /\ UNCHANGED <<net, setup, swap, owner, hand, panic, faults>>
  BY DEF Accept, EndsTyped, Ends, Sides

(* What ReceiveConnect changes: the first message and its owner.           *)
LEMMA ReceiveConnectFacts ==
  ASSUME TypeOK, NEW t \in Tunnels, ReceiveConnect(t)
  PROVE  LET k == Head(wire["entry"][t]).conn
             c == end["exit"][k]
         IN /\ k \in Conns /\ c \in EndOf("exit")
            /\ server[t] = "read" /\ hand[t] = None
            /\ wire["entry"][t] \in Seq(Messages) /\ wire["entry"][t] # <<>>
            /\ Head(wire["entry"][t]).type = "connect"
            /\ owner' = [owner EXCEPT ![k] = current[t]]
            /\ \/ UNCHANGED end
               \/ end' = [end EXCEPT !["exit"][k] = [c EXCEPT !.held = TRUE, !.state = "open", !.pump = "read"]]
            /\ wire'["entry"] = [wire["entry"] EXCEPT ![t] = Tail(wire["entry"][t])]
            /\ AllCarried(wire', wire)
            /\ UNCHANGED <<link, tunnel, setup, swap, hand, panic, faults>>
<1> DEFINE k == Head(wire["entry"][t]).conn
           c == end["exit"][k]
           x == sender[current[t]]
<1>1. t \in Loops /\ t # ClientLoop /\ SideOf(t) = "exit" /\ Source(t) = t /\ Pending(t) = wire["entry"][t]
  BY SideFacts DEF SideOf, Source, Pending, Other
<1>2. /\ Reading(t) /\ Pending(t) # <<>> /\ Head(Pending(t)).type = "connect"
      /\ UNCHANGED <<link, tunnel, setup, swap, hand, panic, faults>>
  BY DEF ReceiveConnect
<1>3. server[t] = "read" /\ hand[t] = None
  BY <1>1, <1>2 DEF Reading
<1>4. k \in Conns /\ wire["entry"][t] \in Seq(Messages) /\ Rest(t) \in Wires
  BY <1>1, <1>2, LoopReads
<1>5. EndsTyped /\ wire \in Wires /\ c \in EndOf("exit")
  BY <1>4, TypeParts DEF EndsTyped, Sides
<1>6. owner' = [owner EXCEPT ![k] = current[t]]
  BY <1>1 DEF ReceiveConnect
<1>7. \/ UNCHANGED end
      \/ end' = [end EXCEPT !["exit"][k] = [c EXCEPT !.held = TRUE, !.state = "open", !.pump = "read"]]
  <2>1. CASE end' = [end EXCEPT !["exit"][k].held = TRUE, !["exit"][k].state = "open", !["exit"][k].pump = "read"]
    BY <1>4, <1>5, <2>1 DEF EndsTyped, Ends, Sides
  <2> QED
    BY <1>1, <2>1 DEF ReceiveConnect
<1>8. wire' = Rest(t) \/ wire' = [Rest(t) EXCEPT !["exit"][x] = Append(@, Message("close", k, 0))]
  BY <1>1 DEF ReceiveConnect
<1>9. wire'["entry"] = [wire["entry"] EXCEPT ![t] = Tail(wire["entry"][t])]
  <2>1. Rest(t) = [wire EXCEPT !["entry"][t] = Tail(wire["entry"][t])]
    BY <1>1 DEF Rest, Other
  <2>2. Rest(t)["entry"] = [wire["entry"] EXCEPT ![t] = Tail(wire["entry"][t])]
    BY <1>5, <2>1 DEF Wires, Sides
  <2> QED
    BY <1>4, <1>8, <2>2 DEF Wires, Sides
<1>a. AllCarried(wire', wire)
  <2>1. AllCarried(Rest(t), wire)
    BY <1>1, <1>2, RestCarried
  <2>2. Message("close", k, 0) \in Messages /\ Message("close", k, 0).type = "close"
    BY <1>4, MessageType DEF Message
  <2>3. AllCarried([Rest(t) EXCEPT !["exit"][x] = Append(@, Message("close", k, 0))], wire)
    BY <1>4, <1>5, <2>1, <2>2, CarriedClose DEF Sides
  <2> QED
    BY <1>8, <2>1, <2>3
<1> QED
  BY <1>1, <1>2, <1>3, <1>4, <1>5, <1>6, <1>7, <1>9, <1>a

(* A step that leaves the life of every connection as it is.               *)
LEMMA SameLife ==
  ASSUME Owned, HeldWhileOpen, UNCHANGED owner, NEW s \in Sides, NEW k \in Conns,
         end[s][k].state # "none",
         \A r \in Sides, j \in Conns :
           IF r = s /\ j = k
             THEN /\ end'[r][j].pump = end[s][k].pump /\ end'[r][j].read = end[s][k].read
                  /\ end'[r][j].held = end[s][k].held /\ end'[r][j].state = end[s][k].state
             ELSE end'[r][j] = end[r][j]
  PROVE  Owned' /\ HeldWhileOpen'
<1>1. \A r \in Sides, j \in Conns :
        /\ end'[r][j].pump = end[r][j].pump /\ end'[r][j].read = end[r][j].read
        /\ end'[r][j].held = end[r][j].held /\ end'[r][j].state = end[r][j].state
  OBVIOUS
<1>2. \A r \in Sides, j \in Conns : Untouched(end[r][j]) => end'[r][j] = end[r][j]
  BY DEF Untouched
<1>3. HeldWhileOpen'
  BY <1>1 DEF HeldWhileOpen
<1>4. Owned'
  <2> SUFFICES ASSUME NEW j \in Conns
               PROVE  /\ owner[j] = None => Untouched(end'["exit"][j])
                      /\ end'["entry"][j].pump = "off" => Untouched(end'["entry"][j])
                      /\ end'["entry"][j].pump \in {"off", "connect"} =>
                           owner[j] = None /\ end'["entry"][j].read = 0
    BY DEF Owned
  <2>1. "entry" \in Sides /\ "exit" \in Sides
    BY DEF Sides
  <2>2. owner[j] = None => Untouched(end'["exit"][j])
    BY <1>2, <2>1 DEF Owned
  <2>3. end'["entry"][j].pump = "off" => Untouched(end'["entry"][j])
    BY <1>1, <1>2, <2>1 DEF Owned
  <2>4. end'["entry"][j].pump \in {"off", "connect"} =>
          owner[j] = None /\ end'["entry"][j].read = 0
    BY <1>1, <2>1 DEF Owned
  <2> QED
    BY <2>2, <2>3, <2>4
<1> QED
  BY <1>3, <1>4

(* A connection is connected once, step by step.                           *)
LEMMA ConnectsStep ==
  ASSUME Swap, Connects, [Next]_vars
  PROVE  Connects'
<1>0. TypeOK /\ EndsTyped /\ SetupTyped /\ RestTyped /\ SetUp
  BY TypeParts DEF Swap
<1>1. \A t \in Tunnels : \E d \in Nat : \A p \in Nat, k \in Conns :
        AllCarried(wire', wire) /\ ConnectAt(t, p, k)' => ConnectAt(t, p + d, k)
  BY ConnectCarried DEF AllCarried, Sides
<1>2. CASE Fades /\ AllCarried(wire', wire)
  BY <1>0, <1>2, FadesConnects
<1>3. ASSUME NEW s \in Sides, NEW k \in Conns, Send(s, k)
      PROVE  Connects'
  BY <1>0, <1>3, SendConnects
<1>4. ASSUME UNCHANGED <<wire, owner>>,
             \A k \in Conns : /\ end["entry"][k].pump \notin {"off", "connect"} =>
                                   end'["entry"][k].pump \notin {"off", "connect"}
      PROVE  ConnectOnce'
  <2>1. \A t \in Tunnels, p \in Nat, k \in Conns : ConnectAt(t, p, k)' => ConnectAt(t, p + 0, k)
    BY <1>4 DEF ConnectAt
  <2>2. \A t \in Tunnels : \E d \in Nat : \A p \in Nat, k \in Conns :
          ConnectAt(t, p, k)' => ConnectAt(t, p + d, k)
    BY <2>1
  <2> QED
    BY <1>4, <2>2, OnceKept DEF Connects
<1>5. ASSUME NEW s \in Sides, NEW k \in Conns, ReadData(s, k)
      PROVE  Connects'
  <2> DEFINE c == end[s][k]
  <2>1. /\ end' = [end EXCEPT ![s][k] = [c EXCEPT !.pump = "send", !.read = @ + 1]]
        /\ c.pump = "read" /\ c \in EndOf(s) /\ UNCHANGED <<wire, owner>>
    BY <1>0, <1>5, ReadDataFacts DEF net
  <2>2. \A r \in Sides, j \in Conns :
          IF r = s /\ j = k THEN /\ end'[r][j].pump = "send"
                                 /\ end'[r][j].held = c.held /\ end'[r][j].state = c.state
                            ELSE end'[r][j] = end[r][j]
    BY <1>0, <2>1 DEF EndsTyped, EndOf, Ends
  <2>3. Owned' /\ HeldWhileOpen'
    BY <2>1, <2>2 DEF Connects, Owned, HeldWhileOpen, Untouched, Sides
  <2> QED
    BY <1>4, <2>1, <2>2, <2>3 DEF Connects, Sides
<1>6. ASSUME NEW s \in Sides, NEW k \in Conns, Deliver(s, k)
      PROVE  Connects'
  <2> DEFINE c == end[s][k]
  <2>1. c \in EndOf(s)
    BY <1>0 DEF EndsTyped
  <2>2. /\ end' = [end EXCEPT ![s][k] = [c EXCEPT !.queue = Tail(@), !.got = Append(@, Head(c.queue))]]
        /\ c.state = "open" /\ UNCHANGED <<wire, owner>>
    BY <1>6 DEF Deliver, net
  <2>3. \A r \in Sides, j \in Conns :
          IF r = s /\ j = k THEN /\ end'[r][j].pump = c.pump /\ end'[r][j].read = c.read
                                 /\ end'[r][j].held = c.held /\ end'[r][j].state = c.state
                            ELSE end'[r][j] = end[r][j]
    BY <1>0, <2>1, <2>2 DEF EndsTyped, EndOf, Ends
  <2>4. Owned' /\ HeldWhileOpen'
    BY <2>2, <2>3, SameLife DEF Connects
  <2> QED
    BY <1>4, <2>2, <2>3, <2>4 DEF Connects, Sides
<1>7. ASSUME NEW k \in Conns, Accept(k)
      PROVE  Connects'
  <2> DEFINE c == end["entry"][k]
  <2>1. /\ end' = [end EXCEPT !["entry"][k] = [c EXCEPT !.pump = "connect", !.held = TRUE, !.state = "open"]]
        /\ c.pump = "off" /\ c \in EndOf("entry") /\ UNCHANGED <<wire, owner>>
    BY <1>0, <1>7, AcceptFacts DEF net
  <2>2. \A r \in Sides, j \in Conns :
          IF r = "entry" /\ j = k THEN /\ end'[r][j].pump = "connect" /\ end'[r][j].read = c.read
                                       /\ end'[r][j].held /\ end'[r][j].state = "open"
                                  ELSE end'[r][j] = end[r][j]
    BY <1>0, <2>1 DEF EndsTyped, EndOf, Ends, Sides
  <2>3. Owned' /\ HeldWhileOpen'
    BY <2>1, <2>2 DEF Connects, Owned, HeldWhileOpen, Untouched, Sides
  <2> QED
    BY <1>4, <2>1, <2>2, <2>3 DEF Connects, Sides
<1>8. ASSUME NEW l \in Loops, ReceiveData(l)
      PROVE  Connects'
  <2>1. UNCHANGED <<end, owner>> /\ AllCarried(wire', wire)
    BY <1>0, <1>8, RestCarried DEF ReceiveData
  <2>2. Owned' /\ HeldWhileOpen'
    BY <2>1 DEF Connects, Owned, HeldWhileOpen, Untouched
  <2>3. \A t \in Tunnels : \E d \in Nat : \A p \in Nat, k \in Conns :
          ConnectAt(t, p, k)' => ConnectAt(t, p + d, k)
    BY <1>1, <2>1
  <2> QED
    BY <2>1, <2>2, <2>3, OnceKept DEF Connects
<1>9. ASSUME NEW l \in Loops, Enqueued(l)
      PROVE  Connects'
  <2> DEFINE k == hand[l].conn
             s == SideOf(l)
             c == end[s][k]
  <2>1. k \in Conns /\ s \in Sides
    BY <1>0, <1>9, SideFacts DEF Enqueued, RestTyped
  <2>2. /\ end' = [end EXCEPT ![s][k] = Queued(c, hand[l].item)] /\ c \in EndOf(s)
        /\ c.state \in {"open", "failed"} /\ UNCHANGED <<wire, owner>>
    BY <1>0, <1>9, <2>1 DEF Enqueued, EndsTyped
  <2>3. \A r \in Sides, j \in Conns :
          IF r = s /\ j = k THEN /\ end'[r][j].pump = c.pump /\ end'[r][j].read = c.read
                                 /\ end'[r][j].held = c.held /\ end'[r][j].state = c.state
                            ELSE end'[r][j] = end[r][j]
    BY <1>0, <2>1, <2>2 DEF EndsTyped, EndOf, Ends, Queued
  <2>4. Owned' /\ HeldWhileOpen'
    <3> HIDE DEF k, s
    <3> QED
      BY <2>1, <2>2, <2>3, SameLife DEF Connects
  <2> QED
    BY <1>4, <2>1, <2>2, <2>3, <2>4 DEF Connects, Sides
<1>a. ASSUME NEW t \in Tunnels, ReceiveConnect(t)
      PROVE  Connects'
  <2> DEFINE q == wire["entry"][t]
             k == Head(q).conn
             c == end["exit"][k]
  <2>1. /\ k \in Conns /\ c \in EndOf("exit") /\ server[t] = "read"
        /\ q \in Seq(Messages) /\ q # <<>> /\ Head(q).type = "connect"
        /\ owner' = [owner EXCEPT ![k] = current[t]]
        /\ \/ UNCHANGED end
           \/ end' = [end EXCEPT !["exit"][k] = [c EXCEPT !.held = TRUE, !.state = "open", !.pump = "read"]]
        /\ wire'["entry"] = [wire["entry"] EXCEPT ![t] = Tail(q)]
    BY <1>0, <1>a, ReceiveConnectFacts
  <2>2. current[t] # None
    BY <1>0, <2>1 DEF SetUp
  <2>3. ConnectAt(t, 1, k)
    BY <2>1, HeadTailProperties DEF ConnectAt
  <2>4. end["entry"][k].pump \notin {"off", "connect"}
        /\ \A u \in Tunnels, r \in Nat : ConnectAt(u, r, k) => u = t /\ r = 1
    <3> HIDE DEF k
    <3> QED
      BY <2>1, <2>3 DEF Connects, ConnectOnce
  <2>5. \A r \in Sides, j \in Conns :
          IF r = "exit" /\ j = k THEN end'[r][j] = c \/ end'[r][j].held
                                 ELSE end'[r][j] = end[r][j]
    <3>1. CASE UNCHANGED end
      BY <3>1
    <3>2. CASE end' = [end EXCEPT !["exit"][k] = [c EXCEPT !.held = TRUE, !.state = "open", !.pump = "read"]]
      <4>1. [c EXCEPT !.held = TRUE, !.state = "open", !.pump = "read"].held
        BY <2>1 DEF EndOf, Ends
      <4> QED
        BY <1>0, <2>1, <3>2, <4>1 DEF EndsTyped, Sides
    <3> QED
      BY <2>1, <3>1, <3>2
  <2>6. \A j \in Conns : owner'[j] = IF j = k THEN current[t] ELSE owner[j]
    BY <1>0, <2>1 DEF RestTyped
  <2>7. Owned'
    BY <2>2, <2>4, <2>5, <2>6 DEF Connects, Owned, Sides
  <2>8. HeldWhileOpen'
    BY <2>5 DEF Connects, HeldWhileOpen, Sides
  <2>9. \A u \in Tunnels, p \in Nat, j \in Conns :
          ConnectAt(u, p, j)' => ConnectAt(u, IF u = t THEN p + 1 ELSE p + 0, j)
    <3>1. wire["entry"] \in [Tunnels -> Seq(Messages)]
      BY <1>0 DEF TypeOK, Sides
    <3>2. \A u \in Tunnels : wire'["entry"][u] = IF u = t THEN Tail(q) ELSE wire["entry"][u]
      BY <2>1, <3>1
    <3>3. Len(Tail(q)) = Len(q) - 1 /\ \A p \in 1..Len(Tail(q)) : Tail(q)[p] = q[p + 1]
      BY <2>1, HeadTailProperties
    <3>4. Len(q) \in Nat
      BY <2>1
    <3> TAKE u \in Tunnels, p \in Nat, j \in Conns
    <3>5. CASE u = t
      <4>1. p \in 1..(Len(q) - 1) => p + 1 \in 1..Len(q)
        BY <3>4
      <4> QED
        BY <3>2, <3>3, <3>5, <4>1 DEF ConnectAt
    <3>6. CASE u # t
      BY <3>2, <3>6 DEF ConnectAt
    <3> QED
      BY <3>5, <3>6
  <2>10. ASSUME NEW u \in Tunnels, NEW p \in Nat, NEW j \in Conns, ConnectAt(u, p, j)'
         PROVE  j # k
    <3>0. p # 0
      BY <2>10 DEF ConnectAt
    <3>1. ConnectAt(u, IF u = t THEN p + 1 ELSE p + 0, j) /\ p # 0
      BY <2>9, <2>10, <3>0
    <3>2. CASE j = k
      <4>1. ConnectAt(u, IF u = t THEN p + 1 ELSE p + 0, k)
        BY <3>1, <3>2
      <4>2. u = t /\ (IF u = t THEN p + 1 ELSE p + 0) = 1
        BY <2>4, <4>1
      <4> QED
        BY <3>1, <4>2
    <3> QED
      BY <3>2
  <2>11. ConnectOnce'
    <3> SUFFICES ASSUME NEW j \in Conns, NEW u \in Tunnels, NEW p \in Nat, ConnectAt(u, p, j)'
                 PROVE  /\ end'["entry"][j].pump \notin {"off", "connect"} /\ owner'[j] = None
                        /\ \A v \in Tunnels, r \in Nat : ConnectAt(v, r, j)' => v = u /\ r = p
      BY DEF ConnectOnce
    <3>1. j # k
      BY <2>10
    <3>2. ConnectAt(u, IF u = t THEN p + 1 ELSE p + 0, j)
      BY <2>9
    <3>3. end["entry"][j].pump \notin {"off", "connect"} /\ owner[j] = None
      BY <3>2 DEF Connects, ConnectOnce
    <3>4. ASSUME NEW v \in Tunnels, NEW r \in Nat, ConnectAt(v, r, j)'
          PROVE  v = u /\ r = p
      <4>1. ConnectAt(v, IF v = t THEN r + 1 ELSE r + 0, j)
        BY <2>9, <3>4
      <4>2. v = u /\ (IF v = t THEN r + 1 ELSE r + 0) = (IF u = t THEN p + 1 ELSE p + 0)
        BY <3>2, <4>1 DEF Connects, ConnectOnce
      <4> QED
        BY <4>2
    <3> QED
      BY <2>5, <2>6, <3>1, <3>3, <3>4 DEF Sides
  <2> QED
    BY <2>7, <2>8, <2>11 DEF Connects
<1> QED
  BY <1>0, <1>2, <1>3, <1>5, <1>6, <1>7, <1>8, <1>9, <1>a, Kinds

-----------------------------------------------------------------------------
(* No item is in two places.                                               *)

DataAt(q, p, k) == p \in 1..Len(q) /\ q[p].type = "data" /\ q[p].conn = k

LoopsOf(s) == {l \in Loops : SideOf(l) = s}

Holds(h, l, k) == h[l] # None /\ h[l].conn = k

(* Item i was sent, and is neither in g nor in q.                          *)
Missing(i, g, q, n) ==
  i \in 1..n /\ (\A j \in 1..Len(g) : g[j] # i) /\ (\A j \in 1..Len(q) : q[j] # i)

ApartEnd(g, q, n) ==
  /\ \A i \in 1..Len(g) : g[i] \in 1..n
  /\ \A i \in 1..Len(q) : q[i] \in 1..n
  /\ \A i, j \in 1..Len(g) : g[i] = g[j] => i = j
  /\ \A i, j \in 1..Len(q) : q[i] = q[j] => i = j
  /\ \A i \in 1..Len(g), j \in 1..Len(q) : g[i] # q[j]

ApartHand(g, q, h, n, s, k) ==
  \A l \in LoopsOf(s) : Holds(h, l, k) =>
    /\ Missing(h[l].item, g, q, n)
    /\ \A m \in LoopsOf(s) : Holds(h, m, k) /\ h[m].item = h[l].item => m = l

ApartWire(g, q, h, w, n, s, k) ==
  \A t \in Tunnels, p \in Nat : DataAt(w[t], p, k) =>
    /\ Missing(w[t][p].item, g, q, n)
    /\ \A l \in LoopsOf(s) : Holds(h, l, k) => h[l].item # w[t][p].item
    /\ \A u \in Tunnels, r \in Nat :
         DataAt(w[u], r, k) /\ w[u][r].item = w[t][p].item => u = t /\ r = p

(* The items of k on the way to side s, where n were sent: those written   *)
(* (g) and queued (q), those in the hands of its read loops (h) and those  *)
(* in the tunnels (w).                                                     *)
Apart(g, q, h, w, n, s, k) ==
  ApartEnd(g, q, n) /\ ApartHand(g, q, h, n, s, k) /\ ApartWire(g, q, h, w, n, s, k)

Hands == [Loops -> [conn : Conns, item : Nat] \cup {None}]
WiresOf == [Tunnels -> Seq(Messages)]

(* The data of k in q1 is data of k in q.                                  *)
CarriesData(q1, q, k) ==
  \E d \in Nat : \A p \in Nat : DataAt(q1, p, k) => DataAt(q, p + d, k) /\ q1[p] = q[p + d]

(* What carries the messages carries the data of each connection.          *)
LEMMA CarriesItsData ==
  ASSUME NEW q, NEW q1, NEW k, Carries(q1, q)
  PROVE  CarriesData(q1, q, k)
<1>1. PICK d \in Nat : \A p \in 1..Len(q1) :
        q1[p].type # "close" => p + d \in 1..Len(q) /\ q1[p] = q[p + d]
  BY DEF Carries
<1>2. \A p \in Nat : DataAt(q1, p, k) => DataAt(q, p + d, k) /\ q1[p] = q[p + d]
  BY <1>1 DEF DataAt
<1> QED
  BY <1>2 DEF CarriesData

(* No change to the data.                                                  *)
LEMMA SameData ==
  ASSUME NEW q, NEW k
  PROVE  CarriesData(q, q, k)
<1>1. \A p \in Nat : DataAt(q, p, k) => DataAt(q, p + 0, k) /\ q[p] = q[p + 0]
  OBVIOUS
<1> QED
  BY <1>1 DEF CarriesData

(* A message that is not data of k adds none.                              *)
LEMMA OtherData ==
  ASSUME NEW q \in Seq(Messages), NEW m \in Messages, NEW k, m.type # "data" \/ m.conn # k
  PROVE  CarriesData(Append(q, m), q, k)
<1>1. /\ Len(Append(q, m)) = Len(q) + 1 /\ Append(q, m)[Len(q) + 1] = m
      /\ \A p \in 1..Len(q) : Append(q, m)[p] = q[p]
  BY AppendProperties
<1>2. ASSUME NEW p \in Nat, DataAt(Append(q, m), p, k)
      PROVE  DataAt(q, p + 0, k) /\ Append(q, m)[p] = q[p + 0]
  <2>1. Len(q) \in Nat
    OBVIOUS
  <2>2. p \in 1..Len(q)
    BY <1>1, <1>2, <2>1 DEF DataAt
  <2> QED
    BY <1>1, <1>2, <2>2 DEF DataAt
<1> QED
  BY <1>2 DEF CarriesData

(* Nothing was added to what is on the way.                                *)
Less(q2, h2, w2, n2, q, h, w, n, s, k) ==
  /\ q2 = q \/ q2 = <<>> \/ (q # <<>> /\ q2 = Tail(q))
  /\ \A l \in LoopsOf(s) : Holds(h2, l, k) => h2[l] = h[l]
  /\ \A t \in Tunnels : CarriesData(w2[t], w[t], k)
  /\ n2 >= n

(* With less under way, items stay apart.                                  *)
LEMMA ApartLess ==
  ASSUME NEW s \in Sides, NEW k \in Conns, NEW g \in Seq(Nat), NEW q \in Seq(Nat),
         NEW h, NEW w, NEW n \in Int, Apart(g, q, h, w, n, s, k),
         NEW q2, NEW h2, NEW w2, NEW n2 \in Int, Less(q2, h2, w2, n2, q, h, w, n, s, k)
  PROVE  Apart(g, q2, h2, w2, n2, s, k)
<1>0. /\ q2 = q \/ q2 = <<>> \/ (q # <<>> /\ q2 = Tail(q))
      /\ \A l \in LoopsOf(s) : Holds(h2, l, k) => h2[l] = h[l]
      /\ \A t \in Tunnels : CarriesData(w2[t], w[t], k)
      /\ n2 >= n
  BY DEF Less
<1>1. \E d \in Nat : Len(q2) + d <= Len(q) /\ \A i \in 1..Len(q2) : q2[i] = q[i + d]
  <2>1. CASE q2 = q
    <3>1. Len(q2) + 0 <= Len(q) /\ \A i \in 1..Len(q2) : q2[i] = q[i + 0]
      BY <2>1
    <3> QED
      BY <3>1
  <2>2. CASE q2 = <<>>
    <3>1. Len(q2) + 0 <= Len(q) /\ \A i \in 1..Len(q2) : q2[i] = q[i + 0]
      BY <2>2
    <3> QED
      BY <3>1
  <2>3. CASE q # <<>> /\ q2 = Tail(q)
    <3>1. Len(q2) + 1 <= Len(q) /\ \A i \in 1..Len(q2) : q2[i] = q[i + 1]
      BY <2>3, HeadTailProperties
    <3> QED
      BY <3>1
  <2> QED
    BY <1>0, <2>1, <2>2, <2>3
<1>2. q2 \in Seq(Nat)
  <2>1. q # <<>> => Tail(q) \in Seq(Nat)
    BY HeadTailProperties
  <2>2. <<>> \in Seq(Nat)
    OBVIOUS
  <2> QED
    BY <1>0, <2>1, <2>2
<1>3. PICK d \in Nat : Len(q2) + d <= Len(q) /\ \A i \in 1..Len(q2) : q2[i] = q[i + d]
  BY <1>1
<1>4. Len(q) \in Nat /\ Len(q2) \in Nat /\ \A i \in 1..Len(q2) : i + d \in 1..Len(q)
  BY <1>2, <1>3
<1>5. ApartEnd(g, q2, n2)
  <2>1. \A i \in 1..Len(g) : g[i] \in 1..n2
    BY <1>0 DEF Apart, ApartEnd
  <2>2. \A i \in 1..Len(q2) : q2[i] \in 1..n2
    <3> TAKE i \in 1..Len(q2)
    <3>1. q2[i] = q[i + d] /\ q[i + d] \in 1..n
      BY <1>3, <1>4 DEF Apart, ApartEnd
    <3> QED
      BY <1>0, <3>1
  <2>3. \A i, j \in 1..Len(q2) : q2[i] = q2[j] => i = j
    <3> TAKE i, j \in 1..Len(q2)
    <3>1. q[i + d] = q[j + d] => i + d = j + d
      BY <1>4 DEF Apart, ApartEnd
    <3> QED
      BY <1>3, <3>1
  <2>4. \A i \in 1..Len(g), j \in 1..Len(q2) : g[i] # q2[j]
    BY <1>3, <1>4 DEF Apart, ApartEnd
  <2> QED
    BY <2>1, <2>2, <2>3, <2>4 DEF Apart, ApartEnd
<1>6. ASSUME NEW i, Missing(i, g, q, n) PROVE Missing(i, g, q2, n2)
  <2>1. i \in 1..n2
    BY <1>0, <1>6 DEF Missing
  <2>2. \A j \in 1..Len(q2) : q2[j] # i
    BY <1>3, <1>4, <1>6 DEF Missing
  <2> QED
    BY <1>6, <2>1, <2>2 DEF Missing
<1>7. ApartHand(g, q2, h2, n2, s, k)
  BY <1>0, <1>6 DEF Apart, ApartHand, Holds
<1>8. ApartWire(g, q2, h2, w2, n2, s, k)
  <2> SUFFICES ASSUME NEW t \in Tunnels, NEW p \in Nat, DataAt(w2[t], p, k)
               PROVE  /\ Missing(w2[t][p].item, g, q2, n2)
                      /\ \A l \in LoopsOf(s) : Holds(h2, l, k) => h2[l].item # w2[t][p].item
                      /\ \A u \in Tunnels, r \in Nat :
                           DataAt(w2[u], r, k) /\ w2[u][r].item = w2[t][p].item => u = t /\ r = p
    BY DEF ApartWire
  <2>1. PICK e \in Nat : \A r \in Nat :
          DataAt(w2[t], r, k) => DataAt(w[t], r + e, k) /\ w2[t][r] = w[t][r + e]
    BY <1>0 DEF CarriesData
  <2>2. DataAt(w[t], p + e, k) /\ w2[t][p] = w[t][p + e] /\ p + e \in Nat
    BY <2>1
  <2>3. Missing(w2[t][p].item, g, q2, n2)
    BY <1>6, <2>2 DEF Apart, ApartWire
  <2>4. \A l \in LoopsOf(s) : Holds(h2, l, k) => h2[l].item # w2[t][p].item
    BY <1>0, <2>2 DEF Apart, ApartWire, Holds
  <2>5. ASSUME NEW u \in Tunnels, NEW r \in Nat, DataAt(w2[u], r, k), w2[u][r].item = w2[t][p].item
        PROVE  u = t /\ r = p
    <3>1. PICK f \in Nat : DataAt(w[u], r + f, k) /\ w2[u][r] = w[u][r + f]
      BY <1>0, <2>5 DEF CarriesData
    <3>2. u = t
      BY <2>2, <2>5, <3>1 DEF Apart, ApartWire
    <3>3. DataAt(w[t], r + e, k) /\ w2[t][r] = w[t][r + e]
      BY <2>1, <2>5, <3>2
    <3>4. r + e = p + e
      BY <2>2, <2>5, <3>2, <3>3 DEF Apart, ApartWire
    <3> QED
      BY <3>2, <3>4
  <2> QED
    BY <2>3, <2>4, <2>5
<1> QED
  BY <1>5, <1>7, <1>8 DEF Apart

(* The write loop takes the first item of the queue.                       *)
LEMMA ApartDeliver ==
  ASSUME NEW s \in Sides, NEW k \in Conns, NEW g \in Seq(Nat), NEW q \in Seq(Nat),
         NEW h, NEW w, NEW n \in Int, Apart(g, q, h, w, n, s, k), q # <<>>
  PROVE  Apart(Append(g, Head(q)), Tail(q), h, w, n, s, k)
<1> DEFINE g2 == Append(g, Head(q))
           q2 == Tail(q)
           m == Len(g) + 1
<1>1. /\ q2 \in Seq(Nat) /\ Len(q2) = Len(q) - 1 /\ \A i \in 1..Len(q2) : q2[i] = q[i + 1]
      /\ Head(q) = q[1] /\ Len(q) \in Nat /\ Len(q) > 0 /\ 1 \in 1..Len(q)
  BY HeadTailProperties
<1>2. Head(q) \in Nat /\ Len(g) \in Nat
  BY <1>1
<1>3. /\ g2 \in Seq(Nat) /\ Len(g2) = m /\ g2[m] = q[1]
      /\ \A i \in 1..Len(g) : g2[i] = g[i]
  BY <1>1, <1>2, AppendProperties
<1>4. \A i \in 1..Len(g2) : i \in 1..Len(g) \/ i = m
  BY <1>2, <1>3
<1>5. \A i \in 1..Len(q2) : i + 1 \in 1..Len(q) /\ i + 1 # 1
  BY <1>1
<1>6. ApartEnd(g2, q2, n)
  <2>1. \A i \in 1..Len(g2) : g2[i] \in 1..n
    BY <1>1, <1>3, <1>4 DEF Apart, ApartEnd
  <2>2. \A i \in 1..Len(q2) : q2[i] \in 1..n
    BY <1>1, <1>5 DEF Apart, ApartEnd
  <2>3. \A i, j \in 1..Len(g2) : g2[i] = g2[j] => i = j
    <3>1. \A i \in 1..Len(g) : g2[i] # g2[m]
      BY <1>1, <1>3 DEF Apart, ApartEnd
    <3>2. \A i, j \in 1..Len(g) : g2[i] = g2[j] => i = j
      BY <1>3 DEF Apart, ApartEnd
    <3> QED
      BY <1>4, <3>1, <3>2
  <2>4. \A i, j \in 1..Len(q2) : q2[i] = q2[j] => i = j
    <3> TAKE i, j \in 1..Len(q2)
    <3>1. q[i + 1] = q[j + 1] => i + 1 = j + 1
      BY <1>5 DEF Apart, ApartEnd
    <3> QED
      BY <1>1, <3>1
  <2>5. \A i \in 1..Len(g2), j \in 1..Len(q2) : g2[i] # q2[j]
    <3> TAKE i \in 1..Len(g2), j \in 1..Len(q2)
    <3>1. q2[j] = q[j + 1] /\ j + 1 \in 1..Len(q) /\ j + 1 # 1
      BY <1>1, <1>5
    <3>2. q[1] # q[j + 1]
      BY <1>1, <3>1 DEF Apart, ApartEnd
    <3>3. i \in 1..Len(g) => g[i] # q[j + 1]
      BY <3>1 DEF Apart, ApartEnd
    <3> QED
      BY <1>3, <1>4, <3>1, <3>2, <3>3
  <2> QED
    BY <2>1, <2>2, <2>3, <2>4, <2>5 DEF ApartEnd
<1>7. ASSUME NEW i, Missing(i, g, q, n) PROVE Missing(i, g2, q2, n)
  <2>1. \A j \in 1..Len(g2) : g2[j] # i
    BY <1>1, <1>3, <1>4, <1>7 DEF Missing
  <2>2. \A j \in 1..Len(q2) : q2[j] # i
    BY <1>1, <1>5, <1>7 DEF Missing
  <2> QED
    BY <1>7, <2>1, <2>2 DEF Missing
<1>8. ApartHand(g2, q2, h, n, s, k)
  BY <1>7 DEF Apart, ApartHand
<1>9. ApartWire(g2, q2, h, w, n, s, k)
  BY <1>7 DEF Apart, ApartWire
<1> QED
  BY <1>6, <1>8, <1>9 DEF Apart

(* A read loop queues the item in its hand.                                *)
LEMMA ApartEnqueue ==
  ASSUME NEW s \in Sides, NEW k \in Conns, NEW g \in Seq(Nat), NEW q \in Seq(Nat),
         NEW h \in Hands, NEW w, NEW n \in Int, Apart(g, q, h, w, n, s, k),
         NEW l \in LoopsOf(s), Holds(h, l, k)
  PROVE  Apart(g, Append(q, h[l].item), [h EXCEPT ![l] = None], w, n, s, k)
<1> DEFINE i0 == h[l].item
           q2 == Append(q, i0)
           m == Len(q) + 1
           h2 == [h EXCEPT ![l] = None]
<1>1. Missing(i0, g, q, n) /\ i0 \in 1..n /\ i0 \in Nat
  BY DEF Apart, ApartHand, Missing
<1>2. Len(q) \in Nat /\ Len(q2) = m /\ q2[m] = i0 /\ \A i \in 1..Len(q) : q2[i] = q[i]
  BY <1>1, AppendProperties
<1>3. \A i \in 1..Len(q2) : i \in 1..Len(q) \/ i = m
  BY <1>2
<1>4. ApartEnd(g, q2, n)
  <2>1. \A i \in 1..Len(q2) : q2[i] \in 1..n
    BY <1>1, <1>2, <1>3 DEF Apart, ApartEnd
  <2>2. \A i, j \in 1..Len(q2) : q2[i] = q2[j] => i = j
    <3>1. \A i \in 1..Len(q) : q2[i] # q2[m]
      BY <1>1, <1>2 DEF Missing
    <3>2. \A i, j \in 1..Len(q) : q2[i] = q2[j] => i = j
      BY <1>2 DEF Apart, ApartEnd
    <3> QED
      BY <1>3, <3>1, <3>2
  <2>3. \A i \in 1..Len(g), j \in 1..Len(q2) : g[i] # q2[j]
    BY <1>1, <1>2, <1>3 DEF Apart, ApartEnd, Missing
  <2> QED
    BY <2>1, <2>2, <2>3 DEF Apart, ApartEnd
<1>5. ASSUME NEW i, Missing(i, g, q, n), i # i0 PROVE Missing(i, g, q2, n)
  BY <1>2, <1>3, <1>5 DEF Missing
<1>6. \A r \in LoopsOf(s) : Holds(h2, r, k) => r # l /\ Holds(h, r, k) /\ h2[r] = h[r]
  <2>1. l \in Loops /\ \A r \in Loops : h2[r] = IF r = l THEN None ELSE h[r]
    BY DEF LoopsOf, Hands
  <2> QED
    BY <2>1 DEF Holds, LoopsOf
<1>7. ApartHand(g, q2, h2, n, s, k)
  <2> SUFFICES ASSUME NEW r \in LoopsOf(s), Holds(h2, r, k)
               PROVE  /\ Missing(h2[r].item, g, q2, n)
                      /\ \A v \in LoopsOf(s) : Holds(h2, v, k) /\ h2[v].item = h2[r].item => v = r
    BY DEF ApartHand
  <2>1. h[r].item # i0
    BY <1>6 DEF Apart, ApartHand
  <2>2. Missing(h2[r].item, g, q2, n)
    BY <1>5, <1>6, <2>1 DEF Apart, ApartHand
  <2>3. \A v \in LoopsOf(s) : Holds(h2, v, k) /\ h2[v].item = h2[r].item => v = r
    BY <1>6 DEF Apart, ApartHand
  <2> QED
    BY <2>2, <2>3
<1>8. ApartWire(g, q2, h2, w, n, s, k)
  <2> SUFFICES ASSUME NEW t \in Tunnels, NEW p \in Nat, DataAt(w[t], p, k)
               PROVE  /\ Missing(w[t][p].item, g, q2, n)
                      /\ \A r \in LoopsOf(s) : Holds(h2, r, k) => h2[r].item # w[t][p].item
                      /\ \A u \in Tunnels, r \in Nat :
                           DataAt(w[u], r, k) /\ w[u][r].item = w[t][p].item => u = t /\ r = p
    BY DEF ApartWire
  <2>1. w[t][p].item # i0 /\ Missing(w[t][p].item, g, q, n)
    BY DEF Apart, ApartWire
  <2>2. Missing(w[t][p].item, g, q2, n)
    BY <1>5, <2>1
  <2>3. \A r \in LoopsOf(s) : Holds(h2, r, k) => h2[r].item # w[t][p].item
    BY <1>6 DEF Apart, ApartWire
  <2> QED
    BY <2>2, <2>3 DEF Apart, ApartWire
<1> QED
  BY <1>4, <1>7, <1>8 DEF Apart

(* A read loop takes the first item of its tunnel in hand.                 *)
LEMMA ApartTake ==
  ASSUME NEW s \in Sides, NEW k \in Conns, NEW g, NEW q,
         NEW h \in Hands, NEW w \in WiresOf, NEW n \in Int, Apart(g, q, h, w, n, s, k),
         NEW l \in LoopsOf(s), NEW t \in Tunnels, w[t] # <<>>,
         Head(w[t]).type = "data", Head(w[t]).conn = k
  PROVE  Apart(g, q, [h EXCEPT ![l] = [conn |-> Head(w[t]).conn, item |-> Head(w[t]).item]],
               [w EXCEPT ![t] = Tail(@)], n, s, k)
<1> DEFINE m == Head(w[t])
           h2 == [h EXCEPT ![l] = [conn |-> m.conn, item |-> m.item]]
           w2 == [w EXCEPT ![t] = Tail(@)]
<1>1. /\ w[t] \in Seq(Messages) /\ Len(Tail(w[t])) = Len(w[t]) - 1 /\ m = w[t][1]
      /\ \A p \in 1..Len(Tail(w[t])) : Tail(w[t])[p] = w[t][p + 1]
  <2>1. w[t] \in Seq(Messages)
    BY DEF WiresOf
  <2> QED
    BY <2>1, HeadTailProperties
<1>2. Len(w[t]) \in Nat /\ 1 \in 1..Len(w[t]) /\ 1 \in Nat
  BY <1>1
<1>3. DataAt(w[t], 1, k)
  BY <1>1, <1>2 DEF DataAt
<1>0. /\ \A a \in Tunnels, p \in Nat : DataAt(w[a], p, k) =>
           \A l1 \in LoopsOf(s) : Holds(h, l1, k) => h[l1].item # w[a][p].item
      /\ \A a, b \in Tunnels, p, r \in Nat :
           DataAt(w[a], p, k) /\ DataAt(w[b], r, k) /\ w[b][r].item = w[a][p].item => b = a /\ r = p
  BY DEF Apart, ApartWire
<1>4. \A u \in Tunnels : w2[u] = IF u = t THEN Tail(w[t]) ELSE w[u]
  BY DEF WiresOf
<1>7. \A r \in LoopsOf(s) : Holds(h2, r, k) =>
        IF r = l THEN h2[r].item = m.item ELSE Holds(h, r, k) /\ h2[r] = h[r]
  <2>1. l \in Loops /\ \A r \in Loops :
          h2[r] = IF r = l THEN [conn |-> m.conn, item |-> m.item] ELSE h[r]
    BY DEF LoopsOf, Hands
  <2> QED
    BY <2>1 DEF Holds, LoopsOf
<1> HIDE DEF m, h2, w2
<1>5. ASSUME NEW u \in Tunnels, NEW p \in Nat, DataAt(w2[u], p, k)
      PROVE  \E r \in Nat : /\ r = (IF u = t THEN p + 1 ELSE p)
                            /\ DataAt(w[u], r, k) /\ w2[u][p] = w[u][r] /\ ~(u = t /\ r = 1)
  <2>1. CASE u = t
    <3>1. p \in 1..(Len(w[t]) - 1)
      BY <1>1, <1>4, <1>5, <2>1 DEF DataAt
    <3>2. p + 1 \in 1..Len(w[t]) /\ p + 1 # 1 /\ p + 1 \in Nat
      BY <1>2, <3>1
    <3>3. w2[u][p] = w[u][p + 1]
      BY <1>1, <1>4, <2>1, <3>1
    <3> QED
      BY <1>5, <2>1, <3>2, <3>3 DEF DataAt
  <2>2. CASE u # t
    BY <1>4, <1>5, <2>2
  <2> QED
    BY <2>1, <2>2
<1>6. ASSUME NEW u \in Tunnels, NEW p \in Nat, DataAt(w2[u], p, k)
      PROVE  w2[u][p].item # m.item
  <2>1. PICK r \in Nat : DataAt(w[u], r, k) /\ w2[u][p] = w[u][r] /\ ~(u = t /\ r = 1)
    BY <1>5, <1>6
  <2> QED
    BY <1>0, <1>1, <1>2, <1>3, <2>1
<1>8. /\ Missing(m.item, g, q, n)
      /\ \A r \in LoopsOf(s) : Holds(h, r, k) => h[r].item # m.item
  BY <1>1, <1>2, <1>3 DEF Apart, ApartWire
<1>9. ApartHand(g, q, h2, n, s, k)
  BY <1>7, <1>8 DEF Apart, ApartHand
<1>a. ApartWire(g, q, h2, w2, n, s, k)
  <2> SUFFICES ASSUME NEW u \in Tunnels, NEW p \in Nat, DataAt(w2[u], p, k)
               PROVE  /\ Missing(w2[u][p].item, g, q, n)
                      /\ \A r \in LoopsOf(s) : Holds(h2, r, k) => h2[r].item # w2[u][p].item
                      /\ \A v \in Tunnels, r \in Nat :
                           DataAt(w2[v], r, k) /\ w2[v][r].item = w2[u][p].item => v = u /\ r = p
    BY DEF ApartWire
  <2>1. PICK e \in Nat : /\ e = (IF u = t THEN p + 1 ELSE p)
                         /\ DataAt(w[u], e, k) /\ w2[u][p] = w[u][e]
    BY <1>5
  <2>2. Missing(w2[u][p].item, g, q, n)
    BY <2>1 DEF Apart, ApartWire
  <2>3. \A r \in LoopsOf(s) : Holds(h2, r, k) => h2[r].item # w2[u][p].item
    <3> SUFFICES ASSUME NEW r \in LoopsOf(s), Holds(h2, r, k) PROVE h2[r].item # w2[u][p].item
      OBVIOUS
    <3>1. CASE r = l
      BY <1>6, <1>7, <3>1
    <3>2. CASE r # l
      BY <1>0, <1>7, <2>1, <3>2
    <3> QED
      BY <3>1, <3>2
  <2>4. ASSUME NEW v \in Tunnels, NEW r \in Nat, DataAt(w2[v], r, k), w2[v][r].item = w2[u][p].item
        PROVE  v = u /\ r = p
    <3>1. PICK f \in Nat : /\ f = (IF v = t THEN r + 1 ELSE r)
                           /\ DataAt(w[v], f, k) /\ w2[v][r] = w[v][f]
      BY <1>5, <2>4
    <3>2. v = u /\ f = e
      BY <1>0, <2>1, <2>4, <3>1
    <3>3. CASE u = t
      BY <2>1, <3>1, <3>2, <3>3
    <3>4. CASE u # t
      BY <2>1, <3>1, <3>2, <3>4
    <3> QED
      BY <3>3, <3>4
  <2> QED
    BY <2>2, <2>3, <2>4
<1> QED
  BY <1>9, <1>a DEF Apart, m, h2, w2

(* The pump at the other side sends the next item.                         *)
LEMMA ApartSend ==
  ASSUME NEW s \in Sides, NEW k \in Conns, NEW g, NEW q, NEW h,
         NEW w \in WiresOf, NEW n \in Nat, Apart(g, q, h, w, n, s, k),
         NEW t \in Tunnels, NEW m \in Messages, m.conn = k, m.item = n + 1
  PROVE  Apart(g, q, h, [w EXCEPT ![t] = Append(@, m)], n + 1, s, k)
<1> DEFINE w2 == [w EXCEPT ![t] = Append(@, m)]
           e == Len(w[t]) + 1
<1>1. /\ w[t] \in Seq(Messages) /\ Len(w[t]) \in Nat
      /\ Len(Append(w[t], m)) = e /\ Append(w[t], m)[e] = m
      /\ \A p \in 1..Len(w[t]) : Append(w[t], m)[p] = w[t][p]
  <2>1. w[t] \in Seq(Messages)
    BY DEF WiresOf
  <2> QED
    BY <2>1, AppendProperties
<1>2. \A u \in Tunnels : w2[u] = IF u = t THEN Append(w[t], m) ELSE w[u]
  BY DEF WiresOf
<1>0. /\ \A a \in Tunnels, p \in Nat : DataAt(w[a], p, k) =>
           \A l1 \in LoopsOf(s) : Holds(h, l1, k) => h[l1].item # w[a][p].item
      /\ \A a, b \in Tunnels, p, r \in Nat :
           DataAt(w[a], p, k) /\ DataAt(w[b], r, k) /\ w[b][r].item = w[a][p].item => b = a /\ r = p
  BY DEF Apart, ApartWire
<1> HIDE DEF w2, e
<1>3. ASSUME NEW u \in Tunnels, NEW p \in Nat, DataAt(w2[u], p, k)
      PROVE  \/ DataAt(w[u], p, k) /\ w2[u][p] = w[u][p]
             \/ u = t /\ p = e /\ w2[u][p] = m
  <2>1. CASE u = t
    <3>0. w2[u] = Append(w[t], m) /\ p \in 1..Len(w2[u])
      BY <1>2, <1>3, <2>1 DEF DataAt
    <3>1. p \in 1..Len(w[t]) \/ p = e
      BY <1>1, <3>0 DEF e
    <3> QED
      BY <1>1, <1>2, <1>3, <2>1, <3>1 DEF DataAt
  <2>2. CASE u # t
    BY <1>2, <1>3, <2>2
  <2> QED
    BY <2>1, <2>2
<1>4. ASSUME NEW i, Missing(i, g, q, n) PROVE Missing(i, g, q, n + 1) /\ i # n + 1
  BY <1>4 DEF Missing
<1>5. ApartEnd(g, q, n + 1)
  <2>1. \A i \in 1..n : i \in 1..(n + 1)
    OBVIOUS
  <2> QED
    BY <2>1 DEF Apart, ApartEnd
<1>6. Missing(n + 1, g, q, n + 1)
  <2>1. (\A i \in 1..Len(g) : g[i] \in 1..n) /\ (\A i \in 1..Len(q) : q[i] \in 1..n)
    BY DEF Apart, ApartEnd
  <2>2. n + 1 \notin 1..n /\ n + 1 \in 1..(n + 1)
    OBVIOUS
  <2> QED
    BY <2>1, <2>2 DEF Missing
<1>7. ApartHand(g, q, h, n + 1, s, k)
  BY <1>4 DEF Apart, ApartHand
<1>8. \A l \in LoopsOf(s) : Holds(h, l, k) => h[l].item # n + 1
  BY <1>4 DEF Apart, ApartHand
<1>9. \A u \in Tunnels, p \in Nat : DataAt(w[u], p, k) => w[u][p].item # n + 1
  BY <1>4 DEF Apart, ApartWire
<1>a. ApartWire(g, q, h, w2, n + 1, s, k)
  <2> SUFFICES ASSUME NEW u \in Tunnels, NEW p \in Nat, DataAt(w2[u], p, k)
               PROVE  /\ Missing(w2[u][p].item, g, q, n + 1)
                      /\ \A l \in LoopsOf(s) : Holds(h, l, k) => h[l].item # w2[u][p].item
                      /\ \A v \in Tunnels, r \in Nat :
                           DataAt(w2[v], r, k) /\ w2[v][r].item = w2[u][p].item => v = u /\ r = p
    BY DEF ApartWire
  <2>1. CASE u = t /\ p = e /\ w2[u][p] = m
    <3>1. \A v \in Tunnels, r \in Nat :
            DataAt(w2[v], r, k) /\ w2[v][r].item = w2[u][p].item => v = u /\ r = p
      BY <1>3, <1>9, <2>1
    <3> QED
      BY <1>6, <1>8, <2>1, <3>1
  <2>2. CASE DataAt(w[u], p, k) /\ w2[u][p] = w[u][p]
    <3>1. Missing(w2[u][p].item, g, q, n + 1)
      BY <1>4, <2>2 DEF Apart, ApartWire
    <3>2. \A l \in LoopsOf(s) : Holds(h, l, k) => h[l].item # w2[u][p].item
      BY <1>0, <2>2
    <3>3. \A v \in Tunnels, r \in Nat :
            DataAt(w2[v], r, k) /\ w2[v][r].item = w2[u][p].item => v = u /\ r = p
      <4> SUFFICES ASSUME NEW v \in Tunnels, NEW r \in Nat,
                          DataAt(w2[v], r, k), w2[v][r].item = w2[u][p].item
                   PROVE  v = u /\ r = p
        OBVIOUS
      <4>1. CASE v = t /\ r = e /\ w2[v][r] = m
        BY <1>9, <2>2, <4>1
      <4>2. CASE DataAt(w[v], r, k) /\ w2[v][r] = w[v][r]
        BY <1>0, <2>2, <4>2
      <4> QED
        BY <1>3, <4>1, <4>2
    <3> QED
      BY <3>1, <3>2, <3>3
  <2> QED
    BY <1>3, <2>1, <2>2
<1> QED
  BY <1>5, <1>7, <1>a DEF Apart, w2

Way(s, k) == Apart(end[s][k].got, end[s][k].queue, hand, wire[Other(s)], Sent(Other(s), k), s, k)

AllApart ==
  \A s \in Sides, k \in Conns :
    /\ end[s][k].pump = "send" => end[s][k].read > 0
    /\ Way(s, k)

(* The types of what is on the way to an end.                              *)
LEMMA WayTypes ==
  ASSUME TypeOK, NEW s \in Sides, NEW k \in Conns
  PROVE  /\ end[s][k].got \in Seq(Nat) /\ end[s][k].queue \in Seq(Nat) /\ end[s][k].read \in Nat
         /\ hand \in Hands /\ wire[Other(s)] \in WiresOf /\ Sent(Other(s), k) \in Int
<1>1. end[s][k] \in Ends /\ end[Other(s)][k] \in Ends
  <2>1. end \in [Sides -> [Conns -> Ends]]
    BY DEF TypeOK
  <2> QED
    BY <2>1, SideFacts
<1>2. Sent(Other(s), k) \in Int
  BY <1>1 DEF Ends, Sent
<1> QED
  BY <1>1, <1>2, SideFacts DEF Ends, TypeOK, Hands, WiresOf

(* A step that adds nothing to the way to an end keeps it apart.           *)
LEMMA WayLess ==
  ASSUME TypeOK, TypeOK', NEW s \in Sides, NEW k \in Conns, Way(s, k),
         end'[s][k].got = end[s][k].got,
         LET q == end[s][k].queue
             q2 == end'[s][k].queue
         IN q2 = q \/ q2 = <<>> \/ (q # <<>> /\ q2 = Tail(q)),
         \A l \in LoopsOf(s) : Holds(hand', l, k) => hand'[l] = hand[l],
         \A t \in Tunnels : CarriesData(wire'[Other(s)][t], wire[Other(s)][t], k),
         Sent(Other(s), k)' >= Sent(Other(s), k)
  PROVE  Way(s, k)'
<1> DEFINE g == end[s][k].got
           q == end[s][k].queue
           n == Sent(Other(s), k)
           q2 == end'[s][k].queue
           n2 == Sent(Other(s), k)'
           w == wire[Other(s)]
           h2 == hand'
           w2 == wire'[Other(s)]
<1>1. g \in Seq(Nat) /\ q \in Seq(Nat) /\ n \in Int
  BY WayTypes
<1>2. n2 \in Int
  <2>1. end' \in [Sides -> [Conns -> Ends]]
    BY DEF TypeOK
  <2>2. end'[Other(s)][k] \in Ends
    BY <2>1, SideFacts
  <2> QED
    BY <2>2 DEF Ends, Sent
<1>3. Apart(g, q, hand, w, n, s, k)
  BY DEF Way
<1>4. Apart(g, q2, h2, w2, n2, s, k)
  <2> HIDE DEF g, q, n, q2, n2, w, h2, w2
  <2>1. Less(q2, h2, w2, n2, q, hand, w, n, s, k)
    BY DEF Less, q, q2, n, n2, w, w2, h2
  <2> QED
    BY <1>1, <1>2, <1>3, <2>1, ApartLess
<1> QED
  BY <1>4 DEF Way

(* Nothing is under way at the beginning.                                  *)
LEMMA InitApart == Init => AllApart
<1> SUFFICES ASSUME Init, NEW s \in Sides, NEW k \in Conns
             PROVE  end[s][k].pump # "send" /\ Way(s, k)
  BY DEF AllApart
<1>0. end[s][k].pump = "off"
  BY DEF Init
<1>1. /\ end[s][k].got = <<>> /\ end[s][k].queue = <<>>
      /\ \A t \in Tunnels : wire[Other(s)][t] = <<>>
      /\ \A l \in Loops : hand[l] = None
  BY SideFacts DEF Init
<1>2. \A p \in 1..Len(<<>>) : FALSE
  OBVIOUS
<1>3. ApartEnd(<<>>, <<>>, Sent(Other(s), k))
  BY <1>2 DEF ApartEnd
<1>4. ApartHand(<<>>, <<>>, hand, Sent(Other(s), k), s, k)
  BY <1>1 DEF ApartHand, Holds, LoopsOf
<1>5. \A t \in Tunnels, p \in Nat : ~DataAt(wire[Other(s)][t], p, k)
  BY <1>1, <1>2 DEF DataAt
<1>6. ApartWire(<<>>, <<>>, hand, wire[Other(s)], Sent(Other(s), k), s, k)
  BY <1>5 DEF ApartWire
<1> QED
  BY <1>0, <1>1, <1>3, <1>4, <1>6 DEF Way, Apart

(* A step that does not touch the way to an end.                           *)
LEMMA SameWay ==
  ASSUME NEW s \in Sides, NEW k \in Conns, Way(s, k),
         end'[s][k].got = end[s][k].got, end'[s][k].queue = end[s][k].queue,
         UNCHANGED <<hand, wire>>, Sent(Other(s), k)' = Sent(Other(s), k)
  PROVE  Way(s, k)'
<1>1. wire'[Other(s)] = wire[Other(s)] /\ hand' = hand
  OBVIOUS
<1> QED
  BY <1>1 DEF Way

(* Fading adds nothing to any way.                                         *)
LEMMA FadesApart ==
  ASSUME TypeOK, TypeOK', AllApart, Fades, AllCarried(wire', wire)
  PROVE  AllApart'
<1> SUFFICES ASSUME NEW s \in Sides, NEW k \in Conns
             PROVE  (end'[s][k].pump = "send" => end'[s][k].read > 0) /\ Way(s, k)'
  BY DEF AllApart
<1>1. Wanes(end'[s][k], end[s][k]) /\ Wanes(end'[Other(s)][k], end[Other(s)][k])
  BY SideFacts DEF Fades, AllWane
<1>2. end'[s][k].pump = "send" => end'[s][k].read > 0
  BY <1>1 DEF Wanes, AllApart
<1>3. Sent(Other(s), k)' = Sent(Other(s), k)
  BY <1>1 DEF Wanes, Sent
<1>4. \A t \in Tunnels : CarriesData(wire'[Other(s)][t], wire[Other(s)][t], k)
  BY SideFacts, CarriesItsData DEF AllCarried
<1>5. \A l \in LoopsOf(s) : Holds(hand', l, k) => hand'[l] = hand[l]
  BY DEF Fades, LoopsOf, Holds
<1>6. /\ end'[s][k].got = end[s][k].got
      /\ LET q == end[s][k].queue
             q2 == end'[s][k].queue
         IN q2 = q \/ q2 = <<>> \/ (q # <<>> /\ q2 = Tail(q))
  BY <1>1 DEF Wanes
<1>7. Sent(Other(s), k)' >= Sent(Other(s), k)
  BY <1>3, WayTypes
<1> QED
  BY <1>2, <1>4, <1>5, <1>6, <1>7, WayLess DEF AllApart

(* A pump that reads sends nothing yet.                                    *)
LEMMA ReadDataApart ==
  ASSUME TypeOK, AllApart, NEW s0 \in Sides, NEW k0 \in Conns, ReadData(s0, k0)
  PROVE  AllApart'
<1> DEFINE c == end[s0][k0]
<1>1. /\ end' = [end EXCEPT ![s0][k0] = [c EXCEPT !.pump = "send", !.read = @ + 1]]
      /\ c.pump = "read" /\ c \in EndOf(s0) /\ UNCHANGED <<hand, wire>>
  BY TypeParts, ReadDataFacts DEF net
<1>2. \A r \in Sides, j \in Conns :
        IF r = s0 /\ j = k0
          THEN /\ end'[r][j].got = c.got /\ end'[r][j].queue = c.queue
               /\ end'[r][j].pump = "send" /\ end'[r][j].read = c.read + 1
          ELSE end'[r][j] = end[r][j]
  BY <1>1, TypeParts DEF EndsTyped, EndOf, Ends
<1>3. c.read \in Nat
  BY <1>1 DEF EndOf, Ends
<1>4. \A r \in Sides, j \in Conns : Sent(r, j)' = Sent(r, j)
  <2> TAKE r \in Sides, j \in Conns
  <2>1. CASE r = s0 /\ j = k0
    BY <1>1, <1>2, <1>3, <2>1 DEF Sent
  <2>2. CASE ~(r = s0 /\ j = k0)
    BY <1>2, <2>2 DEF Sent
  <2> QED
    BY <2>1, <2>2
<1> SUFFICES ASSUME NEW s \in Sides, NEW k \in Conns
             PROVE  (end'[s][k].pump = "send" => end'[s][k].read > 0) /\ Way(s, k)'
  BY DEF AllApart
<1>5. end'[s][k].pump = "send" => end'[s][k].read > 0
  BY <1>2, <1>3 DEF AllApart
<1>6. /\ end'[s][k].got = end[s][k].got /\ end'[s][k].queue = end[s][k].queue
  BY <1>2
<1>7. Sent(Other(s), k)' = Sent(Other(s), k)
  <2>1. Other(s) \in Sides
    BY SideFacts
  <2> QED
    BY <1>4, <2>1
<1> QED
  BY <1>1, <1>5, <1>6, <1>7, SameWay DEF AllApart

(* A new connection has nothing under way.                                 *)
LEMMA AcceptApart ==
  ASSUME TypeOK, AllApart, NEW k0 \in Conns, Accept(k0)
  PROVE  AllApart'
<1> DEFINE c == end["entry"][k0]
<1>1. /\ end' = [end EXCEPT !["entry"][k0] = [c EXCEPT !.pump = "connect", !.held = TRUE, !.state = "open"]]
      /\ c.pump = "off" /\ c \in EndOf("entry") /\ UNCHANGED <<hand, wire>>
  BY TypeParts, AcceptFacts DEF net
<1>2. \A r \in Sides, j \in Conns :
        IF r = "entry" /\ j = k0
          THEN /\ end'[r][j].got = c.got /\ end'[r][j].queue = c.queue
               /\ end'[r][j].pump = "connect" /\ end'[r][j].read = c.read
          ELSE end'[r][j] = end[r][j]
  BY <1>1, TypeParts DEF EndsTyped, EndOf, Ends, Sides
<1>3. \A r \in Sides, j \in Conns : Sent(r, j)' = Sent(r, j)
  BY <1>1, <1>2 DEF Sent
<1> SUFFICES ASSUME NEW s \in Sides, NEW k \in Conns
             PROVE  (end'[s][k].pump = "send" => end'[s][k].read > 0) /\ Way(s, k)'
  BY DEF AllApart
<1>5. end'[s][k].pump = "send" => end'[s][k].read > 0
  BY <1>2 DEF AllApart
<1>6. /\ end'[s][k].got = end[s][k].got /\ end'[s][k].queue = end[s][k].queue
  BY <1>2
<1>7. Sent(Other(s), k)' = Sent(Other(s), k)
  <2>1. Other(s) \in Sides
    BY SideFacts
  <2> QED
    BY <1>3, <2>1
<1> QED
  BY <1>1, <1>5, <1>6, <1>7, SameWay DEF AllApart

(* An item written leaves the queue.                                       *)
LEMMA DeliverApart ==
  ASSUME TypeOK, TypeOK', AllApart, NEW s0 \in Sides, NEW k0 \in Conns, Deliver(s0, k0)
  PROVE  AllApart'
<1> DEFINE c == end[s0][k0]
<1>1. c \in EndOf(s0)
  BY TypeParts DEF EndsTyped
<1>2. /\ end' = [end EXCEPT ![s0][k0] = [c EXCEPT !.queue = Tail(@), !.got = Append(@, Head(c.queue))]]
      /\ c.queue # <<>> /\ UNCHANGED <<hand, wire>>
  BY DEF Deliver, net
<1>3. \A r \in Sides, j \in Conns :
        IF r = s0 /\ j = k0
          THEN /\ end'[r][j].got = Append(c.got, Head(c.queue)) /\ end'[r][j].queue = Tail(c.queue)
               /\ end'[r][j].pump = c.pump /\ end'[r][j].read = c.read
          ELSE end'[r][j] = end[r][j]
  <2> DEFINE c2 == [c EXCEPT !.queue = Tail(@), !.got = Append(@, Head(c.queue))]
  <2>1. /\ c2.got = Append(c.got, Head(c.queue)) /\ c2.queue = Tail(c.queue)
        /\ c2.pump = c.pump /\ c2.read = c.read
    BY <1>1 DEF EndOf, Ends
  <2>2. end' = [end EXCEPT ![s0][k0] = c2] /\ end \in [Sides -> [Conns -> Ends]]
    BY <1>2, TypeParts DEF EndsTyped
  <2> HIDE DEF c2
  <2>3. \A r \in Sides, j \in Conns :
          end'[r][j] = IF r = s0 /\ j = k0 THEN c2 ELSE end[r][j]
    BY <2>2
  <2> QED
    BY <2>1, <2>3
<1>4. \A r \in Sides, j \in Conns : Sent(r, j)' = Sent(r, j)
  BY <1>3 DEF Sent
<1> SUFFICES ASSUME NEW s \in Sides, NEW k \in Conns
             PROVE  (end'[s][k].pump = "send" => end'[s][k].read > 0) /\ Way(s, k)'
  BY DEF AllApart
<1>5. end'[s][k].pump = "send" => end'[s][k].read > 0
  BY <1>3 DEF AllApart
<1>6. Sent(Other(s), k)' = Sent(Other(s), k)
  <2>1. Other(s) \in Sides
    BY SideFacts
  <2> QED
    BY <1>4, <2>1
<1>7. Way(s, k)
  BY DEF AllApart
<1>8. CASE s = s0 /\ k = k0
  <2> DEFINE g == end[s][k].got
             q == end[s][k].queue
             n == Sent(Other(s), k)
  <2>1. g \in Seq(Nat) /\ q \in Seq(Nat) /\ n \in Int
    BY WayTypes
  <2>2. Apart(Append(g, Head(q)), Tail(q), hand, wire[Other(s)], n, s, k)
    <3>1. Apart(g, q, hand, wire[Other(s)], n, s, k) /\ q # <<>>
      BY <1>2, <1>7, <1>8 DEF Way
    <3> HIDE DEF g, q, n
    <3> QED
      BY <2>1, <3>1, ApartDeliver
  <2>3. end'[s][k].got = Append(g, Head(q)) /\ end'[s][k].queue = Tail(q) /\ hand' = hand
        /\ wire'[Other(s)] = wire[Other(s)]
    BY <1>2, <1>3, <1>8
  <2> QED
    BY <1>5, <1>6, <2>2, <2>3 DEF Way
<1>9. CASE ~(s = s0 /\ k = k0)
  BY <1>2, <1>3, <1>5, <1>6, <1>7, <1>9, SameWay
<1> QED
  BY <1>8, <1>9

(* The exit's new end starts with an empty queue.                          *)
LEMMA ReceiveConnectApart ==
  ASSUME TypeOK, TypeOK', AllApart, NEW t0 \in Tunnels, ReceiveConnect(t0)
  PROVE  AllApart'
<1> DEFINE k0 == Head(wire["entry"][t0]).conn
           c == end["exit"][k0]
<1>1. /\ k0 \in Conns /\ c \in EndOf("exit") /\ UNCHANGED hand /\ AllCarried(wire', wire)
      /\ \/ UNCHANGED end
         \/ end' = [end EXCEPT !["exit"][k0] = [c EXCEPT !.held = TRUE, !.state = "open", !.pump = "read"]]
  BY ReceiveConnectFacts
<1>2. \A r \in Sides, j \in Conns :
        \/ end'[r][j] = end[r][j]
        \/ /\ end'[r][j].got = end[r][j].got /\ end'[r][j].queue = end[r][j].queue
           /\ end'[r][j].pump = "read" /\ end'[r][j].read = end[r][j].read
  <2>1. CASE UNCHANGED end
    BY <2>1
  <2>2. CASE end' = [end EXCEPT !["exit"][k0] = [c EXCEPT !.held = TRUE, !.state = "open", !.pump = "read"]]
    <3> DEFINE c2 == [c EXCEPT !.held = TRUE, !.state = "open", !.pump = "read"]
    <3>1. c2.got = c.got /\ c2.queue = c.queue /\ c2.pump = "read" /\ c2.read = c.read
      BY <1>1 DEF EndOf, Ends
    <3>2. end \in [Sides -> [Conns -> Ends]]
      BY TypeParts DEF EndsTyped
    <3> HIDE DEF c2, k0
    <3>3. \A r \in Sides, j \in Conns : end'[r][j] = IF r = "exit" /\ j = k0 THEN c2 ELSE end[r][j]
      BY <1>1, <2>2, <3>2 DEF c2, Sides
    <3> QED
      BY <3>1, <3>3
  <2> QED
    BY <1>1, <2>1, <2>2
<1> SUFFICES ASSUME NEW s \in Sides, NEW k \in Conns
             PROVE  (end'[s][k].pump = "send" => end'[s][k].read > 0) /\ Way(s, k)'
  BY DEF AllApart
<1>5. end'[s][k].pump = "send" => end'[s][k].read > 0
  BY <1>2 DEF AllApart
<1>6. Sent(Other(s), k)' >= Sent(Other(s), k)
  <2>1. end[Other(s)][k] \in Ends
    BY SideFacts, TypeParts DEF EndsTyped
  <2>2. end[Other(s)][k].read \in Nat
    BY <2>1 DEF Ends
  <2>3. \/ end'[Other(s)][k] = end[Other(s)][k]
        \/ end'[Other(s)][k].pump = "read" /\ end'[Other(s)][k].read = end[Other(s)][k].read
    BY <1>2, SideFacts
  <2> QED
    BY <2>2, <2>3 DEF Sent
<1>7. \A t \in Tunnels : CarriesData(wire'[Other(s)][t], wire[Other(s)][t], k)
  BY <1>1, SideFacts, CarriesItsData DEF AllCarried
<1>8. \A l \in LoopsOf(s) : Holds(hand', l, k) => hand'[l] = hand[l]
  BY <1>1
<1>9. end'[s][k].got = end[s][k].got /\ end'[s][k].queue = end[s][k].queue
  BY <1>2
<1> QED
  BY <1>5, <1>6, <1>7, <1>8, <1>9, WayLess DEF AllApart

(* An item sent was not under way before.                                  *)
LEMMA SendApart ==
  ASSUME TypeOK, TypeOK', AllApart, NEW s0 \in Sides, NEW k0 \in Conns, Send(s0, k0)
  PROVE  AllApart'
<1> DEFINE c == end[s0][k0]
           m == IF c.pump = "connect" THEN Message("connect", k0, 0) ELSE Message("data", k0, c.read)
           t0 == Route(s0, k0)
<1>1. /\ wire \in Wires /\ c \in EndOf(s0) /\ c.pump \in {"connect", "send"}
      /\ m \in Messages /\ UNCHANGED hand
      /\ wire' = wire \/ wire' = [wire EXCEPT ![s0][t0] = Append(wire[s0][t0], m)]
  BY TypeParts, SendFacts
<1>2. PICK l0 \in {"read", "closing"} : end' = [end EXCEPT ![s0][k0] = [c EXCEPT !.pump = l0]]
  BY SendFacts
<1>3. \A r \in Sides, j \in Conns :
        IF r = s0 /\ j = k0
          THEN /\ end'[r][j].got = c.got /\ end'[r][j].queue = c.queue
               /\ end'[r][j].pump = l0 /\ end'[r][j].read = c.read
          ELSE end'[r][j] = end[r][j]
  BY <1>1, <1>2, TypeParts DEF EndsTyped, EndOf, Ends
<1>4. /\ m.conn = k0
      /\ c.pump = "send" => m.item = c.read /\ m.type = "data" /\ c.read > 0
      /\ c.pump = "connect" => m.type = "connect"
  BY DEF Message, AllApart
<1>5. c.read \in Nat
  BY <1>1 DEF EndOf, Ends
<1>6. \A r \in Sides, j \in Conns :
        Sent(r, j)' = IF r = s0 /\ j = k0 /\ c.pump = "send" THEN Sent(r, j) + 1 ELSE Sent(r, j)
  <2> TAKE r \in Sides, j \in Conns
  <2>1. CASE r = s0 /\ j = k0
    <3>1. Sent(r, j)' = c.read
      BY <1>3, <1>5, <2>1 DEF Sent
    <3>2. Sent(r, j) = IF c.pump = "send" THEN c.read - 1 ELSE c.read
      BY <1>5, <2>1 DEF Sent
    <3> QED
      BY <1>5, <2>1, <3>1, <3>2
  <2>2. CASE ~(r = s0 /\ j = k0)
    BY <1>3, <2>2 DEF Sent
  <2> QED
    BY <2>1, <2>2
<1> HIDE DEF m, t0
<1> SUFFICES ASSUME NEW s \in Sides, NEW k \in Conns
             PROVE  (end'[s][k].pump = "send" => end'[s][k].read > 0) /\ Way(s, k)'
  BY DEF AllApart
<1>7. end'[s][k].pump = "send" => end'[s][k].read > 0
  BY <1>3 DEF AllApart
<1>8. end'[s][k].got = end[s][k].got /\ end'[s][k].queue = end[s][k].queue
  BY <1>3
<1>9. Way(s, k) /\ Other(s) \in Sides /\ Sent(Other(s), k) \in Int
  BY SideFacts, WayTypes DEF AllApart
<1>a. CASE Other(s) = s0 /\ k = k0 /\ c.pump = "send" /\ wire' # wire
  <2> DEFINE g == end[s][k].got
             q == end[s][k].queue
             n == Sent(Other(s), k)
             w == wire[Other(s)]
  <2>1. w \in WiresOf /\ t0 \in Tunnels
        /\ wire'[Other(s)] = [w EXCEPT ![t0] = Append(w[t0], m)]
    <3>1. wire' = [wire EXCEPT ![s0][t0] = Append(wire[s0][t0], m)] /\ wire' # wire
      BY <1>1, <1>a
    <3>2. t0 \notin Tunnels => wire' = wire
      BY <1>1, <3>1 DEF Wires
    <3>3. w \in WiresOf /\ wire'[s0] = [wire[s0] EXCEPT ![t0] = Append(wire[s0][t0], m)]
      BY <1>1, <1>9, <3>1 DEF Wires, WiresOf
    <3> QED
      BY <1>a, <3>1, <3>2, <3>3
  <2>2. n = c.read - 1 /\ n \in Nat /\ m.item = n + 1
    BY <1>4, <1>5, <1>a DEF Sent
  <2>3. Apart(g, q, hand, [w EXCEPT ![t0] = Append(w[t0], m)], n + 1, s, k)
    <3>1. Apart(g, q, hand, w, n, s, k)
      BY <1>9 DEF Way
    <3> HIDE DEF g, q, n, w
    <3> QED
      BY <1>1, <1>4, <1>a, <2>1, <2>2, <3>1, ApartSend
  <2>4. Sent(Other(s), k)' = n + 1
    BY <1>6, <1>9, <1>a
  <2> QED
    BY <1>1, <1>7, <1>8, <2>1, <2>3, <2>4 DEF Way
<1>b. CASE ~(Other(s) = s0 /\ k = k0 /\ c.pump = "send" /\ wire' # wire)
  <2>1. \A t \in Tunnels : CarriesData(wire'[Other(s)][t], wire[Other(s)][t], k)
    <3> TAKE t \in Tunnels
    <3>1. CASE wire'[Other(s)][t] = wire[Other(s)][t]
      BY <3>1, SameData
    <3>2. CASE wire'[Other(s)][t] # wire[Other(s)][t]
      <4>1. Other(s) = s0 /\ wire'[Other(s)][t] = Append(wire[s0][t], m) /\ wire[s0][t] \in Seq(Messages)
        BY <1>1, <1>9, <3>2 DEF Wires
      <4>2. m.type # "data" \/ m.conn # k
        BY <1>1, <1>4, <1>b, <3>2, <4>1
      <4> QED
        BY <1>1, <4>1, <4>2, OtherData
    <3> QED
      BY <3>1, <3>2
  <2>2. Sent(Other(s), k)' >= Sent(Other(s), k)
    BY <1>6, <1>9
  <2>3. \A l \in LoopsOf(s) : Holds(hand', l, k) => hand'[l] = hand[l]
    BY <1>1
  <2> QED
    BY <1>7, <1>8, <1>9, <2>1, <2>2, <2>3, WayLess
<1> QED
  BY <1>a, <1>b

(* A received item leaves the tunnel.                                      *)
LEMMA ReceiveDataApart ==
  ASSUME TypeOK, TypeOK', AllApart, NEW l0 \in Loops, ReceiveData(l0)
  PROVE  AllApart'
<1> DEFINE m == Head(Pending(l0))
           s0 == SideOf(l0)
           t0 == Source(l0)
           h2 == [hand EXCEPT ![l0] = [conn |-> m.conn, item |-> m.item]]
<1>1. /\ Reading(l0) /\ Pending(l0) # <<>> /\ m.type = "data"
      /\ hand' = h2 \/ hand' = hand
      /\ wire' = Rest(l0) /\ UNCHANGED end
  BY DEF ReceiveData
<1>2. /\ t0 \in Tunnels /\ s0 \in Sides /\ Other(s0) \in Sides /\ hand \in Hands /\ wire \in Wires
      /\ m.conn \in Conns /\ l0 \in LoopsOf(s0) /\ AllCarried(wire', wire)
  BY <1>1, LoopReads, SideFacts, TypeParts, RestCarried DEF Hands, RestTyped, LoopsOf
<1>3. /\ Pending(l0) = wire[Other(s0)][t0]
      /\ wire' = [wire EXCEPT ![Other(s0)][t0] = Tail(wire[Other(s0)][t0])]
  BY <1>1 DEF Pending, Rest
<1> SUFFICES ASSUME NEW s \in Sides, NEW k \in Conns PROVE Way(s, k)'
  BY <1>1 DEF AllApart
<1>4. Way(s, k) /\ Sent(Other(s), k) \in Int
  BY WayTypes DEF AllApart
<1>5. Sent(Other(s), k)' = Sent(Other(s), k)
  BY <1>1 DEF Sent
<1>6. CASE s = s0 /\ k = m.conn /\ hand' = h2
  <2> DEFINE g == end[s][k].got
             q == end[s][k].queue
             n == Sent(Other(s), k)
             w == wire[Other(s)]
  <2>1. w \in WiresOf /\ wire'[Other(s)] = [w EXCEPT ![t0] = Tail(w[t0])] /\ w[t0] # <<>>
        /\ m = Head(w[t0])
    BY <1>1, <1>2, <1>3, <1>6 DEF Wires, WiresOf
  <2>2. Apart(g, q, [hand EXCEPT ![l0] = [conn |-> Head(w[t0]).conn, item |-> Head(w[t0]).item]],
              [w EXCEPT ![t0] = Tail(w[t0])], n, s, k)
    <3>1. Apart(g, q, hand, w, n, s, k)
      BY <1>4 DEF Way
    <3>2. Head(w[t0]).type = "data" /\ Head(w[t0]).conn = k
      BY <1>1, <1>6, <2>1
    <3> HIDE DEF g, q, n, w, t0
    <3> QED
      BY <1>2, <1>4, <1>6, <2>1, <3>1, <3>2, ApartTake DEF n
  <2> QED
    BY <1>1, <1>5, <1>6, <2>1, <2>2 DEF Way
<1>7. CASE ~(s = s0 /\ k = m.conn /\ hand' = h2)
  <2>1. \A l \in LoopsOf(s) : Holds(hand', l, k) => hand'[l] = hand[l]
    <3>1. CASE hand' = hand
      BY <3>1
    <3>2. CASE hand' = h2
      <4>1. \A l \in Loops : h2[l] = IF l = l0 THEN [conn |-> m.conn, item |-> m.item] ELSE hand[l]
        BY <1>2 DEF Hands
      <4> QED
        BY <1>7, <3>2, <4>1 DEF Holds, LoopsOf
    <3> QED
      BY <1>1, <3>1, <3>2
  <2>2. \A t \in Tunnels : CarriesData(wire'[Other(s)][t], wire[Other(s)][t], k)
    BY <1>2, SideFacts, CarriesItsData DEF AllCarried
  <2>3. Sent(Other(s), k)' >= Sent(Other(s), k)
    BY <1>4, <1>5
  <2> QED
    BY <1>1, <1>4, <2>1, <2>2, <2>3, WayLess
<1> QED
  BY <1>6, <1>7

(* A queued item leaves the hand.                                          *)
LEMMA EnqueuedApart ==
  ASSUME TypeOK, TypeOK', AllApart, NEW l0 \in Loops, Enqueued(l0)
  PROVE  AllApart'
<1> DEFINE k0 == hand[l0].conn
           s0 == SideOf(l0)
           c == end[s0][k0]
<1>1. /\ hand \in Hands /\ k0 \in Conns /\ s0 \in Sides /\ l0 \in LoopsOf(s0) /\ Holds(hand, l0, k0)
  BY SideFacts, TypeParts DEF Enqueued, RestTyped, Hands, LoopsOf, Holds
<1>2. /\ end' = [end EXCEPT ![s0][k0] = Queued(c, hand[l0].item)] /\ c \in EndOf(s0)
      /\ hand' = [hand EXCEPT ![l0] = None] /\ UNCHANGED wire
  BY <1>1, TypeParts DEF Enqueued, EndsTyped
<1>3. \A r \in Sides, j \in Conns :
        IF r = s0 /\ j = k0
          THEN /\ end'[r][j].got = c.got /\ end'[r][j].queue = Append(c.queue, hand[l0].item)
               /\ end'[r][j].pump = c.pump /\ end'[r][j].read = c.read
          ELSE end'[r][j] = end[r][j]
  BY <1>1, <1>2, TypeParts DEF EndsTyped, EndOf, Ends, Queued
<1>4. \A r \in Sides, j \in Conns : Sent(r, j)' = Sent(r, j)
  BY <1>3 DEF Sent
<1> SUFFICES ASSUME NEW s \in Sides, NEW k \in Conns
             PROVE  (end'[s][k].pump = "send" => end'[s][k].read > 0) /\ Way(s, k)'
  BY DEF AllApart
<1>5. end'[s][k].pump = "send" => end'[s][k].read > 0
  <2>1. end[s][k].pump = "send" => end[s][k].read > 0
    BY DEF AllApart
  <2>2. end'[s][k].pump = end[s][k].pump /\ end'[s][k].read = end[s][k].read
    BY <1>3
  <2> QED
    BY <2>1, <2>2
<1>6. Way(s, k) /\ Other(s) \in Sides /\ Sent(Other(s), k) \in Int
  BY SideFacts, WayTypes DEF AllApart
<1>7. Sent(Other(s), k)' = Sent(Other(s), k)
  BY <1>4, <1>6
<1>8. CASE s = s0 /\ k = k0
  <2> DEFINE g == end[s][k].got
             q == end[s][k].queue
             n == Sent(Other(s), k)
             w == wire[Other(s)]
  <2>1. g \in Seq(Nat) /\ q \in Seq(Nat)
    BY WayTypes
  <2>2. Apart(g, Append(q, hand[l0].item), [hand EXCEPT ![l0] = None], w, n, s, k)
    <3>1. Apart(g, q, hand, w, n, s, k)
      BY <1>6 DEF Way
    <3>2. n \in Int /\ l0 \in LoopsOf(s) /\ Holds(hand, l0, k)
      BY <1>1, <1>6, <1>8
    <3> HIDE DEF g, q, n, w
    <3> QED
      BY <1>1, <2>1, <3>1, <3>2, ApartEnqueue
  <2>3. end'[s][k].got = g /\ end'[s][k].queue = Append(q, hand[l0].item) /\ wire'[Other(s)] = w
    BY <1>2, <1>3, <1>8
  <2> QED
    BY <1>2, <1>5, <1>7, <2>2, <2>3 DEF Way
<1>9. CASE ~(s = s0 /\ k = k0)
  <2>1. \A l \in LoopsOf(s) : Holds(hand', l, k) => hand'[l] = hand[l]
    <3>1. \A l \in Loops : hand'[l] = IF l = l0 THEN None ELSE hand[l]
      BY <1>1, <1>2 DEF Hands
    <3> QED
      BY <3>1 DEF Holds, LoopsOf
  <2>2. \A t \in Tunnels : CarriesData(wire'[Other(s)][t], wire[Other(s)][t], k)
    BY <1>2, SameData
  <2>3. Sent(Other(s), k)' >= Sent(Other(s), k)
    BY <1>6, <1>7
  <2>4. end'[s][k] = end[s][k]
    BY <1>3, <1>9
  <2> QED
    BY <1>5, <1>6, <2>1, <2>2, <2>3, <2>4, WayLess
<1> QED
  BY <1>8, <1>9

(* Items stay apart, step by step.                                         *)
LEMMA ApartStep ==
  ASSUME TypeOK, AllApart, [Next]_vars
  PROVE  AllApart'
<1>1. TypeOK'
  BY TypeStep
<1> QED
  BY <1>1, Kinds, FadesApart, SendApart, ReadDataApart, DeliverApart, AcceptApart,
     ReceiveDataApart, EnqueuedApart, ReceiveConnectApart

-----------------------------------------------------------------------------
(* Before the first loss: one tunnel, one exit forwarder.                  *)

OneTunnel ==
  /\ tunnel = 1 /\ link[1] = "up"
  /\ \A t \in Tunnels : t # 1 => server[t] = "off" /\ hand[t] = None

OneExit == exits[1] \in {"new", "added", "running"} /\ \A x \in Exits : x # 1 => exits[x] = "new"

OneSender ==
  /\ server[1] \in {"choose", "register", "recheck", "sender", "read"}
  /\ server[1] = "read" => sender[1] = 1
  /\ \A k \in Conns : owner[k] # None => owner[k] = 1 /\ server[1] = "read"

Quiet == faults = 0 => OneTunnel /\ OneExit /\ OneSender

(* No fault yet: one tunnel and one forwarder to come.                     *)
LEMMA InitQuiet == Init => Quiet
  BY SideFacts DEF Init, Quiet, OneTunnel, OneExit, OneSender, Loops

(* Faults are never forgotten.                                             *)
LEMMA FaultsGrow ==
  ASSUME TypeOK, [Next]_vars, faults' = 0
  PROVE  UNCHANGED faults
<1>1. faults \in Nat
  <2>1. faults \in 0..MaxFaults
    BY DEF TypeOK
  <2> QED
    BY <2>1
<1>2. ~Fault
  BY <1>1 DEF Fault
<1>3. ASSUME NEW s \in Sides, NEW k \in Conns, PumpStep(s, k)
      PROVE  UNCHANGED faults
  BY <1>3 DEF PumpStep, Send, ReadEnds, EndPump, Deliver, ReadData, DeliveryFails, OutsideCloses
<1>4. ASSUME NEW k \in Conns, Accept(k) \/ ReadPanics(k)
      PROVE  UNCHANGED faults
  BY <1>4 DEF Accept, ReadPanics
<1>5. ASSUME NEW l \in Loops, Loop(l) \/ WritePanics(l)
      PROVE  UNCHANGED faults
  BY <1>5 DEF Loop, ReceiveData, Write, ReceiveClose, WritePanics
<1>6. CASE ReadFails \/ Dial
  BY <1>6 DEF ReadFails, Dial
<1>7. ASSUME NEW t \in Tunnels, ServerStep(t)
      PROVE  UNCHANGED faults
  <2>1. CASE Lose(t) \/ GiveUp(t)
    BY <1>2, <2>1 DEF Lose, GiveUp
  <2>2. CASE ReceiveConnect(t)
    BY <2>2 DEF ReceiveConnect
  <2>3. CASE Choose(t) \/ Register(t) \/ Recheck(t) \/ Adopt(t) \/ SetSender(t) \/ Disconnect(t)
    BY <2>3 DEF Choose, Register, Recheck, Adopt, SetSender, Disconnect
  <2> QED
    BY <1>7, <2>1, <2>2, <2>3 DEF ServerStep
<1>8. ASSUME NEW x \in Exits, Agent(x) \/ Stop(x)
      PROVE  UNCHANGED faults
  BY <1>2, <1>8 DEF Agent, Publish, Notify, Rewire, Start, Stop, StopReturns
<1>9. UNCHANGED vars => UNCHANGED faults
  BY DEF vars
<1> QED
  BY <1>3, <1>4, <1>5, <1>6, <1>7, <1>8, <1>9, Steps

(* There is only one handler to know.                                      *)
LEMMA OneHandler ==
  ASSUME Swap, OneExit
  PROVE  /\ handler \in {None, 1} /\ captured[1] \in {None, 1} /\ current[1] \in {None, 1}
         /\ handler # None => exits[1] # "new"
         /\ captured[1] # None => handler = 1
         /\ server[1] \in {"register", "recheck", "sender", "read"} => captured[1] = 1
         /\ server[1] \in {"recheck", "sender", "read"} => current[1] = 1
<1>1. SetupTyped /\ SwapTyped /\ Handlers /\ SetUp /\ 1 \in Tunnels /\ 1 \in Exits /\ None \notin Exits
  BY SideFacts, TypeParts DEF Swap
<1>2. handler \in {None, 1} /\ captured[1] \in {None, 1} /\ current[1] \in {None, 1}
  BY <1>1 DEF Handlers, OneExit, SetupTyped, SwapTyped
<1>3. exits[1] # "new" => handler = 1
  BY <1>1 DEF Handlers, OneExit
<1> QED
  BY <1>1, <1>2, <1>3 DEF Handlers, SetUp

(* Set-up without a fault concerns the one tunnel and the one handler.     *)
LEMMA ServerQuiet ==
  ASSUME Swap, OneTunnel, OneExit, OneSender, NEW t \in Tunnels, ServerStep(t), ~Fault
  PROVE  (OneTunnel /\ OneExit /\ OneSender)'
<1>0. /\ NetTyped /\ SetupTyped /\ SwapTyped /\ RestTyped /\ 1 \in Tunnels /\ 1 \in Exits
      /\ 1 # None /\ None \notin Exits
  BY SideFacts, TypeParts DEF Swap
<1>1. t = 1
  <2>1. ~Lose(t) /\ ~GiveUp(t)
    BY DEF Lose, GiveUp
  <2>2. server[t] # "off"
    <3>1. CASE ReceiveConnect(t)
      <4>1. t # ClientLoop
        BY SideFacts
      <4> QED
        BY <3>1, <4>1 DEF ReceiveConnect, Reading
    <3>2. CASE Choose(t) \/ Register(t) \/ Recheck(t) \/ Adopt(t) \/ SetSender(t) \/ Disconnect(t)
      BY <3>2 DEF Choose, Register, Recheck, Adopt, SetSender, Disconnect
    <3> QED
      BY <2>1, <3>1, <3>2 DEF ServerStep
  <2> QED
    BY <2>2 DEF OneTunnel
<1>2. ASSUME NEW l \in {"register", "recheck", "sender", "read"},
             server' = [server EXCEPT ![t] = l], l = "read" => sender'[1] = 1, server[t] # "read", UNCHANGED <<link, tunnel, exits, owner, hand>>
      PROVE  (OneTunnel /\ OneExit /\ OneSender)'
  <2>1. OneTunnel' /\ OneExit'
    BY <1>0, <1>1, <1>2 DEF OneTunnel, OneExit, SetupTyped
  <2>2. OneSender'
    BY <1>0, <1>1, <1>2 DEF OneSender, SetupTyped
  <2> QED
    BY <2>1, <2>2
<1>3. CASE Choose(t)
  <2>1. server' = [server EXCEPT ![t] = "register"] /\ server[t] # "read"
    BY <1>3 DEF Choose, ServerGoto
  <2>2. UNCHANGED <<link, tunnel, exits, owner, hand>>
    BY <1>3 DEF Choose, net, swap
  <2> QED
    BY <1>2, <2>1, <2>2
<1>4. CASE Register(t)
  <2>1. server' = [server EXCEPT ![t] = "recheck"] /\ server[t] # "read"
    BY <1>4 DEF Register, ServerGoto
  <2>2. UNCHANGED <<link, tunnel, exits, owner, hand>>
    BY <1>4 DEF Register, net, swap
  <2> QED
    BY <1>2, <2>1, <2>2
<1>5. CASE Recheck(t)
  <2>1. handler = captured[t]
    BY <1>0, <1>1, <1>5, OneHandler DEF Recheck
  <2>2. server' = [server EXCEPT ![t] = "sender"] /\ server[t] # "read"
    BY <1>5, <2>1 DEF Recheck, ServerGoto
  <2>3. UNCHANGED <<link, tunnel, exits, owner, hand>>
    BY <1>5 DEF Recheck, net, swap
  <2> QED
    BY <1>2, <2>2, <2>3
<1>6. CASE SetSender(t)
  <2>1. captured[1] = 1
    BY <1>1, <1>6, OneHandler DEF SetSender
  <2>2. sender' = [sender EXCEPT ![1] = 1] /\ server' = [server EXCEPT ![t] = "read"]
    BY <1>1, <1>6, <2>1 DEF SetSender, ServerGoto
  <2>3. sender'[1] = 1
    BY <1>0, <2>2 DEF SwapTyped
  <2>4. UNCHANGED <<link, tunnel, exits, owner, hand>> /\ server[t] # "read"
    BY <1>6 DEF SetSender, net
  <2> QED
    BY <1>2, <2>2, <2>3, <2>4
<1>7. CASE ReceiveConnect(t)
  <2>1. /\ \E k \in Conns : owner' = [owner EXCEPT ![k] = current[t]]
        /\ server[1] = "read" /\ UNCHANGED <<link, tunnel, setup, swap, hand>>
    BY <1>1, <1>7, ReceiveConnectFacts DEF Swap
  <2>2. current[1] = 1
    BY <2>1, OneHandler
  <2>3. OneTunnel' /\ OneExit'
    BY <2>1 DEF OneTunnel, OneExit, setup, swap
  <2>4. OneSender'
    BY <1>0, <1>1, <2>1, <2>2 DEF OneSender, RestTyped, setup, swap
  <2> QED
    BY <2>3, <2>4
<1>8. ~Adopt(t) /\ ~Disconnect(t) /\ ~Lose(t) /\ ~GiveUp(t)
  BY <1>1 DEF Adopt, Disconnect, Lose, GiveUp, OneTunnel, OneSender
<1> QED
  BY <1>3, <1>4, <1>5, <1>6, <1>7, <1>8 DEF ServerStep

(* One tunnel and one forwarder until the first fault, step by step.       *)
LEMMA QuietStep ==
  ASSUME Swap, Quiet, [Next]_vars
  PROVE  Quiet'
<1> SUFFICES ASSUME faults' = 0 PROVE (OneTunnel /\ OneExit /\ OneSender)'
  BY DEF Quiet
<1>0. /\ UNCHANGED faults /\ OneTunnel /\ OneExit /\ OneSender
      /\ NetTyped /\ SetupTyped /\ SwapTyped /\ RestTyped /\ 1 \in Tunnels /\ 1 \in Exits
      /\ None \notin Tunnels /\ 1 # None /\ Exits \subseteq Int /\ \A x \in Exits : x >= 1
  BY FaultsGrow, SideFacts, TypeParts DEF Swap, Quiet, Exits
<1>1. ~Fault
  <2>1. faults \in Nat
    BY <1>0
  <2> QED
    BY <1>0, <2>1 DEF Fault
<1>2. UNCHANGED <<link, tunnel, server, exits, sender, owner, hand>> => (OneTunnel /\ OneExit /\ OneSender)'
  BY <1>0 DEF OneTunnel, OneExit, OneSender
<1>3. CASE UNCHANGED vars
  BY <1>2, <1>3 DEF vars, net, setup, swap
<1>4. ASSUME NEW s \in Sides, NEW k \in Conns, PumpStep(s, k)
      PROVE  UNCHANGED <<link, tunnel, server, exits, sender, owner, hand>>
  BY <1>4
  DEF PumpStep, Send, ReadEnds, EndPump, Deliver, ReadData, DeliveryFails, OutsideCloses, net, setup, swap
<1>5. ASSUME NEW k \in Conns, Accept(k) \/ ReadPanics(k)
      PROVE  UNCHANGED <<link, tunnel, server, exits, sender, owner, hand>>
  BY <1>5 DEF Accept, ReadPanics, net, setup, swap
<1>6. ASSUME NEW l \in Loops, Loop(l) \/ WritePanics(l)
      PROVE  (OneTunnel /\ OneExit /\ OneSender)'
  <2>1. UNCHANGED <<link, tunnel, server, exits, sender, owner>>
    BY <1>6 DEF Loop, ReceiveData, Write, ReceiveClose, WritePanics, net, setup, swap
  <2>2. \A t \in Tunnels : t # 1 => hand'[t] = None
    <3> TAKE t \in Tunnels
    <3> HAVE t # 1
    <3>0. t \in Loops /\ t # ClientLoop /\ hand[t] = None /\ server[t] = "off"
      BY <1>0, SideFacts DEF OneTunnel
    <3>1. CASE UNCHANGED hand
      BY <3>0, <3>1
    <3>2. CASE ReceiveData(l)
      <4>1. t # l
        BY <3>0, <3>2 DEF ReceiveData, Reading
      <4>2. \/ hand' = hand
            \/ hand' = [hand EXCEPT ![l] = [conn |-> Head(Pending(l)).conn, item |-> Head(Pending(l)).item]]
        BY <3>2 DEF ReceiveData
      <4> QED
        BY <1>0, <3>0, <4>1, <4>2 DEF RestTyped
    <3>3. CASE Write(l)
      BY <1>0, <3>0, <3>3 DEF Write, RestTyped
    <3>4. CASE ReceiveClose(l) \/ WritePanics(l)
      BY <3>1, <3>4 DEF ReceiveClose, WritePanics
    <3> QED
      BY <1>6, <3>2, <3>3, <3>4 DEF Loop
  <2> QED
    BY <1>0, <2>1, <2>2 DEF OneTunnel, OneExit, OneSender
<1>7. ~ReadFails /\ ~Dial
  BY <1>0 DEF ReadFails, Dial, OneTunnel
<1>8. ASSUME NEW x \in Exits, Agent(x) \/ Stop(x)
      PROVE  (OneTunnel /\ OneExit /\ OneSender)'
  <2>1. x = 1 /\ ((Publish(x) /\ handler = None) \/ Start(x))
    <3>1. ~Notify(x) /\ ~Rewire(x) /\ ~StopReturns(x) /\ ~Stop(x)
      BY <1>0, <1>1 DEF Notify, Rewire, StopReturns, Stop, OneExit
    <3>2. Start(x) => x = 1
      BY <1>0 DEF Start, OneExit
    <3>3. Publish(x) => x = 1 /\ handler = None
      BY <1>0, OneHandler DEF Publish, OneExit
    <3> QED
      BY <1>8, <3>1, <3>2, <3>3 DEF Agent
  <2>2. \E l \in {"added", "running"} : exits' = [exits EXCEPT ![1] = l]
    BY <2>1 DEF Publish, Start, ExitGoto
  <2>3. UNCHANGED <<link, tunnel, server, sender, owner, hand>>
    BY <2>1 DEF Publish, Start, net, setup
  <2> QED
    BY <1>0, <2>2, <2>3 DEF OneTunnel, OneExit, OneSender, SwapTyped
<1>9. ASSUME NEW t \in Tunnels, ServerStep(t)
      PROVE  (OneTunnel /\ OneExit /\ OneSender)'
  BY <1>0, <1>1, <1>9, ServerQuiet
<1> QED
  BY <1>2, <1>3, <1>4, <1>5, <1>6, <1>7, <1>8, <1>9, Steps

(* What stays of the messages of a connection when nothing is lost.        *)

LEMMA TailAt ==
  ASSUME NEW q \in Seq(Messages), q # <<>>
  PROVE  /\ \A p \in Nat : p \in 1..Len(Tail(q)) =>
              p + 1 \in 1..Len(q) /\ p + 1 # 1 /\ Tail(q)[p] = q[p + 1]
         /\ \A p \in 1..Len(q) : p # 1 =>
              p - 1 \in Nat /\ p - 1 \in 1..Len(Tail(q)) /\ Tail(q)[p - 1] = q[p]
         /\ Head(q) = q[1] /\ 1 \in 1..Len(q) /\ Tail(q) \in Seq(Messages)
<1>1. /\ Len(Tail(q)) = Len(q) - 1 /\ Head(q) = q[1] /\ Tail(q) \in Seq(Messages)
      /\ \A p \in 1..Len(Tail(q)) : Tail(q)[p] = q[p + 1]
  BY HeadTailProperties
<1>2. Len(q) \in Nat /\ Len(q) > 0
  OBVIOUS
<1>3. ASSUME NEW p \in 1..Len(q), p # 1
      PROVE  p - 1 \in Nat /\ p - 1 \in 1..Len(Tail(q)) /\ Tail(q)[p - 1] = q[p]
  <2>1. p - 1 \in Nat /\ p - 1 \in 1..Len(Tail(q)) /\ (p - 1) + 1 = p
    BY <1>1, <1>2, <1>3
  <2> QED
    BY <1>1, <2>1
<1> QED
  BY <1>1, <1>2, <1>3

(* A message added comes last, the others keep their places.               *)
LEMMA AppendAt ==
  ASSUME NEW q \in Seq(Messages), NEW m \in Messages
  PROVE  /\ \A p \in 1..Len(q) : p \in 1..Len(Append(q, m)) /\ Append(q, m)[p] = q[p]
         /\ \A p \in 1..Len(Append(q, m)) : p \in 1..Len(q) \/ p = Len(q) + 1
         /\ Append(q, m)[Len(q) + 1] = m /\ Len(q) + 1 \in 1..Len(Append(q, m)) /\ Len(q) \in Nat
         /\ Append(q, m) \in Seq(Messages)
<1>1. /\ Len(Append(q, m)) = Len(q) + 1 /\ Append(q, m)[Len(q) + 1] = m
      /\ \A p \in 1..Len(q) : Append(q, m)[p] = q[p]
      /\ Append(q, m) \in Seq(Messages)
  BY AppendProperties
<1>2. Len(q) \in Nat
  OBVIOUS
<1> QED
  BY <1>1, <1>2

ConnAt(q, p, k) == p \in 1..Len(q) /\ q[p].type = "connect" /\ q[p].conn = k
ItemAt(q, p, k) == DataAt(q, p, k) \/ ConnAt(q, p, k)

(* The connect and data messages of k in q1 are those in q.                *)
Keeps(q1, q, k) ==
  \E d \in Nat :
    /\ \A p \in Nat : ItemAt(q1, p, k) => ItemAt(q, p + d, k) /\ q1[p] = q[p + d]
    /\ \A p \in Nat : ItemAt(q, p, k) => \E r \in Nat : r + d = p /\ ItemAt(q1, r, k)

(* No change to the messages.                                              *)
LEMMA KeepsSame ==
  ASSUME NEW q, NEW k
  PROVE  Keeps(q, q, k)
<1>1. /\ \A p \in Nat : ItemAt(q, p, k) => ItemAt(q, p + 0, k) /\ q[p] = q[p + 0]
      /\ \A p \in Nat : ItemAt(q, p, k) => \E r \in Nat : r + 0 = p /\ ItemAt(q, r, k)
  OBVIOUS
<1> QED
  BY <1>1 DEF Keeps

(* A close, or a message of another connection, is added.                  *)
LEMMA KeepsAppend ==
  ASSUME NEW q, NEW q1 \in Seq(Messages), NEW k, Keeps(q1, q, k),
         NEW m \in Messages, m.type = "close" \/ m.conn # k
  PROVE  Keeps(Append(q1, m), q, k)
<1>1. PICK d \in Nat :
        /\ \A p \in Nat : ItemAt(q1, p, k) => ItemAt(q, p + d, k) /\ q1[p] = q[p + d]
        /\ \A p \in Nat : ItemAt(q, p, k) => \E r \in Nat : r + d = p /\ ItemAt(q1, r, k)
  BY DEF Keeps
<1>2. \A p \in Nat : ItemAt(Append(q1, m), p, k) => ItemAt(q1, p, k) /\ Append(q1, m)[p] = q1[p]
  BY AppendAt DEF ItemAt, DataAt, ConnAt
<1>3. \A p \in Nat : ItemAt(q1, p, k) => ItemAt(Append(q1, m), p, k)
  BY AppendAt DEF ItemAt, DataAt, ConnAt
<1>4. /\ \A p \in Nat : ItemAt(Append(q1, m), p, k) => ItemAt(q, p + d, k) /\ Append(q1, m)[p] = q[p + d]
      /\ \A p \in Nat : ItemAt(q, p, k) => \E r \in Nat : r + d = p /\ ItemAt(Append(q1, m), r, k)
  BY <1>1, <1>2, <1>3
<1> QED
  BY <1>4 DEF Keeps

(* A close, or a message of another connection, is read.                   *)
LEMMA KeepsTail ==
  ASSUME NEW q \in Seq(Messages), NEW k, q # <<>>, Head(q).type = "close" \/ Head(q).conn # k
  PROVE  Keeps(Tail(q), q, k)
<1>1. \A p \in Nat : ItemAt(Tail(q), p, k) => ItemAt(q, p + 1, k) /\ Tail(q)[p] = q[p + 1]
  BY TailAt DEF ItemAt, DataAt, ConnAt
<1>2. ASSUME NEW p \in Nat, ItemAt(q, p, k)
      PROVE  \E r \in Nat : r + 1 = p /\ ItemAt(Tail(q), r, k)
  <2>1. p \in 1..Len(q) /\ p # 1
    BY <1>2, TailAt DEF ItemAt, DataAt, ConnAt
  <2>2. p - 1 \in Nat /\ ItemAt(Tail(q), p - 1, k) /\ (p - 1) + 1 = p
    BY <1>2, <2>1, TailAt DEF ItemAt, DataAt, ConnAt
  <2> QED
    BY <2>2
<1> QED
  BY <1>1, <1>2 DEF Keeps

Kept(w1, w, k) == \A s \in Sides : Keeps(w1[s][1], w[s][1], k)

(* No change to the tunnel.                                                *)
LEMMA KeptSame ==
  ASSUME NEW w, NEW k
  PROVE  Kept(w, w, k)
  BY KeepsSame DEF Kept

(* Of the tunnel, a close or a message of another connection is read.      *)
LEMMA KeptTail ==
  ASSUME NEW w \in Wires, NEW s \in Sides, NEW t \in Tunnels, NEW k, w[s][t] # <<>>,
         Head(w[s][t]).type = "close" \/ Head(w[s][t]).conn # k
  PROVE  Kept([w EXCEPT ![s][t] = Tail(@)], w, k)
<1>1. Keeps(Tail(w[s][t]), w[s][t], k)
  BY KeepsTail DEF Wires
<1> QED
  BY <1>1, KeepsSame, SideFacts DEF Kept, Wires

(* To the tunnel, a close or a message of another connection is added.     *)
LEMMA KeptAppend ==
  ASSUME NEW w, NEW w1 \in Wires, NEW k, Kept(w1, w, k), NEW s \in Sides, NEW t,
         NEW m \in Messages, m.type = "close" \/ m.conn # k
  PROVE  Kept([w1 EXCEPT ![s][t] = Append(@, m)], w, k)
<1>1. CASE t = 1
  <2>1. Keeps(Append(w1[s][1], m), w[s][1], k)
    BY KeepsAppend, SideFacts DEF Kept, Wires
  <2>2. [w1 EXCEPT ![s][t] = Append(@, m)] = [w1 EXCEPT ![s] = [@ EXCEPT ![1] = Append(w1[s][1], m)]]
    BY <1>1
  <2> QED
    BY <1>1, <2>1, SideFacts DEF Kept, Wires
<1>2. CASE t # 1
  BY <1>2, SideFacts DEF Kept, Wires
<1> QED
  BY <1>1, <1>2

(* Closing a connection keeps all data in the tunnel.                      *)
LEMMA KeptCloseConn ==
  ASSUME NEW w, NEW w1 \in Wires, NEW k, Kept(w1, w, k), NEW s \in Sides, NEW j \in Conns,
         NEW c, CloseConn(s, j, w1, c)
  PROVE  Kept(wire', w, k)
<1>1. Message("close", j, 0) \in Messages /\ Message("close", j, 0).type = "close"
  BY MessageType DEF Message
<1>2. \A t : Kept([w1 EXCEPT ![s][t] = Append(@, Message("close", j, 0))], w, k)
  BY <1>1, KeptAppend
<1> QED
  BY <1>2 DEF CloseConn, Put

(* The data of k in q: items a to n, in order.                             *)
Line(q, k, a, n) ==
  /\ \A p \in Nat : DataAt(q, p, k) => q[p].item \in a..n
  /\ \A i \in a..n : \E p \in Nat : DataAt(q, p, k) /\ q[p].item = i
  /\ \A p, r \in Nat : DataAt(q, p, k) /\ DataAt(q, r, k) /\ p < r => q[p].item < q[r].item

(* The places of all data move alike.                                      *)
LEMMA LineShift ==
  ASSUME NEW q, NEW q1, NEW k, NEW a, NEW n, Line(q, k, a, n), NEW d \in Nat,
         \A p \in Nat : DataAt(q1, p, k) => DataAt(q, p + d, k) /\ q1[p] = q[p + d],
         \A p \in Nat : DataAt(q, p, k) => \E r \in Nat : r + d = p /\ DataAt(q1, r, k)
  PROVE  Line(q1, k, a, n)
<1>1. \A p \in Nat : DataAt(q1, p, k) => q1[p].item \in a..n
  BY DEF Line
<1>2. ASSUME NEW i \in a..n
      PROVE  \E p \in Nat : DataAt(q1, p, k) /\ q1[p].item = i
  <2>1. PICK p \in Nat : DataAt(q, p, k) /\ q[p].item = i
    BY DEF Line
  <2>2. PICK r \in Nat : r + d = p /\ DataAt(q1, r, k)
    BY <2>1
  <2> QED
    BY <2>1, <2>2
<1>3. ASSUME NEW p \in Nat, NEW r \in Nat, DataAt(q1, p, k), DataAt(q1, r, k), p < r
      PROVE  q1[p].item < q1[r].item
  <2>1. p + d \in Nat /\ r + d \in Nat /\ p + d < r + d
    BY <1>3
  <2>2. DataAt(q, p + d, k) /\ DataAt(q, r + d, k) /\ q1[p] = q[p + d] /\ q1[r] = q[r + d]
    BY <1>3
  <2> QED
    BY <2>1, <2>2 DEF Line
<1> QED
  BY <1>1, <1>2, <1>3 DEF Line

(* The messages of k are kept.                                             *)
LEMMA LineKept ==
  ASSUME NEW q, NEW q1, NEW k, NEW a, NEW n, Line(q, k, a, n), Keeps(q1, q, k)
  PROVE  Line(q1, k, a, n)
<1>1. PICK d \in Nat :
        /\ \A p \in Nat : ItemAt(q1, p, k) => ItemAt(q, p + d, k) /\ q1[p] = q[p + d]
        /\ \A p \in Nat : ItemAt(q, p, k) => \E r \in Nat : r + d = p /\ ItemAt(q1, r, k)
  BY DEF Keeps
<1>2. \A p \in Nat : DataAt(q1, p, k) => DataAt(q, p + d, k) /\ q1[p] = q[p + d]
  BY <1>1 DEF ItemAt, DataAt, ConnAt
<1>3. ASSUME NEW p \in Nat, DataAt(q, p, k)
      PROVE  \E r \in Nat : r + d = p /\ DataAt(q1, r, k)
  <2>1. PICK r \in Nat : r + d = p /\ ItemAt(q1, r, k)
    BY <1>1, <1>3 DEF ItemAt
  <2>2. q1[r] = q[p]
    BY <1>1, <2>1
  <2> QED
    BY <1>3, <2>1, <2>2 DEF ItemAt, DataAt, ConnAt
<1> QED
  BY <1>2, <1>3, LineShift

(* A message that is not data is added.                                    *)
LEMMA LineOther ==
  ASSUME NEW q \in Seq(Messages), NEW k, NEW a, NEW n, Line(q, k, a, n),
         NEW m \in Messages, m.type # "data"
  PROVE  Line(Append(q, m), k, a, n)
<1>1. \A p \in Nat : DataAt(Append(q, m), p, k) => DataAt(q, p + 0, k) /\ Append(q, m)[p] = q[p + 0]
  BY AppendAt DEF DataAt
<1>2. \A p \in Nat : DataAt(q, p, k) => \E r \in Nat : r + 0 = p /\ DataAt(Append(q, m), r, k)
  BY AppendAt DEF DataAt
<1> QED
  BY <1>1, <1>2, LineShift

(* A message that is not data is read.                                     *)
LEMMA LineDrop ==
  ASSUME NEW q \in Seq(Messages), NEW k, NEW a, NEW n, Line(q, k, a, n),
         q # <<>>, Head(q).type # "data"
  PROVE  Line(Tail(q), k, a, n)
<1>1. \A p \in Nat : DataAt(Tail(q), p, k) => DataAt(q, p + 1, k) /\ Tail(q)[p] = q[p + 1]
  BY TailAt DEF DataAt
<1>2. ASSUME NEW p \in Nat, DataAt(q, p, k)
      PROVE  \E r \in Nat : r + 1 = p /\ DataAt(Tail(q), r, k)
  <2>1. p \in 1..Len(q) /\ p # 1
    BY <1>2, TailAt DEF DataAt
  <2>2. p - 1 \in Nat /\ DataAt(Tail(q), p - 1, k) /\ (p - 1) + 1 = p
    BY <1>2, <2>1, TailAt DEF DataAt
  <2> QED
    BY <2>2
<1> QED
  BY <1>1, <1>2, LineShift

(* The next item is added at the end.                                      *)
LEMMA LineSend ==
  ASSUME NEW q \in Seq(Messages), NEW k, NEW a \in Int, NEW n \in Int, Line(q, k, a, n), a <= n + 1,
         NEW m \in Messages, m.type = "data", m.conn = k, m.item = n + 1
  PROVE  Line(Append(q, m), k, a, n + 1)
<1> DEFINE e == Len(q) + 1
           q1 == Append(q, m)
<1>1. /\ e \in Nat /\ q1[e] = m /\ DataAt(q1, e, k)
      /\ \A p \in Nat : DataAt(q, p, k) => DataAt(q1, p, k) /\ q1[p] = q[p] /\ p < e
      /\ \A p \in Nat : DataAt(q1, p, k) => p = e \/ DataAt(q, p, k)
  BY AppendAt DEF DataAt
<1> HIDE DEF e, q1
<1>2. \A p \in Nat : DataAt(q, p, k) => q[p].item \in a..n /\ q[p].item < n + 1
  BY DEF Line
<1>3. \A p \in Nat : DataAt(q1, p, k) => q1[p].item \in a..(n + 1)
  BY <1>1, <1>2
<1>4. ASSUME NEW i \in a..(n + 1)
      PROVE  \E p \in Nat : DataAt(q1, p, k) /\ q1[p].item = i
  <2>1. CASE i = n + 1
    BY <1>1, <2>1
  <2>2. CASE i # n + 1
    <3>0. i \in a..n
      BY <2>2
    <3>1. PICK p \in Nat : DataAt(q, p, k) /\ q[p].item = i
      BY <3>0 DEF Line
    <3> QED
      BY <1>1, <3>1
  <2> QED
    BY <2>1, <2>2
<1>5. ASSUME NEW p \in Nat, NEW r \in Nat, DataAt(q1, p, k), DataAt(q1, r, k), p < r
      PROVE  q1[p].item < q1[r].item
  <2>1. CASE r = e
    BY <1>1, <1>2, <1>5, <2>1
  <2>2. CASE r # e
    <3>1. DataAt(q, p, k) /\ DataAt(q, r, k) /\ q1[p] = q[p] /\ q1[r] = q[r]
      BY <1>1, <1>5, <2>2
    <3> QED
      BY <1>5, <3>1 DEF Line
  <2> QED
    BY <2>1, <2>2
<1> QED
  BY <1>3, <1>4, <1>5 DEF Line, q1

(* The item read is the first of the line.                                 *)
LEMMA LineTake ==
  ASSUME NEW q \in Seq(Messages), NEW k, NEW a \in Int, NEW n \in Int, Line(q, k, a, n),
         q # <<>>, Head(q).type = "data", Head(q).conn = k
  PROVE  Head(q).item = a /\ a <= n /\ Line(Tail(q), k, a + 1, n)
<1> DEFINE q1 == Tail(q)
<1>1. /\ DataAt(q, 1, k) /\ Head(q) = q[1]
      /\ \A p \in Nat : DataAt(q1, p, k) => DataAt(q, p + 1, k) /\ q1[p] = q[p + 1] /\ p > 0
      /\ \A p \in Nat : DataAt(q, p, k) => p > 0
  BY TailAt DEF DataAt
<1>2. ASSUME NEW p \in Nat, DataAt(q, p, k), p # 1
      PROVE  p - 1 \in Nat /\ DataAt(q1, p - 1, k) /\ q1[p - 1] = q[p]
  BY <1>2, TailAt DEF DataAt
<1> HIDE DEF q1
<1>3. q[1].item \in a..n /\ a <= n
  BY <1>1 DEF Line
<1>4. q[1].item = a
  <2>1. PICK p \in Nat : DataAt(q, p, k) /\ q[p].item = a
    BY <1>3 DEF Line
  <2>2. CASE p # 1
    <3>1. 1 < p
      BY <1>1, <2>1, <2>2
    <3>2. q[1].item < a
      BY <1>1, <2>1, <3>1 DEF Line
    <3> QED
      BY <1>3, <3>2
  <2> QED
    BY <2>1, <2>2
<1>5. \A p \in Nat : DataAt(q1, p, k) => q1[p].item \in (a + 1)..n
  <2> TAKE p \in Nat
  <2> HAVE DataAt(q1, p, k)
  <2>1. DataAt(q, p + 1, k) /\ q1[p] = q[p + 1] /\ 1 < p + 1
    BY <1>1
  <2>2. q[p + 1].item \in a..n /\ q[1].item < q[p + 1].item
    BY <1>1, <2>1 DEF Line
  <2> QED
    BY <1>4, <2>1, <2>2
<1>6. ASSUME NEW i \in (a + 1)..n
      PROVE  \E p \in Nat : DataAt(q1, p, k) /\ q1[p].item = i
  <2>1. i \in a..n
    OBVIOUS
  <2>2. PICK p \in Nat : DataAt(q, p, k) /\ q[p].item = i
    BY <2>1 DEF Line
  <2>3. p # 1
    BY <1>4, <2>2
  <2> QED
    BY <1>2, <2>2, <2>3
<1>7. ASSUME NEW p \in Nat, NEW r \in Nat, DataAt(q1, p, k), DataAt(q1, r, k), p < r
      PROVE  q1[p].item < q1[r].item
  <2>1. /\ DataAt(q, p + 1, k) /\ DataAt(q, r + 1, k) /\ q1[p] = q[p + 1] /\ q1[r] = q[r + 1]
        /\ p + 1 < r + 1
    BY <1>1, <1>7
  <2> QED
    BY <2>1 DEF Line
<1> QED
  BY <1>1, <1>3, <1>4, <1>5, <1>6, <1>7 DEF Line, q1

(* Without data the line is empty.                                         *)
LEMMA LineEmpty ==
  ASSUME NEW q, NEW k, NEW a \in Int, NEW n \in Int, n < a, \A p \in Nat : ~DataAt(q, p, k)
  PROVE  Line(q, k, a, n)
<1>1. \A i \in a..n : FALSE
  OBVIOUS
<1> QED
  BY <1>1 DEF Line

(* A pending Connect comes before all data of its connection, and n items  *)
(* of it were sent.                                                        *)
First(q, k, n) ==
  \A p \in Nat : ConnAt(q, p, k) => Line(q, k, 1, n) /\ \A r \in Nat : DataAt(q, r, k) => p < r

(* The messages of k are kept.                                             *)
LEMMA FirstKept ==
  ASSUME NEW q, NEW q1, NEW k, NEW n, First(q, k, n), Keeps(q1, q, k)
  PROVE  First(q1, k, n)
<1>1. PICK d \in Nat :
        /\ \A p \in Nat : ItemAt(q1, p, k) => ItemAt(q, p + d, k) /\ q1[p] = q[p + d]
        /\ \A p \in Nat : ItemAt(q, p, k) => \E r \in Nat : r + d = p /\ ItemAt(q1, r, k)
  BY DEF Keeps
<1> SUFFICES ASSUME NEW p \in Nat, ConnAt(q1, p, k)
             PROVE  Line(q1, k, 1, n) /\ \A r \in Nat : DataAt(q1, r, k) => p < r
  BY DEF First
<1>2. ConnAt(q, p + d, k) /\ p + d \in Nat
  BY <1>1 DEF ItemAt, DataAt, ConnAt
<1>3. Line(q1, k, 1, n)
  BY <1>2, LineKept DEF First
<1>4. ASSUME NEW r \in Nat, DataAt(q1, r, k)
      PROVE  p < r
  <2>1. DataAt(q, r + d, k) /\ r + d \in Nat
    BY <1>1, <1>4 DEF ItemAt, DataAt, ConnAt
  <2>2. p + d < r + d
    BY <1>2, <2>1 DEF First
  <2> QED
    BY <2>2
<1> QED
  BY <1>3, <1>4

(* Data is added after a pending Connect.                                  *)
LEMMA FirstSend ==
  ASSUME NEW q \in Seq(Messages), NEW k, NEW n \in Nat, First(q, k, n),
         NEW m \in Messages, m.type = "data", m.conn = k, m.item = n + 1
  PROVE  First(Append(q, m), k, n + 1)
<1> SUFFICES ASSUME NEW p \in Nat, ConnAt(Append(q, m), p, k)
             PROVE  /\ Line(Append(q, m), k, 1, n + 1)
                    /\ \A r \in Nat : DataAt(Append(q, m), r, k) => p < r
  BY DEF First
<1>1. ConnAt(q, p, k) /\ p < Len(q) + 1
  BY AppendAt DEF ConnAt
<1>2. Line(Append(q, m), k, 1, n + 1)
  <2>1. Line(q, k, 1, n)
    BY <1>1 DEF First
  <2> QED
    BY <2>1, LineSend
<1>3. \A r \in Nat : DataAt(Append(q, m), r, k) => r = Len(q) + 1 \/ DataAt(q, r, k)
  BY AppendAt DEF DataAt
<1> QED
  BY <1>1, <1>2, <1>3 DEF First

(* A Connect is added when no data of its connection is there.             *)
LEMMA FirstConnect ==
  ASSUME NEW q \in Seq(Messages), NEW k, \A p \in Nat : ~DataAt(q, p, k),
         NEW m \in Messages, m.type # "data"
  PROVE  First(Append(q, m), k, 0)
<1>1. \A p \in Nat : ~DataAt(Append(q, m), p, k)
  BY AppendAt DEF DataAt
<1>2. Line(Append(q, m), k, 1, 0)
  BY <1>1, LineEmpty
<1> QED
  BY <1>1, <1>2 DEF First

(* Data is read only when no Connect is pending.                           *)
LEMMA FirstTake ==
  ASSUME NEW q \in Seq(Messages), NEW k, NEW n, NEW n2, First(q, k, n),
         q # <<>>, Head(q).type = "data", Head(q).conn = k
  PROVE  First(Tail(q), k, n2)
<1> SUFFICES ASSUME NEW p \in Nat, ConnAt(Tail(q), p, k) PROVE FALSE
  BY DEF First
<1>1. ConnAt(q, p + 1, k) /\ DataAt(q, 1, k) /\ p + 1 \in Nat
  BY TailAt DEF ConnAt, DataAt
<1>2. p + 1 < 1
  BY <1>1 DEF First
<1> QED
  BY <1>2

-----------------------------------------------------------------------------
(* The order of a stream, as long as nothing is lost.                      *)

LoopOf(s) == IF s = "entry" THEN ClientLoop ELSE 1

(* An open end: got g, queued q; then what loop l has in hand; then the    *)
(* messages of the tunnel w, up to item n.                                 *)
Along(g, q, h, w, n, l, k) ==
  LET b == Len(g) + Len(q) IN
  /\ \A i \in 1..Len(q) : q[i] = Len(g) + i
  /\ Holds(h, l, k) => h[l].item = b + 1 /\ b + 1 <= n /\ Line(w, k, b + 2, n)
  /\ ~Holds(h, l, k) => b <= n /\ Line(w, k, b + 1, n)

Flowing(s, k) ==
  LET c == end[s][k] IN
  /\ \A i \in 1..Len(c.got) : c.got[i] = i
  /\ c.state = "open" =>
       Along(c.got, c.queue, hand, wire[Other(s)][1], Sent(Other(s), k), LoopOf(s), k)

FirstOf(k) == First(wire["entry"][1], k, Sent("entry", k))

Ordered ==
  faults = 0 => \A k \in Conns : FirstOf(k) /\ \A s \in Sides : Flowing(s, k)

(* The read loop of a side, when there is one tunnel.                      *)
LEMMA LoopFacts ==
  \A s \in Sides : LoopOf(s) \in LoopsOf(s) /\ LoopOf(s) \in Loops /\ SideOf(LoopOf(s)) = s
  BY SideFacts DEF LoopOf, LoopsOf, Sides, SideOf

(* Nothing is under way at the beginning.                                  *)
LEMMA InitOrdered == Init => Ordered
<1> SUFFICES ASSUME Init, NEW k \in Conns, NEW s \in Sides PROVE FirstOf(k) /\ Flowing(s, k)
  BY DEF Ordered, Sides
<1>1. wire["entry"][1] = <<>> /\ end[s][k].got = <<>> /\ end[s][k].state = "none"
  BY SideFacts DEF Init, Sides
<1>2. \A p \in 1..Len(<<>>) : FALSE
  OBVIOUS
<1> QED
  BY <1>1, <1>2 DEF FirstOf, First, ConnAt, Flowing

AllKept == \A k \in Conns : Kept(wire', wire, k)

HandsKept ==
  \A s \in Sides, k \in Conns, l \in Loops :
    l \in LoopsOf(s) /\ end'[s][k].state = "open" /\ Holds(hand, l, k) => hand'[l] = hand[l]

(* An end that is taken out of the map is no longer open.                  *)
LEMMA CloseConnCloses ==
  ASSUME EndsTyped, HeldWhileOpen, NEW s \in Sides, NEW k \in Conns, NEW w,
         CloseConn(s, k, w, end[s][k])
  PROVE  end'[s][k].state # "open"
<1>1. end[s][k] \in EndOf(s)
  BY DEF EndsTyped
<1>2. end'[s][k] = IF end[s][k].held THEN [Shut(end[s][k]) EXCEPT !.held = FALSE] ELSE end[s][k]
  BY DEF CloseConn, EndsTyped
<1>3. [Shut(end[s][k]) EXCEPT !.held = FALSE].state # "open"
  BY <1>1 DEF Shut, EndOf, Ends
<1> QED
  BY <1>2, <1>3 DEF HeldWhileOpen

(* What is dropped from a hand was for an end that is closed with it.      *)
LEMMA KeptSteps ==
  ASSUME TypeOK, HeldWhileOpen, [Next]_vars, faults' = 0
  PROVE  \/ AllKept /\ HandsKept
         \/ \E s \in Sides, k \in Conns : Send(s, k)
         \/ \E l \in Loops : ReceiveData(l) \/ Enqueued(l)
         \/ \E t \in Tunnels : ReceiveConnect(t)
<1>0. EndsTyped /\ wire \in Wires /\ RestTyped
  BY TypeParts
<1>1. UNCHANGED <<wire, hand>> => AllKept /\ HandsKept
  BY KeptSame DEF AllKept, HandsKept
<1>2. CASE UNCHANGED vars
  BY <1>1, <1>2 DEF vars, net
<1>3. ASSUME NEW s \in Sides, NEW k \in Conns, PumpStep(s, k), ~Send(s, k)
      PROVE  AllKept /\ HandsKept
  <2>1. CASE EndPump(s, k)
    <3>1. UNCHANGED hand /\ CloseConn(s, k, wire, [end[s][k] EXCEPT !.pump = "done"])
      BY <2>1 DEF EndPump
    <3>2. AllKept
      BY <1>0, <3>1, KeptSame, KeptCloseConn DEF AllKept
    <3> QED
      BY <3>1, <3>2 DEF HandsKept
  <2>2. CASE ~EndPump(s, k)
    BY <1>1, <1>3, <2>2
    DEF PumpStep, ReadEnds, Deliver, ReadData, DeliveryFails, OutsideCloses, net
  <2> QED
    BY <2>1, <2>2
<1>4. ASSUME NEW k \in Conns, Accept(k) \/ ReadPanics(k)
      PROVE  AllKept /\ HandsKept
  BY <1>1, <1>4 DEF Accept, ReadPanics, net
<1>5. ASSUME NEW l \in Loops, Loop(l) \/ WritePanics(l), ~ReceiveData(l), ~Enqueued(l)
      PROVE  AllKept /\ HandsKept
  <2>1. CASE Write(l)
    <3> DEFINE k0 == hand[l].conn
               s0 == SideOf(l)
    <3>1. k0 \in Conns /\ s0 \in Sides
      BY <1>0, <2>1, SideFacts DEF Write, RestTyped
    <3>2. CloseConn(s0, k0, wire, end[s0][k0]) /\ hand' = [hand EXCEPT ![l] = None]
      BY <1>5, <2>1 DEF Write, Enqueue, Enqueued
    <3>3. AllKept
      BY <1>0, <3>1, <3>2, KeptSame, KeptCloseConn DEF AllKept
    <3>4. end'[s0][k0].state # "open"
      BY <1>0, <3>1, <3>2, CloseConnCloses
    <3>5. \A m \in Loops : m # l => hand'[m] = hand[m]
      BY <1>0, <3>2 DEF RestTyped
    <3> QED
      BY <3>3, <3>4, <3>5 DEF HandsKept, Holds, LoopsOf
  <2>2. CASE ReceiveClose(l)
    <3> DEFINE k0 == Head(Pending(l)).conn
               s0 == SideOf(l)
    <3>1. /\ k0 \in Conns /\ s0 \in Sides /\ Other(s0) \in Sides /\ Rest(l) \in Wires
          /\ Source(l) \in Tunnels /\ UNCHANGED hand
      BY <2>2, LoopReads, SideFacts DEF ReceiveClose
    <3>2. wire' = Rest(l) \/ CloseConn(s0, k0, Rest(l), end[s0][k0])
      BY <2>2 DEF ReceiveClose
    <3>3. \A k : Kept(Rest(l), wire, k)
      BY <1>0, <2>2, <3>1, KeptTail DEF ReceiveClose, Pending, Rest
    <3>4. AllKept
      BY <3>1, <3>2, <3>3, KeptCloseConn DEF AllKept
    <3> QED
      BY <3>1, <3>4 DEF HandsKept
  <2>3. CASE WritePanics(l)
    BY <1>1, <2>3 DEF WritePanics, net
  <2> QED
    BY <1>5, <2>1, <2>2, <2>3 DEF Loop
<1>6. CASE ReadFails \/ Dial
  BY <1>1, <1>6 DEF ReadFails, Dial
<1>7. ASSUME NEW t \in Tunnels, ServerStep(t), ~ReceiveConnect(t)
      PROVE  AllKept /\ HandsKept
  <2>1. faults \in 0..MaxFaults
    BY DEF TypeOK
  <2>2. ~Fault
    BY <2>1, FaultsGrow DEF Fault
  <2>3. ~Lose(t) /\ ~GiveUp(t)
    BY <2>2 DEF Lose, GiveUp
  <2> QED
    BY <1>1, <1>7, <2>3 DEF ServerStep, Choose, Register, Recheck, Adopt, SetSender, Disconnect, net
<1>8. ASSUME NEW x \in Exits, Agent(x) \/ Stop(x)
      PROVE  AllKept /\ HandsKept
  BY <1>1, <1>8 DEF Agent, Publish, Notify, Rewire, Start, Stop, StopReturns, net
<1> QED
  BY <1>2, <1>3, <1>4, <1>5, <1>6, <1>7, <1>8, Steps

(* A step that leaves the way to an open end as it is.                     *)
LEMMA FlowKept ==
  ASSUME TypeOK, NEW s \in Sides, NEW k \in Conns, Flowing(s, k),
         end'[s][k].got = end[s][k].got,
         end'[s][k].state = "open" =>
           /\ end[s][k].state = "open" /\ end'[s][k].queue = end[s][k].queue
           /\ Holds(hand, LoopOf(s), k) \/ Holds(hand', LoopOf(s), k) =>
                hand'[LoopOf(s)] = hand[LoopOf(s)],
         Keeps(wire'[Other(s)][1], wire[Other(s)][1], k),
         Sent(Other(s), k)' = Sent(Other(s), k)
  PROVE  Flowing(s, k)'
<1> DEFINE g == end[s][k].got
           q == end[s][k].queue
           n == Sent(Other(s), k)
           w == wire[Other(s)][1]
           w2 == wire'[Other(s)][1]
           l == LoopOf(s)
<1>1. CASE end'[s][k].state # "open"
  BY <1>1 DEF Flowing
<1>2. CASE end'[s][k].state = "open"
  <2>1. Along(g, q, hand, w, n, l, k)
    BY <1>2 DEF Flowing
  <2>2. \A a : Line(w, k, a, n) => Line(w2, k, a, n)
    BY LineKept
  <2>3. Holds(hand', l, k) <=> Holds(hand, l, k)
    BY <1>2 DEF Holds
  <2>4. Along(g, q, hand', w2, n, l, k)
    BY <1>2, <2>1, <2>2, <2>3 DEF Along
  <2> QED
    BY <1>2, <2>4 DEF Flowing
<1> QED
  BY <1>1, <1>2

(* Without a loss, fading keeps the order.                                 *)
LEMMA FadesOrdered ==
  ASSUME TypeOK, Ordered, faults = 0, Fades, AllKept, HandsKept
  PROVE  \A k \in Conns : FirstOf(k)' /\ \A s \in Sides : Flowing(s, k)'
<1> TAKE k \in Conns
<1>1. \A s \in Sides : Wanes(end'[s][k], end[s][k]) /\ Keeps(wire'[s][1], wire[s][1], k)
  BY DEF Fades, AllWane, AllKept, Kept
<1>2. \A s \in Sides : Sent(s, k)' = Sent(s, k)
  BY <1>1 DEF Wanes, Sent
<1>3. FirstOf(k)'
  BY <1>1, <1>2, FirstKept DEF Ordered, FirstOf, Sides
<1>4. ASSUME NEW s \in Sides PROVE Flowing(s, k)'
  <2>1. end'[s][k].got = end[s][k].got /\ Flowing(s, k)
    BY <1>1 DEF Wanes, Ordered
  <2>2. end'[s][k].state = "open" => end[s][k].state = "open" /\ end'[s][k].queue = end[s][k].queue
    BY <1>1 DEF Wanes
  <2>3. end'[s][k].state = "open" => hand'[LoopOf(s)] = hand[LoopOf(s)] \/ ~Holds(hand, LoopOf(s), k)
    BY LoopFacts DEF HandsKept
  <2>4. Holds(hand', LoopOf(s), k) => hand'[LoopOf(s)] = hand[LoopOf(s)]
    BY LoopFacts DEF Fades, Holds
  <2>5. Other(s) \in Sides
    BY SideFacts
  <2>6. Keeps(wire'[Other(s)][1], wire[Other(s)][1], k) /\ Sent(Other(s), k)' = Sent(Other(s), k)
    BY <1>1, <1>2, <2>5
  <2> QED
    BY <2>1, <2>2, <2>3, <2>4, <2>6, FlowKept
<1> QED
  BY <1>3, <1>4

AllFlow == \A k \in Conns : FirstOf(k) /\ \A s \in Sides : Flowing(s, k)

(* No data of k is under way when none was sent.                           *)
LEMMA NothingSent ==
  ASSUME AllApart, NEW s \in Sides, NEW k \in Conns, Sent(Other(s), k) = 0
  PROVE  /\ \A p \in Nat : ~DataAt(wire[Other(s)][1], p, k)
         /\ ~Holds(hand, LoopOf(s), k)
<1>1. Way(s, k)
  BY DEF AllApart
<1>2. \A i : ~Missing(i, end[s][k].got, end[s][k].queue, 0)
  BY DEF Missing
<1>3. \A p \in Nat : ~DataAt(wire[Other(s)][1], p, k)
  BY <1>1, <1>2, SideFacts DEF Way, Apart, ApartWire
<1>4. ~Holds(hand, LoopOf(s), k)
  BY <1>1, <1>2, LoopFacts DEF Way, Apart, ApartHand
<1> QED
  BY <1>3, <1>4

(* A pump reads the next item.                                             *)
LEMMA ReadDataOrdered ==
  ASSUME TypeOK, AllFlow, NEW s0 \in Sides, NEW k0 \in Conns, ReadData(s0, k0)
  PROVE  AllFlow'
<1> DEFINE c == end[s0][k0]
<1>1. /\ end' = [end EXCEPT ![s0][k0] = [c EXCEPT !.pump = "send", !.read = @ + 1]]
      /\ c.pump = "read" /\ c \in EndOf(s0) /\ UNCHANGED <<hand, wire>>
  BY TypeParts, ReadDataFacts DEF net
<1>2. \A r \in Sides, j \in Conns :
        IF r = s0 /\ j = k0
          THEN /\ end'[r][j].got = c.got /\ end'[r][j].queue = c.queue /\ end'[r][j].state = c.state
               /\ end'[r][j].pump = "send" /\ end'[r][j].read = c.read + 1
          ELSE end'[r][j] = end[r][j]
  BY <1>1, TypeParts DEF EndsTyped, EndOf, Ends
<1>3. c.read \in Nat
  BY <1>1 DEF EndOf, Ends
<1>4. \A r \in Sides, j \in Conns : Sent(r, j)' = Sent(r, j)
  <2> TAKE r \in Sides, j \in Conns
  <2>1. CASE r = s0 /\ j = k0
    BY <1>1, <1>2, <1>3, <2>1 DEF Sent
  <2>2. CASE ~(r = s0 /\ j = k0)
    BY <1>2, <2>2 DEF Sent
  <2> QED
    BY <2>1, <2>2
<1> SUFFICES ASSUME NEW k \in Conns PROVE FirstOf(k)' /\ \A s \in Sides : Flowing(s, k)'
  BY DEF AllFlow
<1>5. FirstOf(k)'
  BY <1>1, <1>4 DEF AllFlow, FirstOf, Sides
<1>6. ASSUME NEW s \in Sides PROVE Flowing(s, k)'
  <2>1. /\ end'[s][k].got = end[s][k].got /\ end'[s][k].queue = end[s][k].queue
        /\ end'[s][k].state = end[s][k].state
    BY <1>2
  <2>2. Keeps(wire'[Other(s)][1], wire[Other(s)][1], k) /\ Sent(Other(s), k)' = Sent(Other(s), k)
    BY <1>1, <1>4, SideFacts, KeepsSame
  <2> QED
    BY <1>1, <2>1, <2>2, FlowKept DEF AllFlow
<1> QED
  BY <1>5, <1>6

(* A new connection has sent nothing.                                      *)
LEMMA AcceptOrdered ==
  ASSUME TypeOK, Owned, AllApart, AllFlow, NEW k0 \in Conns, Accept(k0)
  PROVE  AllFlow'
<1> DEFINE c == end["entry"][k0]
<1>1. /\ end' = [end EXCEPT !["entry"][k0] = [c EXCEPT !.pump = "connect", !.held = TRUE, !.state = "open"]]
      /\ c.pump = "off" /\ c \in EndOf("entry") /\ UNCHANGED <<hand, wire>>
  BY TypeParts, AcceptFacts DEF net
<1>2. \A r \in Sides, j \in Conns :
        IF r = "entry" /\ j = k0
          THEN /\ end'[r][j].got = c.got /\ end'[r][j].queue = c.queue
               /\ end'[r][j].pump = "connect" /\ end'[r][j].read = c.read
          ELSE end'[r][j] = end[r][j]
  BY <1>1, TypeParts DEF EndsTyped, EndOf, Ends, Sides
<1>3. \A r \in Sides, j \in Conns : Sent(r, j)' = Sent(r, j)
  BY <1>1, <1>2 DEF Sent
<1> SUFFICES ASSUME NEW k \in Conns PROVE FirstOf(k)' /\ \A s \in Sides : Flowing(s, k)'
  BY DEF AllFlow
<1>4. FirstOf(k)'
  BY <1>1, <1>3 DEF AllFlow, FirstOf, Sides
<1>5. ASSUME NEW s \in Sides PROVE Flowing(s, k)'
  <2>1. CASE s = "entry" /\ k = k0
    <3>1. c.got = <<>> /\ c.queue = <<>>
      BY <1>1 DEF Owned, Untouched
    <3>2. Sent("exit", k0) = 0
      BY <1>1 DEF Owned, Untouched, Sent
    <3>3. Other("entry") = "exit" /\ "entry" \in Sides /\ "exit" \in Sides
      BY DEF Other, Sides
    <3>4. /\ \A p \in Nat : ~DataAt(wire["exit"][1], p, k0)
          /\ ~Holds(hand, LoopOf("entry"), k0)
      BY <3>2, <3>3, NothingSent
    <3>5. Line(wire["exit"][1], k0, 1, 0)
      BY <3>4, LineEmpty
    <3>6. \A i \in 1..Len(<<>>) : FALSE
      OBVIOUS
    <3>7. Along(<<>>, <<>>, hand, wire["exit"][1], 0, LoopOf("entry"), k0)
      BY <3>4, <3>5, <3>6 DEF Along
    <3>8. end'[s][k].got = <<>> /\ end'[s][k].queue = <<>> /\ Sent(Other(s), k)' = 0
      BY <1>2, <1>3, <2>1, <3>1, <3>2, <3>3
    <3> QED
      BY <1>1, <2>1, <3>3, <3>6, <3>7, <3>8 DEF Flowing
  <2>2. CASE ~(s = "entry" /\ k = k0)
    <3>1. end'[s][k] = end[s][k]
      BY <1>2, <2>2
    <3>2. Keeps(wire'[Other(s)][1], wire[Other(s)][1], k) /\ Sent(Other(s), k)' = Sent(Other(s), k)
      BY <1>1, <1>3, SideFacts, KeepsSame
    <3> QED
      BY <1>1, <3>1, <3>2, FlowKept DEF AllFlow
  <2> QED
    BY <2>1, <2>2
<1> QED
  BY <1>4, <1>5

(* The write loop writes the next item.                                    *)
LEMMA DeliverOrdered ==
  ASSUME TypeOK, AllFlow, NEW s0 \in Sides, NEW k0 \in Conns, Deliver(s0, k0)
  PROVE  AllFlow'
<1> DEFINE c == end[s0][k0]
<1>1. c \in EndOf(s0)
  BY TypeParts DEF EndsTyped
<1>2. /\ end' = [end EXCEPT ![s0][k0] = [c EXCEPT !.queue = Tail(@), !.got = Append(@, Head(c.queue))]]
      /\ c.state = "open" /\ c.queue # <<>> /\ UNCHANGED <<hand, wire>>
  BY DEF Deliver, net
<1>3. \A r \in Sides, j \in Conns :
        IF r = s0 /\ j = k0
          THEN /\ end'[r][j].got = Append(c.got, Head(c.queue)) /\ end'[r][j].queue = Tail(c.queue)
               /\ end'[r][j].pump = c.pump /\ end'[r][j].read = c.read /\ end'[r][j].state = c.state
          ELSE end'[r][j] = end[r][j]
  BY <1>1, <1>2, TypeParts DEF EndsTyped, EndOf, Ends
<1>4. \A r \in Sides, j \in Conns : Sent(r, j)' = Sent(r, j)
  BY <1>3 DEF Sent
<1> SUFFICES ASSUME NEW k \in Conns PROVE FirstOf(k)' /\ \A s \in Sides : Flowing(s, k)'
  BY DEF AllFlow
<1>5. FirstOf(k)'
  BY <1>2, <1>4 DEF AllFlow, FirstOf, Sides
<1>6. ASSUME NEW s \in Sides PROVE Flowing(s, k)'
  <2>1. CASE s = s0 /\ k = k0
    <3> DEFINE g == c.got
               q == c.queue
               g2 == Append(g, Head(q))
               q2 == Tail(q)
               w == wire[Other(s)][1]
               n == Sent(Other(s), k)
    <3>1. g \in Seq(Nat) /\ q \in Seq(Nat) /\ q # <<>>
      BY <1>1, <1>2 DEF EndOf, Ends
    <3>2. /\ (\A i \in 1..Len(g) : g[i] = i) /\ Along(g, q, hand, w, n, LoopOf(s), k)
      BY <1>2, <2>1 DEF AllFlow, Flowing
    <3> HIDE DEF g, q, w, n
    <3>3. /\ Len(q2) = Len(q) - 1 /\ (\A i \in 1..Len(q2) : q2[i] = q[i + 1])
          /\ Head(q) = q[1] /\ Len(q) \in Nat /\ Len(q) > 0 /\ Len(g) \in Nat
      BY <3>1, HeadTailProperties
    <3>4. Head(q) \in Nat /\ Head(q) = Len(g) + 1
      BY <3>2, <3>3 DEF Along
    <3>5. /\ Len(g2) = Len(g) + 1 /\ g2[Len(g) + 1] = Head(q)
          /\ \A i \in 1..Len(g) : g2[i] = g[i]
      BY <3>1, <3>4, AppendProperties
    <3> HIDE DEF g2, q2
    <3>6. Len(g2) + Len(q2) = Len(g) + Len(q)
      BY <3>3, <3>5
    <3>7. \A i \in 1..Len(g2) : g2[i] = i
      <4> TAKE i \in 1..Len(g2)
      <4>1. i \in 1..Len(g) \/ i = Len(g) + 1
        BY <3>3, <3>5
      <4> QED
        BY <3>2, <3>4, <3>5, <4>1
    <3>8. \A i \in 1..Len(q2) : q2[i] = Len(g2) + i
      <4> TAKE i \in 1..Len(q2)
      <4>1. i + 1 \in 1..Len(q) /\ q2[i] = q[i + 1]
        BY <3>3
      <4>2. q[i + 1] = Len(g) + (i + 1)
        BY <3>2, <4>1 DEF Along
      <4> QED
        BY <3>3, <3>5, <4>1, <4>2
    <3>9. Along(g2, q2, hand, w, n, LoopOf(s), k)
      BY <3>2, <3>6, <3>8 DEF Along
    <3>a. /\ end'[s][k].got = g2 /\ end'[s][k].queue = q2
          /\ wire'[Other(s)][1] = w /\ hand' = hand /\ Sent(Other(s), k)' = n
      BY <1>2, <1>3, <1>4, <2>1, SideFacts DEF g2, q2, g, q, w, n
    <3> QED
      BY <3>7, <3>9, <3>a DEF Flowing
  <2>2. CASE ~(s = s0 /\ k = k0)
    <3>1. end'[s][k] = end[s][k]
      BY <1>3, <2>2
    <3>2. Keeps(wire'[Other(s)][1], wire[Other(s)][1], k) /\ Sent(Other(s), k)' = Sent(Other(s), k)
      BY <1>2, <1>4, SideFacts, KeepsSame
    <3> QED
      BY <1>2, <3>1, <3>2, FlowKept DEF AllFlow
  <2> QED
    BY <2>1, <2>2
<1> QED
  BY <1>5, <1>6

(* Everything that is sent goes into the one tunnel.                       *)
LEMMA SendGoes ==
  ASSUME TypeOK, Owned, OneTunnel, OneSender, NEW s \in Sides, NEW k \in Conns, Send(s, k)
  PROVE  LET c == end[s][k]
             m == IF c.pump = "connect" THEN Message("connect", k, 0) ELSE Message("data", k, c.read)
         IN /\ wire' = [wire EXCEPT ![s][1] = Append(wire[s][1], m)]
            /\ end' = [end EXCEPT ![s][k] = [c EXCEPT !.pump = "read"]]
<1> DEFINE c == end[s][k]
           m == IF c.pump = "connect" THEN Message("connect", k, 0) ELSE Message("data", k, c.read)
<1>1. c.pump \in {"connect", "send"} /\ c \in EndOf(s)
  BY SendFacts
<1>2. Route(s, k) = 1
  <2>1. CASE s = "entry"
    BY <2>1 DEF Route, OneTunnel
  <2>2. CASE s = "exit"
    <3>1. owner[k] # None
      BY <1>1, <2>2 DEF Owned, Untouched
    <3> QED
      BY <2>2, <3>1 DEF Route, OneSender
  <2> QED
    BY <2>1, <2>2 DEF Sides
<1>3. 1 # None /\ link[1] = "up"
  BY SideFacts DEF OneTunnel
<1>4. ~CanFail(s, k)
  BY <1>2, <1>3 DEF CanFail
<1>5. PumpGoto(s, k, "read") /\ wire' = Put(wire, s, k, m)
  BY <1>4 DEF Send
<1>6. wire' = [wire EXCEPT ![s][1] = Append(wire[s][1], m)]
  BY <1>2, <1>3, <1>5 DEF Put
<1>7. end' = [end EXCEPT ![s][k] = [c EXCEPT !.pump = "read"]]
  BY <1>5, TypeParts DEF PumpGoto, EndsTyped
<1> QED
  BY <1>6, <1>7

(* The pump sends what it read last, after all the rest.                   *)
LEMMA SendOrdered ==
  ASSUME TypeOK, Owned, AllApart, OneTunnel, OneSender, AllFlow,
         NEW s0 \in Sides, NEW k0 \in Conns, Send(s0, k0)
  PROVE  AllFlow'
<1> DEFINE c == end[s0][k0]
           m == IF c.pump = "connect" THEN Message("connect", k0, 0) ELSE Message("data", k0, c.read)
           q == wire[s0][1]
           n == Sent(s0, k0)
<1>1. /\ wire \in Wires /\ c \in EndOf(s0) /\ c.pump \in {"connect", "send"} /\ m \in Messages
      /\ UNCHANGED hand /\ 1 \in Tunnels /\ Other(s0) \in Sides /\ Other(Other(s0)) = s0
      /\ wire' = [wire EXCEPT ![s0][1] = Append(q, m)]
      /\ end' = [end EXCEPT ![s0][k0] = [c EXCEPT !.pump = "read"]]
  BY TypeParts, SideFacts, SendFacts, SendGoes
<1>2. \A r \in Sides, j \in Conns :
        IF r = s0 /\ j = k0
          THEN /\ end'[r][j].got = c.got /\ end'[r][j].queue = c.queue /\ end'[r][j].state = c.state
               /\ end'[r][j].pump = "read" /\ end'[r][j].read = c.read
          ELSE end'[r][j] = end[r][j]
  <2> DEFINE c2 == [c EXCEPT !.pump = "read"]
  <2>1. /\ c2.got = c.got /\ c2.queue = c.queue /\ c2.state = c.state
        /\ c2.pump = "read" /\ c2.read = c.read
    BY <1>1 DEF EndOf, Ends
  <2>2. end \in [Sides -> [Conns -> Ends]]
    BY TypeParts DEF EndsTyped
  <2> HIDE DEF c2
  <2>3. \A r \in Sides, j \in Conns : end'[r][j] = IF r = s0 /\ j = k0 THEN c2 ELSE end[r][j]
    BY <1>1, <2>2 DEF c2
  <2> QED
    BY <2>1, <2>3
<1>3. c.read \in Nat /\ (c.pump = "send" => c.read > 0)
  BY <1>1 DEF EndOf, Ends, AllApart
<1>4. Sent(s0, k0)' = c.read /\ n = (IF c.pump = "send" THEN c.read - 1 ELSE c.read) /\ n \in Nat
  BY <1>1, <1>2, <1>3 DEF Sent
<1>5. \A r \in Sides, j \in Conns : ~(r = s0 /\ j = k0) => Sent(r, j)' = Sent(r, j)
  BY <1>2 DEF Sent
<1>6. /\ m.conn = k0
      /\ c.pump = "send" => m.item = n + 1 /\ m.type = "data"
      /\ c.pump = "connect" => m.type = "connect"
  BY <1>3, <1>4 DEF Message
<1>7. q \in Seq(Messages) /\ wire'[s0][1] = Append(q, m) /\ wire'[Other(s0)] = wire[Other(s0)]
  BY <1>1, SideFacts DEF Wires, Other, Sides
<1>8. /\ \A k \in Conns, s \in Sides : Flowing(s, k)
      /\ \A k \in Conns : FirstOf(k)
  BY DEF AllFlow
<1> HIDE DEF m, q, n
<1>9. \A s \in Sides, k \in Conns : k # k0 \/ s # s0 => Keeps(wire'[s][1], wire[s][1], k)
  <2> TAKE s \in Sides, k \in Conns
  <2>1. CASE s = s0 /\ k # k0
    <3>1. Keeps(Append(q, m), q, k)
      BY <1>1, <1>6, <1>7, <2>1, KeepsSame, KeepsAppend
    <3> QED
      BY <1>7, <2>1, <3>1 DEF q
  <2>2. CASE s # s0
    <3>1. s = Other(s0)
      BY <2>2 DEF Sides, Other
    <3> QED
      BY <1>7, <3>1, KeepsSame
  <2> QED
    BY <2>1, <2>2
<1> SUFFICES ASSUME NEW k \in Conns PROVE FirstOf(k)' /\ \A s \in Sides : Flowing(s, k)'
  BY DEF AllFlow
<1>a. FirstOf(k)'
  <2>1. CASE s0 = "entry" /\ k = k0 /\ c.pump = "send"
    <3>1. First(q, k, n)
      BY <1>8, <2>1 DEF FirstOf, q, n
    <3>2. First(Append(q, m), k, n + 1)
      BY <1>1, <1>4, <1>6, <1>7, <2>1, <3>1, FirstSend
    <3>3. Sent(s0, k0)' = n + 1
      BY <1>3, <1>4, <2>1
    <3> QED
      BY <1>7, <2>1, <3>2, <3>3 DEF FirstOf
  <2>2. CASE s0 = "entry" /\ k = k0 /\ c.pump = "connect"
    <3>1. Sent("entry", k)' = 0 /\ Sent("entry", k) = 0
      BY <1>4, <2>2 DEF Owned, n
    <3>2. \A p \in Nat : ~DataAt(q, p, k)
      <4>1. "exit" \in Sides /\ Other("exit") = "entry"
        BY DEF Sides, Other
      <4> QED
        BY <2>2, <3>1, <4>1, NothingSent DEF q
    <3>3. First(Append(q, m), k, 0)
      BY <1>1, <1>6, <1>7, <2>2, <3>2, FirstConnect
    <3> QED
      BY <1>7, <2>2, <3>1, <3>3 DEF FirstOf
  <2>3. CASE ~(s0 = "entry" /\ k = k0)
    <3>1. "entry" \in Sides
      BY DEF Sides
    <3>2. Keeps(wire'["entry"][1], wire["entry"][1], k) /\ Sent("entry", k)' = Sent("entry", k)
      BY <1>5, <1>9, <2>3, <3>1
    <3> QED
      BY <1>8, <3>2, FirstKept DEF FirstOf
  <2> QED
    BY <1>1, <2>1, <2>2, <2>3
<1>b. ASSUME NEW s \in Sides PROVE Flowing(s, k)'
  <2>0. /\ end'[s][k].got = end[s][k].got /\ end'[s][k].queue = end[s][k].queue
        /\ end'[s][k].state = end[s][k].state /\ Other(s) \in Sides
    BY <1>2, SideFacts
  <2>1. CASE s = Other(s0) /\ k = k0
    <3> DEFINE g == end[s][k].got
               r == end[s][k].queue
               n2 == Sent(s0, k0)'
    <3>1. Len(g) \in Nat /\ Len(r) \in Nat /\ Other(s) = s0
      <4>1. g \in Seq(Nat) /\ r \in Seq(Nat)
        BY WayTypes
      <4> QED
        BY <1>1, <2>1, <4>1
    <3>2. \A a \in Nat : Line(q, k, a, n) /\ a <= n + 1 => Line(Append(q, m), k, a, n2)
      <4> TAKE a \in Nat
      <4> HAVE Line(q, k, a, n) /\ a <= n + 1
      <4>1. CASE c.pump = "send"
        <5>1. n2 = n + 1
          BY <1>3, <1>4, <4>1
        <5> QED
          BY <1>1, <1>4, <1>6, <1>7, <2>1, <4>1, <5>1, LineSend
      <4>2. CASE c.pump = "connect"
        <5>1. n2 = n
          BY <1>4, <4>2
        <5> QED
          BY <1>1, <1>6, <1>7, <4>2, <5>1, LineOther
      <4> QED
        BY <1>1, <4>1, <4>2
    <3>3. n2 >= n /\ n \in Nat /\ n2 \in Nat
      BY <1>3, <1>4
    <3> HIDE DEF g, r, n2
    <3>4. end[s][k].state = "open" => Along(g, r, hand, q, n, LoopOf(s), k)
      BY <1>8, <2>1, <3>1 DEF Flowing, q, n, g, r
    <3>5. Along(g, r, hand, q, n, LoopOf(s), k) => Along(g, r, hand, Append(q, m), n2, LoopOf(s), k)
      <4> HAVE Along(g, r, hand, q, n, LoopOf(s), k)
      <4> DEFINE b == Len(g) + Len(r)
      <4>1. b \in Nat /\ b + 1 \in Nat /\ b + 2 \in Nat
        BY <3>1
      <4>2. CASE Holds(hand, LoopOf(s), k)
        <5>1. b + 1 <= n /\ Line(q, k, b + 2, n)
          BY <4>2 DEF Along
        <5>2. Line(Append(q, m), k, b + 2, n2) /\ b + 1 <= n2
          BY <3>2, <3>3, <4>1, <5>1
        <5> QED
          BY <4>2, <5>2 DEF Along
      <4>3. CASE ~Holds(hand, LoopOf(s), k)
        <5>1. b <= n /\ Line(q, k, b + 1, n)
          BY <4>3 DEF Along
        <5>2. Line(Append(q, m), k, b + 1, n2) /\ b <= n2
          BY <3>2, <3>3, <4>1, <5>1
        <5> QED
          BY <4>3, <5>2 DEF Along
      <4> QED
        BY <4>2, <4>3
    <3>6. /\ hand' = hand /\ wire'[Other(s)][1] = Append(q, m) /\ Sent(Other(s), k)' = n2
      BY <1>1, <1>7, <2>1, <3>1 DEF n2
    <3> QED
      BY <1>8, <2>0, <3>4, <3>5, <3>6 DEF Flowing, g, r
  <2>2. CASE ~(s = Other(s0) /\ k = k0)
    <3>1. Other(s) # s0 \/ k # k0
      BY <2>2, SideFacts
    <3>2. Keeps(wire'[Other(s)][1], wire[Other(s)][1], k) /\ Sent(Other(s), k)' = Sent(Other(s), k)
      BY <1>5, <1>9, <2>0, <3>1
    <3> QED
      BY <1>1, <1>8, <2>0, <3>2, FlowKept
  <2> QED
    BY <2>1, <2>2
<1> QED
  BY <1>a, <1>b

(* The read loop takes the first item of the tunnel.                       *)
LEMMA ReceiveDataOrdered ==
  ASSUME Swap, Connects, AllApart, OneTunnel, OneExit, OneSender, AllFlow,
         NEW l0 \in Loops, ReceiveData(l0)
  PROVE  AllFlow'
<1> DEFINE s0 == SideOf(l0)
           m == Head(Pending(l0))
           k0 == m.conn
           q == wire[Other(s0)][1]
           c == end[s0][k0]
<1>0. TypeOK /\ wire \in Wires /\ RestTyped /\ 1 \in Tunnels /\ ClientLoop \notin Tunnels
  BY TypeParts, SideFacts DEF Swap
<1>1. /\ Reading(l0) /\ Pending(l0) # <<>> /\ m.type = "data" /\ hand[l0] = None
      /\ wire' = Rest(l0) /\ UNCHANGED end
      /\ hand' = IF Has(l0, k0) /\ c.state = "open"
                 THEN [hand EXCEPT ![l0] = [conn |-> k0, item |-> m.item]] ELSE hand
  BY DEF ReceiveData, Reading
<1>2. k0 \in Conns /\ s0 \in Sides /\ Other(s0) \in Sides /\ Other(Other(s0)) = s0
  BY <1>0, <1>1, LoopReads, SideFacts
<1>3. l0 = LoopOf(s0) /\ Source(l0) = 1
  BY <1>0, <1>1 DEF Loops, LoopOf, SideOf, Source, Reading, OneTunnel
<1>4. /\ Pending(l0) = q /\ q \in Seq(Messages) /\ q # <<>> /\ m = Head(q)
      /\ wire' = [wire EXCEPT ![Other(s0)][1] = Tail(q)]
      /\ wire'[Other(s0)][1] = Tail(q) /\ wire'[s0] = wire[s0]
  BY <1>0, <1>1, <1>2, <1>3 DEF Pending, Rest, Wires, Sides, Other
<1>5. c.state = "open" => Has(l0, k0)
  <2>1. c.state = "open" => c.held
    BY <1>2 DEF Connects, HeldWhileOpen
  <2>2. CASE l0 = ClientLoop
    BY <2>1, <2>2 DEF Has
  <2>3. CASE l0 # ClientLoop
    <3>1. s0 = "exit" /\ l0 = 1 /\ server[1] = "read"
      BY <1>1, <1>3, <2>3 DEF SideOf, LoopOf, Reading
    <3>2. current[1] = 1
      BY <3>1, OneHandler
    <3>3. c.state = "open" => owner[k0] # None
      BY <1>2, <3>1 DEF Connects, Owned, Untouched
    <3> QED
      BY <1>2, <2>1, <3>1, <3>2, <3>3 DEF Has, OneSender
  <2> QED
    BY <2>2, <2>3
<1>6. \A l \in Loops : l # l0 => hand'[l] = hand[l]
  BY <1>0, <1>1 DEF RestTyped
<1>7. \A k \in Conns : /\ ~Holds(hand, l0, k) /\ (k # k0 => ~Holds(hand', l0, k))
                       /\ c.state = "open" => Holds(hand', l0, k0) /\ hand'[l0].item = m.item
  <2>1. \A k \in Conns : ~Holds(hand, l0, k)
    BY <1>1 DEF Holds
  <2>2. hand'[l0] = IF Has(l0, k0) /\ c.state = "open"
                    THEN [conn |-> k0, item |-> m.item] ELSE None
    BY <1>0, <1>1 DEF RestTyped
  <2>3. \A k \in Conns : k # k0 => ~Holds(hand', l0, k)
    BY <2>2 DEF Holds
  <2>4. c.state = "open" => hand'[l0] = [conn |-> k0, item |-> m.item]
    BY <1>5, <2>2
  <2>5. [conn |-> k0, item |-> m.item] # None
    <3>1. m \in Messages
      BY <1>4, HeadTailProperties
    <3>2. [conn |-> k0, item |-> m.item] \in [conn : Conns, item : Nat]
      BY <1>2, <3>1 DEF Messages
    <3> QED
      BY <3>2, SessionAssumption
  <2> QED
    BY <2>1, <2>3, <2>4, <2>5 DEF Holds
<1>8. \A s \in Sides, k \in Conns : Sent(s, k)' = Sent(s, k)
  BY <1>1 DEF Sent
<1>9. /\ \A k \in Conns, s \in Sides : Flowing(s, k)
      /\ \A k \in Conns : FirstOf(k)
  BY DEF AllFlow
<1>a. \A s \in Sides, k \in Conns : s # Other(s0) \/ k # k0 => Keeps(wire'[s][1], wire[s][1], k)
  <2> TAKE s \in Sides, k \in Conns
  <2>1. CASE s = Other(s0) /\ k # k0
    BY <1>4, <2>1, KeepsTail
  <2>2. CASE s # Other(s0)
    <3>1. s = s0
      BY <1>2, <2>2 DEF Other, Sides
    <3> QED
      BY <1>4, <3>1, KeepsSame
  <2> QED
    BY <2>1, <2>2
<1> HIDE DEF q, m, k0
<1> SUFFICES ASSUME NEW k \in Conns PROVE FirstOf(k)' /\ \A s \in Sides : Flowing(s, k)'
  BY DEF AllFlow
<1>b. FirstOf(k)'
  <2>1. CASE s0 = "exit" /\ k = k0
    <3>1. Other(s0) = "entry"
      BY <2>1 DEF Other
    <3>2. First(q, k, Sent("entry", k))
      BY <1>9, <3>1 DEF FirstOf, q
    <3>3. First(Tail(q), k, Sent("entry", k)')
      BY <1>1, <1>4, <2>1, <3>2, FirstTake DEF k0
    <3> QED
      BY <1>4, <3>1, <3>3 DEF FirstOf
  <2>2. CASE ~(s0 = "exit" /\ k = k0)
    <3>1. "entry" \in Sides /\ ("entry" # Other(s0) \/ k # k0)
      BY <1>2, <2>2 DEF Sides, Other
    <3>2. Keeps(wire'["entry"][1], wire["entry"][1], k) /\ Sent("entry", k)' = Sent("entry", k)
      BY <1>8, <1>a, <3>1
    <3> QED
      BY <1>9, <3>2, FirstKept DEF FirstOf
  <2> QED
    BY <2>1, <2>2
<1>c. ASSUME NEW s \in Sides PROVE Flowing(s, k)'
  <2>1. CASE s = s0 /\ k = k0 /\ c.state = "open"
    <3> DEFINE g == c.got
               r == c.queue
               n == Sent(Other(s0), k0)
               b == Len(g) + Len(r)
    <3>1. b \in Int /\ n \in Int /\ b + 1 \in Int
      <4>1. g \in Seq(Nat) /\ r \in Seq(Nat) /\ n \in Int
        BY <1>0, <1>2, WayTypes
      <4> QED
        BY <4>1
    <3> HIDE DEF n
    <3>2. Along(g, r, hand, q, n, l0, k0) /\ \A i \in 1..Len(g) : g[i] = i
      BY <1>2, <1>3, <1>9, <2>1 DEF Flowing, q, n
    <3>3. Line(q, k0, b + 1, n)
      BY <1>2, <1>7, <3>2 DEF Along
    <3> HIDE DEF b
    <3>4. m.item = b + 1 /\ b + 1 <= n /\ Line(Tail(q), k0, (b + 1) + 1, n)
      BY <1>1, <1>4, <3>1, <3>3, LineTake DEF k0
    <3>5. (b + 1) + 1 = b + 2
      BY <3>1
    <3>6. Holds(hand', l0, k0) /\ hand'[l0].item = b + 1
      BY <1>2, <1>7, <2>1, <3>4
    <3>7. Along(g, r, hand', Tail(q), n, l0, k0)
      BY <3>2, <3>4, <3>5, <3>6 DEF Along, b
    <3>8. /\ end'[s][k] = c /\ wire'[Other(s)][1] = Tail(q) /\ Sent(Other(s), k)' = n /\ l0 = LoopOf(s)
      BY <1>1, <1>2, <1>3, <1>4, <1>8, <2>1 DEF n
    <3> QED
      BY <2>1, <3>2, <3>7, <3>8 DEF Flowing
  <2>2. CASE s = s0 /\ k = k0 /\ c.state # "open"
    BY <1>1, <1>9, <2>2 DEF Flowing
  <2>3. CASE ~(s = s0 /\ k = k0)
    <3>1. Keeps(wire'[Other(s)][1], wire[Other(s)][1], k) /\ Sent(Other(s), k)' = Sent(Other(s), k)
      <4>1. Other(s) \in Sides /\ (Other(s) # Other(s0) \/ k # k0)
        BY <1>2, <2>3 DEF Sides, Other
      <4> QED
        BY <1>8, <1>a, <4>1
    <3>2. Holds(hand, LoopOf(s), k) \/ Holds(hand', LoopOf(s), k) => hand'[LoopOf(s)] = hand[LoopOf(s)]
      <4>1. CASE s = s0
        BY <1>3, <1>7, <2>3, <4>1
      <4>2. CASE s # s0
        <5>1. LoopOf(s) \in Loops /\ LoopOf(s) # l0
          BY <1>3, <4>2, LoopFacts
        <5> QED
          BY <1>6, <5>1
      <4> QED
        BY <4>1, <4>2
    <3> QED
      BY <1>0, <1>1, <1>9, <3>1, <3>2, FlowKept
  <2> QED
    BY <2>1, <2>2, <2>3
<1> QED
  BY <1>b, <1>c

(* The read loop queues it after those before it.                          *)
LEMMA EnqueuedOrdered ==
  ASSUME TypeOK, OneTunnel, AllFlow, NEW l0 \in Loops, Enqueued(l0)
  PROVE  AllFlow'
<1> DEFINE s0 == SideOf(l0)
           k0 == hand[l0].conn
           c == end[s0][k0]
           i0 == hand[l0].item
<1>0. /\ wire \in Wires /\ RestTyped /\ 1 \in Tunnels /\ ClientLoop \notin Tunnels
      /\ hand[l0] # None /\ k0 \in Conns /\ i0 \in Nat /\ s0 \in Sides
  BY TypeParts, SideFacts DEF Enqueued, RestTyped
<1>1. /\ end' = [end EXCEPT ![s0][k0] = Queued(c, i0)] /\ c \in EndOf(s0)
      /\ hand' = [hand EXCEPT ![l0] = None] /\ UNCHANGED wire
  BY <1>0, TypeParts DEF Enqueued, EndsTyped
<1>2. \A r \in Sides, j \in Conns :
        IF r = s0 /\ j = k0
          THEN /\ end'[r][j].got = c.got /\ end'[r][j].queue = Append(c.queue, i0)
               /\ end'[r][j].pump = c.pump /\ end'[r][j].read = c.read /\ end'[r][j].state = c.state
          ELSE end'[r][j] = end[r][j]
  BY <1>0, <1>1, TypeParts DEF EndsTyped, EndOf, Ends, Queued
<1>3. l0 = LoopOf(s0)
  BY <1>0 DEF Loops, LoopOf, SideOf, OneTunnel
<1>4. \A s \in Sides, k \in Conns : Sent(s, k)' = Sent(s, k)
  BY <1>2 DEF Sent
<1>5. \A l \in Loops : hand'[l] = IF l = l0 THEN None ELSE hand[l]
  BY <1>0, <1>1 DEF RestTyped
<1> SUFFICES ASSUME NEW k \in Conns PROVE FirstOf(k)' /\ \A s \in Sides : Flowing(s, k)'
  BY DEF AllFlow
<1>6. FirstOf(k)'
  BY <1>1, <1>4 DEF AllFlow, FirstOf, Sides
<1>7. ASSUME NEW s \in Sides PROVE Flowing(s, k)'
  <2>1. CASE s = s0 /\ k = k0
    <3> DEFINE g == c.got
               q == c.queue
               q2 == Append(q, i0)
               w == wire[Other(s)][1]
               n == Sent(Other(s), k)
    <3>1. g \in Seq(Nat) /\ q \in Seq(Nat)
      BY <1>1 DEF EndOf, Ends
    <3>2. /\ Len(q2) = Len(q) + 1 /\ q2[Len(q) + 1] = i0 /\ (\A i \in 1..Len(q) : q2[i] = q[i])
          /\ Len(q) \in Nat /\ Len(g) \in Nat
      <4>1. i0 \in Nat
        BY <1>0
      <4> HIDE DEF g, q, i0
      <4> QED
        BY <3>1, <4>1, AppendProperties
    <3>3. \A i \in 1..Len(g) : g[i] = i
      BY <2>1 DEF AllFlow, Flowing
    <3>4. c.state = "open" => Along(g, q, hand, w, n, l0, k)
      BY <1>3, <2>1 DEF AllFlow, Flowing
    <3>5. Holds(hand, l0, k) /\ ~Holds(hand', l0, k)
      BY <1>0, <1>5, <2>1 DEF Holds
    <3> HIDE DEF g, q, q2, w, n, i0
    <3>6. c.state = "open" => Along(g, q2, hand', w, n, l0, k)
      <4> HAVE c.state = "open"
      <4>1. /\ i0 = (Len(g) + Len(q)) + 1 /\ (Len(g) + Len(q)) + 1 <= n
            /\ Line(w, k, (Len(g) + Len(q)) + 2, n) /\ \A i \in 1..Len(q) : q[i] = Len(g) + i
        BY <3>4, <3>5 DEF Along, i0
      <4>2. Len(g) + Len(q2) = (Len(g) + Len(q)) + 1 /\ (Len(g) + Len(q2)) + 1 = (Len(g) + Len(q)) + 2
        BY <3>2
      <4>3. \A i \in 1..Len(q2) : q2[i] = Len(g) + i
        <5> TAKE i \in 1..Len(q2)
        <5>1. i \in 1..Len(q) \/ i = Len(q) + 1
          BY <3>2
        <5> QED
          BY <3>2, <4>1, <5>1
      <4> QED
        BY <3>5, <4>1, <4>2, <4>3 DEF Along
    <3>7. /\ end'[s][k].got = g /\ end'[s][k].queue = q2 /\ end'[s][k].state = c.state
          /\ wire'[Other(s)][1] = w /\ Sent(Other(s), k)' = n /\ l0 = LoopOf(s)
      BY <1>1, <1>2, <1>3, <1>4, <2>1, SideFacts DEF g, q, q2, w, n, i0
    <3> QED
      BY <3>3, <3>6, <3>7 DEF Flowing
  <2>2. CASE ~(s = s0 /\ k = k0)
    <3>1. end'[s][k] = end[s][k]
      BY <1>2, <2>2
    <3>2. Keeps(wire'[Other(s)][1], wire[Other(s)][1], k) /\ Sent(Other(s), k)' = Sent(Other(s), k)
      BY <1>1, <1>4, SideFacts, KeepsSame
    <3>3. Holds(hand, LoopOf(s), k) \/ Holds(hand', LoopOf(s), k) => hand'[LoopOf(s)] = hand[LoopOf(s)]
      <4>1. LoopOf(s) \in Loops /\ (s # s0 => LoopOf(s) # l0)
        BY <1>3, LoopFacts
      <4> QED
        BY <1>3, <1>5, <2>2, <4>1 DEF Holds
    <3> QED
      BY <3>1, <3>2, <3>3, FlowKept DEF AllFlow
  <2> QED
    BY <2>1, <2>2
<1> QED
  BY <1>6, <1>7

(* Reading a Connect keeps the data of all other connections.              *)
LEMMA ReceiveConnectKeeps ==
  ASSUME TypeOK, NEW t \in Tunnels, t = 1, ReceiveConnect(t), NEW k \in Conns
  PROVE  /\ Keeps(wire'["exit"][1], wire["exit"][1], k)
         /\ k # Head(wire["entry"][1]).conn => Keeps(wire'["entry"][1], wire["entry"][1], k)
<1> DEFINE k0 == Head(wire["entry"][t]).conn
           x == sender[current[t]]
           m == Message("close", k0, 0)
           w1 == [wire EXCEPT !["entry"][t] = Tail(@)]
<1>1. /\ k0 \in Conns /\ wire["entry"][t] \in Seq(Messages) /\ wire["entry"][t] # <<>>
      /\ wire \in Wires /\ "entry" \in Sides /\ "exit" \in Sides
  BY ReceiveConnectFacts, TypeParts DEF Sides
<1>2. Pending(t) = wire["entry"][t] /\ Rest(t) = w1
  BY SideFacts DEF SideOf, Source, Pending, Rest, Other
<1>3. wire' = w1 \/ wire' = [w1 EXCEPT !["exit"][x] = Append(@, m)]
  BY <1>2 DEF ReceiveConnect
<1>4. w1 \in Wires
  <2>1. Tail(wire["entry"][t]) \in Seq(Messages)
    BY <1>1, TailType
  <2> QED
    BY <1>1, <2>1, WireChange
<1>5. m \in Messages /\ m.type = "close"
  BY <1>1, MessageType DEF Message
<1> HIDE DEF m
<1>6. \A w : Kept(w1, w, k) => Kept(wire', w, k)
  <2> HIDE DEF w1
  <2> SUFFICES ASSUME NEW w, Kept(w1, w, k) PROVE Kept([w1 EXCEPT !["exit"][x] = Append(@, m)], w, k)
    BY <1>3
  <2> HIDE DEF x
  <2> QED
    BY <1>1, <1>4, <1>5, KeptAppend
<1>7. w1["exit"] = wire["exit"]
  BY <1>1 DEF Wires
<1>8. ASSUME k # k0
      PROVE  Kept(wire', wire, k)
  <2>1. Kept(w1, wire, k)
    BY <1>1, <1>8, KeptTail
  <2> QED
    BY <1>6, <2>1
<1>9. Keeps(wire'["exit"][1], wire["exit"][1], k)
  BY <1>1, <1>6, <1>7, KeptSame DEF Kept
<1>a. k # k0 => Keeps(wire'["entry"][1], wire["entry"][1], k)
  BY <1>1, <1>8 DEF Kept
<1> QED
  BY <1>9, <1>a

(* The exit's new end expects the first item.                              *)
LEMMA ReceiveConnectOrdered ==
  ASSUME Swap, Connects, AllApart, OneTunnel, OneExit, OneSender, AllFlow,
         NEW t \in Tunnels, ReceiveConnect(t)
  PROVE  AllFlow'
<1> DEFINE q == wire["entry"][1]
           k0 == Head(q).conn
           c == end["exit"][k0]
           n == Sent("entry", k0)
<1>0. TypeOK /\ RestTyped /\ 1 \in Tunnels /\ 1 \in Loops /\ "entry" \in Sides /\ "exit" \in Sides
  BY TypeParts, SideFacts DEF Swap, Sides
<1>1. t = 1
  BY <1>0, ReceiveConnectFacts DEF OneTunnel
<1>2. /\ k0 \in Conns /\ c \in EndOf("exit") /\ hand[1] = None /\ UNCHANGED hand
      /\ q \in Seq(Messages) /\ q # <<>> /\ Head(q).type = "connect"
      /\ \/ UNCHANGED end
         \/ end' = [end EXCEPT !["exit"][k0] = [c EXCEPT !.held = TRUE, !.state = "open", !.pump = "read"]]
      /\ wire'["entry"][1] = Tail(q)
  <2>1. wire["entry"] \in [Tunnels -> Seq(Messages)]
    BY <1>0, TypeParts DEF Wires
  <2> QED
    BY <1>0, <1>1, <2>1, ReceiveConnectFacts
<1>3. ConnectAt(1, 1, k0)
  BY <1>2, TailAt DEF ConnectAt
<1>4. owner[k0] = None
  BY <1>0, <1>2, <1>3 DEF Connects, ConnectOnce
<1>5. Untouched(c)
  BY <1>2, <1>4 DEF Connects, Owned
<1>6. \A r \in Sides, j \in Conns :
        IF r = "exit" /\ j = k0
          THEN /\ end'[r][j].got = <<>> /\ end'[r][j].queue = <<>>
               /\ end'[r][j].pump \in {"off", "read"} /\ end'[r][j].read = c.read
          ELSE end'[r][j] = end[r][j]
  <2>1. CASE UNCHANGED end
    BY <1>5, <2>1 DEF Untouched
  <2>2. CASE end' = [end EXCEPT !["exit"][k0] = [c EXCEPT !.held = TRUE, !.state = "open", !.pump = "read"]]
    <3> DEFINE c2 == [c EXCEPT !.held = TRUE, !.state = "open", !.pump = "read"]
    <3>1. c2.got = <<>> /\ c2.queue = <<>> /\ c2.pump = "read" /\ c2.read = c.read
      BY <1>2, <1>5 DEF EndOf, Ends, Untouched
    <3>2. end \in [Sides -> [Conns -> Ends]]
      BY <1>0, TypeParts DEF EndsTyped
    <3> HIDE DEF c2, k0
    <3>3. \A r \in Sides, j \in Conns : end'[r][j] = IF r = "exit" /\ j = k0 THEN c2 ELSE end[r][j]
      BY <1>0, <1>2, <2>2, <3>2 DEF c2
    <3> QED
      BY <3>1, <3>3
  <2> QED
    BY <1>2, <2>1, <2>2
<1>7. \A r \in Sides, j \in Conns : Sent(r, j)' = Sent(r, j)
  BY <1>5, <1>6 DEF Sent, Untouched
<1>8. \A k \in Conns : /\ Keeps(wire'["exit"][1], wire["exit"][1], k)
                       /\ k # k0 => Keeps(wire'["entry"][1], q, k)
  BY <1>0, <1>1, ReceiveConnectKeeps
<1>9. /\ \A k \in Conns, s \in Sides : Flowing(s, k)
      /\ \A k \in Conns : FirstOf(k)
  BY DEF AllFlow
<1>a. n \in Nat
  <2>1. end["entry"][k0] \in Ends
    BY <1>0, <1>2, TypeParts DEF EndsTyped
  <2>2. end["entry"][k0].pump = "send" => end["entry"][k0].read > 0
    BY <1>0, <1>2 DEF AllApart
  <2> HIDE DEF k0
  <2>3. end["entry"][k0].read \in Nat
    BY <2>1 DEF Ends
  <2> QED
    BY <2>2, <2>3 DEF Sent
<1> SUFFICES ASSUME NEW k \in Conns PROVE FirstOf(k)' /\ \A s \in Sides : Flowing(s, k)'
  BY DEF AllFlow
<1>b. FirstOf(k)'
  <2>1. CASE k = k0
    <3> SUFFICES ASSUME NEW p \in Nat, ConnAt(Tail(q), p, k0) PROVE FALSE
      BY <1>2, <2>1 DEF FirstOf, First
    <3>1. ConnectAt(1, p + 1, k0) /\ p + 1 # 1 /\ p + 1 \in Nat
      BY <1>2, TailAt DEF ConnAt, ConnectAt
    <3> QED
      BY <1>0, <1>2, <1>3, <3>1 DEF Connects, ConnectOnce
  <2>2. CASE k # k0
    BY <1>0, <1>7, <1>8, <1>9, <2>2, FirstKept DEF FirstOf
  <2> QED
    BY <2>1, <2>2
<1>c. Flowing("entry", k)'
  <2>1. Other("entry") = "exit" /\ end'["entry"][k] = end["entry"][k]
    BY <1>0, <1>6 DEF Other
  <2> QED
    BY <1>0, <1>2, <1>7, <1>8, <1>9, <2>1, FlowKept
<1>d. Flowing("exit", k)'
  <2>0. Other("exit") = "entry" /\ LoopOf("exit") = 1
    BY DEF Other, LoopOf
  <2>1. CASE k = k0
    <3>1. \A p \in Nat : ConnAt(q, p, k0) => Line(q, k0, 1, n)
      BY <1>2, <1>9 DEF FirstOf, First
    <3>2. ConnAt(q, 1, k0)
      BY <1>3 DEF ConnectAt, ConnAt
    <3>3. Line(Tail(q), k0, 1, n)
      <4>1. Line(q, k0, 1, n)
        BY <3>1, <3>2
      <4> HIDE DEF n, k0
      <4> QED
        BY <1>2, <4>1, LineDrop
    <3>4. \A i \in 1..Len(<<>>) : FALSE
      OBVIOUS
    <3>5. ~Holds(hand, 1, k0)
      BY <1>2 DEF Holds
    <3>6. Along(<<>>, <<>>, hand, Tail(q), n, 1, k0)
      BY <1>a, <3>3, <3>4, <3>5 DEF Along
    <3>7. end'["exit"][k0].got = <<>> /\ end'["exit"][k0].queue = <<>>
      BY <1>0, <1>2, <1>6
    <3>8. Sent("entry", k)' = Sent("entry", k) /\ Sent("entry", k) = n
      BY <1>0, <1>7, <2>1
    <3>9. wire'["entry"][1] = Tail(q) /\ hand' = hand
      BY <1>2
    <3> HIDE DEF n, k0, q
    <3> QED
      BY <2>0, <2>1, <3>4, <3>6, <3>7, <3>8, <3>9 DEF Flowing
  <2>2. CASE k # k0
    <3>1. end'["exit"][k] = end["exit"][k]
      BY <1>0, <1>6, <2>2
    <3> QED
      BY <1>0, <1>2, <1>7, <1>8, <1>9, <2>0, <2>2, <3>1, FlowKept
  <2> QED
    BY <2>1, <2>2
<1> QED
  BY <1>b, <1>c, <1>d DEF Sides

(* The order of the streams, step by step.                                 *)
LEMMA OrderedStep ==
  ASSUME Swap, Connects, AllApart, Quiet, Ordered, [Next]_vars
  PROVE  Ordered'
<1> SUFFICES ASSUME faults' = 0 PROVE AllFlow'
  BY DEF Ordered, AllFlow
<1>1. TypeOK /\ faults = 0
  BY FaultsGrow DEF Swap
<1>2. AllFlow /\ OneTunnel /\ OneExit /\ OneSender /\ Owned /\ HeldWhileOpen
  BY <1>1 DEF Ordered, AllFlow, Quiet, Connects
<1>3. ASSUME NEW s \in Sides, NEW k \in Conns, Send(s, k) \/ ReadData(s, k) \/ Deliver(s, k)
      PROVE  AllFlow'
  BY <1>1, <1>2, <1>3, SendOrdered, ReadDataOrdered, DeliverOrdered
<1>4. ASSUME NEW k \in Conns, Accept(k)
      PROVE  AllFlow'
  BY <1>1, <1>2, <1>4, AcceptOrdered
<1>5. ASSUME NEW l \in Loops, ReceiveData(l) \/ Enqueued(l)
      PROVE  AllFlow'
  BY <1>1, <1>2, <1>5, ReceiveDataOrdered, EnqueuedOrdered
<1>6. ASSUME NEW t \in Tunnels, ReceiveConnect(t)
      PROVE  AllFlow'
  BY <1>2, <1>6, ReceiveConnectOrdered
<1>7. CASE Fades /\ AllKept /\ HandsKept
  BY <1>1, <1>7, FadesOrdered DEF AllFlow
<1> QED
  BY <1>1, <1>2, <1>3, <1>4, <1>5, <1>6, <1>7, Kinds, KeptSteps

-----------------------------------------------------------------------------
(* The order in which the connection's messages lie is what StreamIntact   *)
(* says with sets.                                                         *)
LEMMA LineItems ==
  ASSUME NEW q, NEW k, NEW a, NEW n, Line(q, k, a, n), Len(q) \in Nat
  PROVE  /\ {q[p].item : p \in Places(q, k)} = a..n
         /\ \A p, r \in Places(q, k) : p < r => q[p].item < q[r].item
<1>1. \A p : p \in Places(q, k) <=> p \in Nat /\ DataAt(q, p, k)
  BY DEF Places, DataAt
<1>2. \A p \in Places(q, k) : q[p].item \in a..n
  BY <1>1 DEF Line
<1>3. \A i \in a..n : \E p \in Places(q, k) : q[p].item = i
  BY <1>1 DEF Line
<1>4. {q[p].item : p \in Places(q, k)} = a..n
  BY <1>2, <1>3
<1>5. \A p, r \in Places(q, k) : p < r => q[p].item < q[r].item
  BY <1>1 DEF Line
<1> QED
  BY <1>4, <1>5

(* An ordered stream is intact.                                            *)
LEMMA FlowingIntact ==
  ASSUME TypeOK, Ordered
  PROVE  StreamIntact
<1> SUFFICES ASSUME faults = 0, NEW s \in Sides, NEW k \in Conns
             PROVE  LET c == end[s][k]
                        written == Len(c.got)
                        taken == written + Len(c.queue)
                        q == wire[Other(s)][1]
                    IN /\ \A i \in 1..written : c.got[i] = i
                       /\ c.state = "open" =>
                            /\ \A i \in 1..Len(c.queue) : c.queue[i] = written + i
                            /\ InHand(s, k) \subseteq {taken + 1}
                            /\ {q[p].item : p \in Places(q, k)}
                                 = (taken + 1)..Sent(Other(s), k) \ InHand(s, k)
                            /\ \A p, r \in Places(q, k) : p < r => q[p].item < q[r].item
  BY DEF StreamIntact
<1> DEFINE c == end[s][k]
           b == Len(c.got) + Len(c.queue)
           q == wire[Other(s)][1]
           n == Sent(Other(s), k)
           l == LoopOf(s)
<1>1. Flowing(s, k)
  BY DEF Ordered
<1>2. b \in Nat /\ n \in Int /\ q \in Seq(Messages)
  <2>1. /\ c.got \in Seq(Nat) /\ c.queue \in Seq(Nat) /\ n \in Int
        /\ wire[Other(s)] \in WiresOf /\ 1 \in Tunnels
    BY WayTypes, SideFacts
  <2>2. q \in Seq(Messages)
    BY <2>1 DEF WiresOf
  <2>3. \A g, r \in Seq(Nat) : Len(g) + Len(r) \in Nat
    OBVIOUS
  <2>4. b \in Nat
    BY <2>1, <2>3
  <2> QED
    BY <2>1, <2>2, <2>4
<1>3. InHand(s, k) = IF Holds(hand, l, k) THEN {hand[l].item} ELSE {}
  BY DEF InHand, Holds, LoopOf
<1>4. \A i \in 1..Len(c.got) : c.got[i] = i
  BY <1>1 DEF Flowing
<1>5. ASSUME c.state = "open"
      PROVE  /\ \A i \in 1..Len(c.queue) : c.queue[i] = Len(c.got) + i
             /\ InHand(s, k) \subseteq {b + 1}
             /\ {q[p].item : p \in Places(q, k)} = (b + 1)..n \ InHand(s, k)
             /\ \A p, r \in Places(q, k) : p < r => q[p].item < q[r].item
  <2>1. Along(c.got, c.queue, hand, q, n, l, k)
    BY <1>1, <1>5 DEF Flowing
  <2>2. \A i \in 1..Len(c.queue) : c.queue[i] = Len(c.got) + i
    BY <2>1 DEF Along
  <2>3. CASE Holds(hand, l, k)
    <3>1. hand[l].item = b + 1 /\ Line(q, k, b + 2, n)
      BY <2>1, <2>3 DEF Along
    <3>2. (b + 1)..n \ {b + 1} = (b + 2)..n
      <4> HIDE DEF b, n
      <4> QED
        BY <1>2
    <3>3. /\ {q[p].item : p \in Places(q, k)} = (b + 2)..n
          /\ \A p, r \in Places(q, k) : p < r => q[p].item < q[r].item
      <4> HIDE DEF b, n, q
      <4> QED
        BY <1>2, <3>1, LineItems
    <3> HIDE DEF b, n, q, l
    <3> QED
      BY <1>3, <2>2, <2>3, <3>1, <3>2, <3>3
  <2>4. CASE ~Holds(hand, l, k)
    <3>1. Line(q, k, b + 1, n)
      BY <2>1, <2>4 DEF Along
    <3>3. /\ {q[p].item : p \in Places(q, k)} = (b + 1)..n
          /\ \A p, r \in Places(q, k) : p < r => q[p].item < q[r].item
      <4> HIDE DEF b, n, q
      <4> QED
        BY <1>2, <3>1, LineItems
    <3> HIDE DEF b, n, q, l
    <3> QED
      BY <1>3, <2>2, <2>4, <3>3
  <2> QED
    BY <2>3, <2>4
<1> QED
  BY <1>4, <1>5

(* The inductive invariant of the session.                                 *)
Session == Swap /\ Connects /\ AllApart /\ Quiet /\ Ordered

(* The invariant holds at the beginning,                                   *)
LEMMA InitSession == Init => Session
  BY InitSwap, InitConnects, InitApart, InitQuiet, InitOrdered DEF Session

(* is kept by every step,                                                  *)
LEMMA SessionStep == Session /\ [Next]_vars => Session'
<1> SUFFICES ASSUME Session, [Next]_vars PROVE Session'
  OBVIOUS
<1>1. Swap /\ Connects /\ AllApart /\ Quiet /\ Ordered /\ TypeOK
  BY DEF Session, Swap
<1> QED
  BY <1>1, SwapStep, ConnectsStep, ApartStep, QuietStep, OrderedStep DEF Session

(* and so holds in every state.                                            *)
LEMMA InSession == Spec => []Session
  BY InitSession, SessionStep, PTL DEF Spec

(* As long as no tunnel is lost and no exit forwarder restarted, an end    *)
(* has written what the other end read, in order and without a gap, and    *)
(* what is still on the way lies in its queue, in the hand of one read     *)
(* loop and in the tunnel, in this order: whatever the numbers of          *)
(* connections and tunnels and the capacity of the queues (EntryForwarder, *)
(* ExitForwarder and connState of internal/forwarder, Client.readLoop and  *)
(* Server.handleTunnel of internal/tunnel).                                *)
THEOREM StreamsIntact == Spec => []StreamIntact
<1>1. Session => StreamIntact
  BY FlowingIntact DEF Session, Swap
<1> QED
  BY <1>1, InSession, PTL

-----------------------------------------------------------------------------
(* The session implements the channels.                                    *)

(* A step works on the ends of one side.                                   *)
Beside(s) == \A r \in Sides, k \in Conns : r # s => end'[r][k] = end[r][k]

(* One end changes: the other side does not.                               *)
LEMMA OneBeside ==
  ASSUME EndsTyped, NEW s \in Sides, NEW k \in Conns, NEW c, end' = [end EXCEPT ![s][k] = c]
  PROVE  Beside(s)
  BY DEF EndsTyped, Beside

(* Taking a connection out of the map concerns one side.                   *)
LEMMA CloseConnBeside ==
  ASSUME EndsTyped, NEW s \in Sides, NEW k \in Conns, NEW w, NEW c, CloseConn(s, k, w, c)
  PROVE  Beside(s)
  BY OneBeside DEF CloseConn

(* Every step works on the ends of one side only.                          *)
LEMMA OneSide ==
  ASSUME TypeOK, [Next]_vars
  PROVE  \E s \in Sides : Beside(s)
<1>0. EndsTyped /\ RestTyped /\ "entry" \in Sides /\ "exit" \in Sides
  BY TypeParts DEF Sides
<1>1. UNCHANGED end => \A s \in Sides : Beside(s)
  BY DEF Beside
<1>2. CASE UNCHANGED vars
  BY <1>0, <1>1, <1>2 DEF vars
<1>3. ASSUME NEW s \in Sides, NEW k \in Conns, PumpStep(s, k)
      PROVE  Beside(s)
  <2> DEFINE c == end[s][k]
  <2>1. CASE Send(s, k)
    <3>1. PICK l \in {"read", "closing"} : end' = [end EXCEPT ![s][k] = [c EXCEPT !.pump = l]]
      BY <2>1, SendFacts
    <3> QED
      BY <1>0, <3>1, OneBeside
  <2>2. CASE ReadData(s, k)
    <3>1. end' = [end EXCEPT ![s][k] = [c EXCEPT !.pump = "send", !.read = @ + 1]]
      BY <1>0, <2>2, ReadDataFacts
    <3> QED
      BY <1>0, <3>1, OneBeside
  <2>3. CASE ReadEnds(s, k)
    <3>1. end' = [end EXCEPT ![s][k] = [c EXCEPT !.pump = "closing"]]
      BY <1>0, <2>3 DEF ReadEnds, PumpGoto
    <3> QED
      BY <1>0, <3>1, OneBeside
  <2>4. CASE EndPump(s, k)
    BY <1>0, <2>4, CloseConnBeside DEF EndPump
  <2>5. CASE Deliver(s, k)
    BY <1>0, <2>5, OneBeside DEF Deliver
  <2>6. CASE DeliveryFails(s, k)
    BY <1>0, <2>6, OneBeside DEF DeliveryFails
  <2>7. CASE OutsideCloses(s, k)
    <3>1. end' = [end EXCEPT ![s][k] = [c EXCEPT !.peer = "closed"]]
      BY <1>0, <2>7 DEF OutsideCloses
    <3> QED
      BY <1>0, <3>1, OneBeside
  <2> QED
    BY <1>3, <2>1, <2>2, <2>3, <2>4, <2>5, <2>6, <2>7 DEF PumpStep
<1>4. ASSUME NEW k \in Conns, Accept(k) \/ ReadPanics(k)
      PROVE  Beside("entry")
  BY <1>0, <1>1, <1>4, AcceptFacts, OneBeside DEF ReadPanics
<1>5. ASSUME NEW l \in Loops, Loop(l) \/ WritePanics(l)
      PROVE  Beside(SideOf(l))
  <2>0. SideOf(l) \in Sides
    BY SideFacts
  <2>1. CASE Write(l)
    <3> DEFINE k == hand[l].conn
    <3>1. k \in Conns
      BY <1>0, <2>1 DEF Write, RestTyped
    <3> QED
      BY <1>0, <2>0, <2>1, <3>1, OneBeside, CloseConnBeside DEF Write, Enqueue
  <2>2. CASE ReceiveClose(l)
    <3> DEFINE k == Head(Pending(l)).conn
    <3>1. k \in Conns
      BY <2>2, LoopReads DEF ReceiveClose
    <3>2. UNCHANGED end \/ CloseConn(SideOf(l), k, Rest(l), end[SideOf(l)][k])
      BY <2>2 DEF ReceiveClose
    <3> QED
      BY <1>0, <1>1, <2>0, <3>1, <3>2, CloseConnBeside
  <2>3. CASE WritePanics(l) \/ ReceiveData(l)
    BY <1>1, <2>0, <2>3 DEF WritePanics, ReceiveData
  <2> QED
    BY <1>5, <2>1, <2>2, <2>3 DEF Loop
<1>6. CASE ReadFails \/ Dial
  BY <1>0, <1>1, <1>6 DEF ReadFails, Dial
<1>7. ASSUME NEW t \in Tunnels, ServerStep(t)
      PROVE  Beside("exit")
  <2>1. CASE Disconnect(t)
    BY <1>0, <2>1, ShutAllEnds DEF Disconnect, Beside, Sides
  <2>2. CASE ReceiveConnect(t)
    <3> DEFINE k == Head(wire["entry"][t]).conn
    <3>1. k \in Conns /\ (UNCHANGED end \/ \E d : end' = [end EXCEPT !["exit"][k] = d])
      BY <2>2, ReceiveConnectFacts
    <3> HIDE DEF k
    <3> QED
      BY <1>0, <1>1, <3>1, OneBeside
  <2>3. CASE ~Disconnect(t) /\ ~ReceiveConnect(t)
    BY <1>0, <1>1, <1>7, <2>3
    DEF ServerStep, Choose, Register, Recheck, Adopt, SetSender, Lose, GiveUp
  <2> QED
    BY <2>1, <2>2, <2>3
<1>8. ASSUME NEW x \in Exits, Agent(x) \/ Stop(x)
      PROVE  Beside("exit")
  <2>1. CASE Stop(x)
    <3>1. end'["entry"] = end["entry"]
      BY <1>0, <2>1, ShutAllEnds DEF Stop, EndsTyped
    <3> QED
      BY <3>1 DEF Beside, Sides
  <2>2. CASE Notify(x)
    BY <1>0, <2>2, ShutAllEnds DEF Notify, Beside, Sides
  <2>3. CASE Publish(x) \/ Rewire(x) \/ Start(x) \/ StopReturns(x)
    BY <1>0, <1>1, <2>3 DEF Publish, Rewire, Start, StopReturns
  <2> QED
    BY <1>8, <2>1, <2>2, <2>3 DEF Agent
<1> QED
  BY <1>0, <1>2, <1>3, <1>4, <1>5, <1>6, <1>7, <1>8, Steps, SideFacts

(* What all steps but a read and a delivery do to what the channels show.  *)
Closes ==
  \A s \in Sides, k \in Conns :
    /\ end'[s][k].got = end[s][k].got /\ end'[s][k].read = end[s][k].read
    /\ end[s][k].state = "closed" => end'[s][k].state = "closed"

(* One end changes without a read or a delivery.                           *)
LEMMA OneCloses ==
  ASSUME EndsTyped, NEW s \in Sides, NEW k \in Conns, NEW c, end' = [end EXCEPT ![s][k] = c],
         c.got = end[s][k].got, c.read = end[s][k].read,
         end[s][k].state = "closed" => c.state = "closed"
  PROVE  Closes
  BY DEF EndsTyped, Closes

(* Every step reads, delivers, or at most closes.                          *)
LEMMA Closing ==
  ASSUME TypeOK, Connects, [Next]_vars
  PROVE  Closes \/ \E s \in Sides, k \in Conns : ReadData(s, k) \/ Deliver(s, k)
<1>0. EndsTyped /\ RestTyped
  BY TypeParts
<1>1. CASE Fades
  BY <1>1 DEF Fades, AllWane, Wanes, Closes
<1>2. ASSUME NEW s \in Sides, NEW k \in Conns, Send(s, k)
      PROVE  Closes
  <2> DEFINE c == end[s][k]
  <2>1. PICK l \in {"read", "closing"} : end' = [end EXCEPT ![s][k] = [c EXCEPT !.pump = l]]
    BY <1>2, SendFacts
  <2>2. c \in EndOf(s)
    BY <1>0 DEF EndsTyped
  <2>3. /\ [c EXCEPT !.pump = l].got = c.got /\ [c EXCEPT !.pump = l].read = c.read
        /\ [c EXCEPT !.pump = l].state = c.state
    BY <2>2 DEF EndOf, Ends
  <2> QED
    BY <1>0, <2>1, <2>3, OneCloses
<1>3. ASSUME NEW k \in Conns, Accept(k)
      PROVE  Closes
  <2> DEFINE c == end["entry"][k]
             d == [c EXCEPT !.pump = "connect", !.held = TRUE, !.state = "open"]
  <2>1. end' = [end EXCEPT !["entry"][k] = d] /\ c.pump = "off" /\ c \in EndOf("entry")
    BY <1>0, <1>3, AcceptFacts
  <2>2. c.state = "none"
    BY <2>1 DEF Connects, Owned, Untouched
  <2>3. d.got = c.got /\ d.read = c.read
    BY <2>1 DEF EndOf, Ends
  <2> QED
    BY <1>0, <2>1, <2>2, <2>3, OneCloses DEF Sides
<1>4. ASSUME NEW l \in Loops, ReceiveData(l) \/ Enqueued(l)
      PROVE  Closes
  <2>1. CASE ReceiveData(l)
    BY <2>1 DEF ReceiveData, Closes
  <2>2. CASE Enqueued(l)
    <3> DEFINE s == SideOf(l)
               k == hand[l].conn
               c == end[s][k]
    <3>1. s \in Sides /\ k \in Conns
      BY <1>0, <2>2, SideFacts DEF Enqueued, RestTyped
    <3>2. c \in EndOf(s)
      BY <1>0, <3>1 DEF EndsTyped
    <3>3. end' = [end EXCEPT ![s][k] = Queued(c, hand[l].item)]
      BY <2>2 DEF Enqueued
    <3>4. /\ Queued(c, hand[l].item).got = c.got /\ Queued(c, hand[l].item).read = c.read
          /\ Queued(c, hand[l].item).state = c.state
      BY <3>2 DEF EndOf, Ends, Queued
    <3> QED
      BY <1>0, <3>1, <3>3, <3>4, OneCloses
  <2> QED
    BY <1>4, <2>1, <2>2
<1>5. ASSUME NEW t \in Tunnels, ReceiveConnect(t)
      PROVE  Closes
  <2> DEFINE q == wire["entry"][t]
             k == Head(q).conn
             c == end["exit"][k]
             d == [c EXCEPT !.held = TRUE, !.state = "open", !.pump = "read"]
  <2>1. /\ k \in Conns /\ c \in EndOf("exit")
        /\ q \in Seq(Messages) /\ q # <<>> /\ Head(q).type = "connect"
        /\ UNCHANGED end \/ end' = [end EXCEPT !["exit"][k] = d]
    BY <1>5, ReceiveConnectFacts
  <2>2. ConnectAt(t, 1, k)
    BY <2>1, TailAt DEF ConnectAt
  <2>3. owner[k] = None
    BY <2>1, <2>2 DEF Connects, ConnectOnce
  <2>4. c.state = "none"
    BY <2>1, <2>3 DEF Connects, Owned, Untouched
  <2>5. d.got = c.got /\ d.read = c.read
    BY <2>1 DEF EndOf, Ends
  <2>6. CASE UNCHANGED end
    BY <2>6 DEF Closes
  <2>7. CASE end' = [end EXCEPT !["exit"][k] = d]
    <3> HIDE DEF k, d
    <3> QED
      BY <1>0, <2>1, <2>4, <2>5, <2>7, OneCloses DEF Sides
  <2> QED
    BY <2>1, <2>6, <2>7
<1> QED
  BY <1>1, <1>2, <1>3, <1>4, <1>5, Kinds

(* The initial states are the channels'.                                   *)
LEMMA InitImplements ==
  ASSUME Init
  PROVE  Abstract!Init
<1>1. \A s \in Sides, k \in Conns :
        end[s][k].read = 0 /\ end[s][k].got = <<>> /\ end[s][k].state # "closed"
  BY DEF Init
<1>2. (faults > 0) = FALSE
  BY DEF Init
<1>3. Abstract!Sides = Sides
  BY DEF Abstract!Sides, Sides
<1>4. [s \in Sides |-> [k \in Conns |-> end[s][k].read]] = [s \in Sides |-> [k \in Conns |-> 0]]
  BY <1>1
<1>5. [s \in Sides |-> [k \in Conns |-> end[s][k].got]] = [s \in Sides |-> [k \in Conns |-> <<>>]]
  BY <1>1
<1>6. [s \in Sides |-> [k \in Conns |-> end[s][k].state = "closed"]]
        = [s \in Sides |-> [k \in Conns |-> FALSE]]
  <2>1. \A s \in Sides, k \in Conns : (end[s][k].state = "closed") = FALSE
    BY <1>1
  <2> QED
    BY <2>1, Zenon
<1> QED
  BY <1>2, <1>3, <1>4, <1>5, <1>6, Zenon DEF Abstract!Init

(* Two tables that differ in one entry.                                    *)
LEMMA TableChange ==
  ASSUME NEW A, NEW B, NEW s \in Sides, NEW k \in Conns, NEW v,
         A = [r \in Sides |-> [j \in Conns |-> A[r][j]]],
         B = [r \in Sides |-> [j \in Conns |-> B[r][j]]],
         \A r \in Sides, j \in Conns : B[r][j] = IF r = s /\ j = k THEN v ELSE A[r][j]
  PROVE  B = [A EXCEPT ![s][k] = v]
<1>1. B[s] = [A[s] EXCEPT ![k] = v]
  <2>1. DOMAIN A[s] = Conns /\ DOMAIN B[s] = Conns
    OBVIOUS
  <2>2. A[s] = [j \in Conns |-> A[s][j]]
    OBVIOUS
  <2>3. B[s] = [j \in Conns |-> B[s][j]]
    OBVIOUS
  <2>4. [A[s] EXCEPT ![k] = v] = [j \in Conns |-> IF j = k THEN v ELSE A[s][j]]
    BY <2>2
  <2>5. [j \in Conns |-> B[s][j]] = [j \in Conns |-> IF j = k THEN v ELSE A[s][j]]
    OBVIOUS
  <2> QED
    BY <2>3, <2>4, <2>5
<1>2. \A r \in Sides : r # s => B[r] = A[r]
  OBVIOUS
<1> QED
  BY <1>1, <1>2

(* A pump's read is a read of its channel.                                 *)
LEMMA ReadImplements ==
  ASSUME TypeOK, NEW s \in Sides, NEW k \in Conns, ReadData(s, k)
  PROVE  Abstract!Read(s, k)
<1> DEFINE c == end[s][k]
<1>1. /\ end' = [end EXCEPT ![s][k] = [c EXCEPT !.pump = "send", !.read = @ + 1]]
      /\ c.state # "closed" /\ c \in EndOf(s) /\ UNCHANGED faults
  BY TypeParts, ReadDataFacts
<1>2. \A r \in Sides, j \in Conns :
        /\ end'[r][j].read = IF r = s /\ j = k THEN c.read + 1 ELSE end[r][j].read
        /\ end'[r][j].got = end[r][j].got /\ end'[r][j].state = end[r][j].state
  BY <1>1, TypeParts DEF EndsTyped, EndOf, Ends
<1> DEFINE S == [r \in Sides |-> [j \in Conns |-> end[r][j].read]]
           G == [r \in Sides |-> [j \in Conns |-> end[r][j].got]]
           E == [r \in Sides |-> [j \in Conns |-> end[r][j].state = "closed"]]
<1>3. ~E[s][k]
  BY <1>1
<1>4. S' = [S EXCEPT ![s][k] = S[s][k] + 1]
  <2>1. \A r \in Sides, j \in Conns : S[r][j] = end[r][j].read /\ S'[r][j] = end'[r][j].read
    OBVIOUS
  <2>2. S = [r \in Sides |-> [j \in Conns |-> S[r][j]]]
    OBVIOUS
  <2>3. S' = [r \in Sides |-> [j \in Conns |-> S'[r][j]]]
    OBVIOUS
  <2>4. \A r \in Sides, j \in Conns : S'[r][j] = IF r = s /\ j = k THEN S[s][k] + 1 ELSE S[r][j]
    BY <1>2, <2>1
  <2> HIDE DEF S
  <2> QED
    BY <2>2, <2>3, <2>4, TableChange
<1>5. UNCHANGED G
  BY <1>2
<1>6. UNCHANGED E
  BY <1>2
<1>7. UNCHANGED (faults > 0)
  BY <1>1
<1> QED
  BY <1>3, <1>4, <1>5, <1>6, <1>7, Zenon DEF Abstract!Read

(* A write to the connection is a delivery of its channel.                 *)
LEMMA DeliverImplements ==
  ASSUME Session, NEW s \in Sides, NEW k \in Conns, Deliver(s, k)
  PROVE  Abstract!Deliver(s, k)
<1> DEFINE c == end[s][k]
           i == Head(c.queue)
           o == end[Other(s)][k]
<1>0. TypeOK /\ EndsTyped /\ Way(s, k) /\ Other(s) \in Sides /\ o \in Ends /\ c \in Ends
  BY TypeParts, SideFacts DEF Session, Swap, AllApart, EndsTyped
<1>1. /\ end' = [end EXCEPT ![s][k] = [c EXCEPT !.queue = Tail(@), !.got = Append(@, i)]]
      /\ c.state = "open" /\ c.queue # <<>> /\ UNCHANGED faults
  BY DEF Deliver
<1>2. \A r \in Sides, j \in Conns :
        /\ end'[r][j].got = IF r = s /\ j = k THEN Append(c.got, i) ELSE end[r][j].got
        /\ end'[r][j].read = end[r][j].read /\ end'[r][j].state = end[r][j].state
  BY <1>0, <1>1 DEF EndsTyped, Ends
<1>3. i = c.queue[1] /\ 1 \in 1..Len(c.queue)
  <2>1. c.queue \in Seq(Nat)
    BY <1>0 DEF Ends
  <2>2. Len(c.queue) \in Nat /\ Len(c.queue) > 0
    BY <1>1, <2>1
  <2> QED
    BY <2>1, <2>2
<1>4. i \in 1..Sent(Other(s), k) /\ \A j \in 1..Len(c.got) : c.got[j] # i
  BY <1>0, <1>3 DEF Way, Apart, ApartEnd
<1>5. i \in 1..o.read
  <2>1. o.read \in Nat /\ Sent(Other(s), k) \in Int /\ Sent(Other(s), k) <= o.read
    BY <1>0 DEF Ends, Sent
  <2> HIDE DEF o, i
  <2> QED
    BY <1>4, <2>1
<1>6. faults > 0 \/ i = Len(c.got) + 1
  <2>1. faults \in 0..MaxFaults
    BY <1>0 DEF TypeOK
  <2>2. CASE faults = 0
    <3>1. Flowing(s, k)
      BY <2>2 DEF Session, Ordered
    <3>2. \A j \in 1..Len(c.queue) : c.queue[j] = Len(c.got) + j
      BY <1>1, <3>1 DEF Flowing, Along
    <3> QED
      BY <1>3, <3>2
  <2> QED
    BY <2>1, <2>2
<1> DEFINE S == [r \in Sides |-> [j \in Conns |-> end[r][j].read]]
           G == [r \in Sides |-> [j \in Conns |-> end[r][j].got]]
           E == [r \in Sides |-> [j \in Conns |-> end[r][j].state = "closed"]]
<1>7. ~E[s][k]
  BY <1>1
<1>8. UNCHANGED S /\ UNCHANGED E
  BY <1>2
<1>9. UNCHANGED (faults > 0)
  BY <1>1
<1>a. i \in 1..S[Abstract!Other(s)][k]
  <2>1. Abstract!Other(s) = Other(s)
    BY DEF Abstract!Other, Other
  <2> QED
    BY <1>0, <1>5, <2>1
<1>b. G[s][k] = c.got
  OBVIOUS
<1>c. i \notin Abstract!Delivered(s, k)
  BY <1>4, <1>b DEF Abstract!Delivered
<1>d. faults > 0 \/ i = Len(G[s][k]) + 1
  BY <1>6, <1>b
<1>e. G' = [G EXCEPT ![s][k] = Append(G[s][k], i)]
  <2>1. \A r \in Sides, j \in Conns : G[r][j] = end[r][j].got /\ G'[r][j] = end'[r][j].got
    OBVIOUS
  <2>2. G = [r \in Sides |-> [j \in Conns |-> G[r][j]]]
    OBVIOUS
  <2>3. G' = [r \in Sides |-> [j \in Conns |-> G'[r][j]]]
    OBVIOUS
  <2>4. \A r \in Sides, j \in Conns :
          G'[r][j] = IF r = s /\ j = k THEN Append(G[s][k], i) ELSE G[r][j]
    BY <1>2, <2>1
  <2> DEFINE g == Append(G[s][k], i)
  <2>5. \A r \in Sides, j \in Conns : G'[r][j] = IF r = s /\ j = k THEN g ELSE G[r][j]
    BY <2>4
  <2> HIDE DEF G, i, g
  <2>6. G' = [G EXCEPT ![s][k] = g]
    BY <2>2, <2>3, <2>5, TableChange
  <2> QED
    BY <2>6 DEF g
<1> HIDE DEF i
<1> QED
  BY <1>7, <1>8, <1>9, <1>a, <1>c, <1>d, <1>e, Zenon DEF Abstract!Deliver

(* All other steps are a closing or a break of channels, or nothing.       *)
LEMMA ClosesImplements ==
  ASSUME TypeOK, TypeOK', [Next]_vars, Closes, NEW s \in Sides, Beside(s),
         NEW C \in SUBSET Conns, C = {k \in Conns : end'[s][k].state = "closed"}
  PROVE  Abstract!End(s, C) \/ Abstract!Break(s, C)
<1> DEFINE S == [r \in Sides |-> [j \in Conns |-> end[r][j].read]]
           G == [r \in Sides |-> [j \in Conns |-> end[r][j].got]]
           E == [r \in Sides |-> [j \in Conns |-> end[r][j].state = "closed"]]
<1>1. UNCHANGED S /\ UNCHANGED G
  BY DEF Closes
<1>2. E' = [E EXCEPT ![s] = [k \in Conns |-> E[s][k] \/ k \in C]]
  <2> DEFINE R == [k \in Conns |-> end'[s][k].state = "closed"]
  <2>1. [k \in Conns |-> E[s][k] \/ k \in C] = R
    <3>1. \A k \in Conns : (E[s][k] \/ k \in C) <=> (end'[s][k].state = "closed")
      BY DEF Closes
    <3> HIDE DEF E
    <3> QED
      BY <3>1, Zenon
  <2>2. E'[s] = R
    BY Zenon
  <2>3. \A r \in Sides : r # s => E'[r] = E[r]
    <3> TAKE r \in Sides
    <3> HAVE r # s
    <3>1. \A k \in Conns : end'[r][k] = end[r][k]
      BY DEF Beside
    <3> QED
      BY <3>1
  <2>4. E = [r \in Sides |-> E[r]] /\ E' = [r \in Sides |-> E'[r]]
    OBVIOUS
  <2> HIDE DEF E, R
  <2> QED
    BY <2>1, <2>2, <2>3, <2>4
<1>3. Abstract!Close(s, C)
  BY <1>1, <1>2, Zenon DEF Abstract!Close
<1>4. (faults > 0)' = (faults > 0) \/ (faults > 0)' = TRUE
  <2>1. faults \in 0..MaxFaults /\ faults' \in 0..MaxFaults
    BY DEF TypeOK
  <2>2. CASE faults' = 0
    BY <2>2, FaultsGrow
  <2>3. CASE faults' # 0
    BY <2>1, <2>3
  <2> QED
    BY <2>2, <2>3
<1> QED
  BY <1>3, <1>4, Zenon DEF Abstract!End, Abstract!Break

(* Every step is one of the channels', or none.                            *)
LEMMA StepImplements ==
  ASSUME Session, [Next]_vars
  PROVE  Abstract!Next
<1>1. TypeOK /\ Connects /\ Abstract!Sides = Sides
  BY DEF Session, Swap, Abstract!Sides, Sides
<1>2. TypeOK'
  BY <1>1, TypeStep
<1>3. ASSUME NEW s \in Sides, NEW k \in Conns, ReadData(s, k) \/ Deliver(s, k)
      PROVE  Abstract!Next
  BY <1>1, <1>3, ReadImplements, DeliverImplements DEF Abstract!Next
<1>4. CASE Closes
  <2>1. PICK s \in Sides : Beside(s)
    BY <1>1, OneSide
  <2>2. PICK C \in SUBSET Conns : C = {k \in Conns : end'[s][k].state = "closed"}
    OBVIOUS
  <2>3. Abstract!End(s, C) \/ Abstract!Break(s, C)
    BY <1>1, <1>2, <1>4, <2>1, <2>2, ClosesImplements
  <2> QED
    BY <1>1, <2>3 DEF Abstract!Next
<1> QED
  BY <1>1, <1>3, <1>4, Closing

(* The two forwarders and the tunnels between them carry the streams of a  *)
(* rule as two channels for each connection would: every step of a pump, a *)
(* read loop, a write loop, of Client, Server and the agent, is a read, a  *)
(* delivery, a closing or a break of the channels.  In particular nothing  *)
(* is delivered twice or invented, also after tunnels were lost and exit   *)
(* forwarders replaced, and a closed end reads and delivers nothing.       *)
THEOREM Implementation == Spec => ImplementsChannels
<1>1. Init => Abstract!Init
  BY InitImplements
<1>2. Session /\ [Next]_vars => [Abstract!Next]_(Abstract!vars)
  BY StepImplements
<1> QED
  BY <1>1, <1>2, InSession, PTL DEF Spec, ImplementsChannels, Abstract!Spec

=============================================================================
