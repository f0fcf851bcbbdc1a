------------------------------- MODULE Channels -------------------------------
(***************************************************************************)
(* What a rule promises to the two ends of a TCP connection it carries: a  *)
(* channel in each direction.  As long as nothing is lost it delivers what *)
(* was read at the other end, in order and without a gap; afterwards it    *)
(* may lose and reorder, but never invents or repeats.  An end that was    *)
(* closed reads and delivers nothing more.  Items are numbered reads.      *)
(***************************************************************************)
EXTENDS Naturals, Sequences

CONSTANT Conns

Sides == {"entry", "exit"}
Other(s) == IF s = "entry" THEN "exit" ELSE "entry"

VARIABLES
  sent,   \* how many items each end has read
  got,    \* the items each end has delivered
  ended,  \* the ends that were closed
  broken  \* has anything been lost?

vars == <<sent, got, ended, broken>>

Init ==
  /\ sent = [s \in Sides |-> [k \in Conns |-> 0]]
  /\ got = [s \in Sides |-> [k \in Conns |-> <<>>]]
  /\ ended = [s \in Sides |-> [k \in Conns |-> FALSE]]
  /\ broken = FALSE

Read(s, k) ==
  /\ ~ended[s][k]
  /\ sent' = [sent EXCEPT ![s][k] = @ + 1]
  /\ UNCHANGED <<got, ended, broken>>

Delivered(s, k) == {got[s][k][i] : i \in 1..Len(got[s][k])}

Deliver(s, k) ==
  /\ ~ended[s][k]
  /\ \E i \in 1..sent[Other(s)][k] :
       /\ i \notin Delivered(s, k)
       /\ broken \/ i = Len(got[s][k]) + 1
       /\ got' = [got EXCEPT ![s][k] = Append(@, i)]
  /\ UNCHANGED <<sent, ended, broken>>

(* Ends of one side are closed, some of them or, with their forwarder, all. *)
Close(s, K) ==
  /\ ended' = [ended EXCEPT ![s] = [k \in Conns |-> @[k] \/ k \in K]]
  /\ UNCHANGED <<sent, got>>

End(s, K) == Close(s, K) /\ UNCHANGED broken

Break(s, K) == Close(s, K) /\ broken' = TRUE

Next ==
  \E s \in Sides :
    \/ \E k \in Conns : Read(s, k) \/ Deliver(s, k)
    \/ \E K \in SUBSET Conns : End(s, K) \/ Break(s, K)

Spec == Init /\ [][Next]_vars
=============================================================================
