------------------------------ MODULE Tracker -------------------------------
(***************************************************************************)
(* What a flow tracker promises, whatever its packets look like: a packet  *)
(* that belongs to no flow is dropped; any other is delivered, after its   *)
(* flow has been entered in one step into a table of Capacity flows,       *)
(* unless the table is full.  Flows are forgotten at any time.             *)
(***************************************************************************)
EXTENDS Integers, FiniteSets

CONSTANTS
  Packets,    \* the packets
  Flows,      \* the flows there are
  CtrlFlows,  \* those the control plane may enter
  Capacity    \* how many the table holds

VARIABLES
  pkt,   \* [Packets -> NotYet, NoFlow or <<"flow", the packet's flow>>]
  fate,  \* [Packets -> "pending", "tracked", "delivered" or "dropped"]
  flows  \* the flows entered

vars == <<pkt, fate, flows>>

NotYet == <<>>
NoFlow == <<"none">>

Init ==
  /\ pkt = [s \in Packets |-> NotYet]
  /\ fate = [s \in Packets |-> "pending"]
  /\ flows = {}

Receive(s) ==
  /\ pkt[s] = NotYet
  /\ pkt'[s] = NoFlow \/ pkt'[s] \in {"flow"} \X Flows
  /\ pkt' = [pkt EXCEPT ![s] = pkt'[s]]
  /\ UNCHANGED <<fate, flows>>

Discard(s) ==
  /\ pkt[s] = NoFlow /\ fate[s] = "pending"
  /\ fate' = [fate EXCEPT ![s] = "dropped"]
  /\ UNCHANGED <<pkt, flows>>

Track(s) ==
  /\ pkt[s] \notin {NotYet, NoFlow} /\ fate[s] = "pending"
  /\ fate' = [fate EXCEPT ![s] = "tracked"]
  /\ flows' = IF Cardinality(flows) >= Capacity THEN flows ELSE flows \cup {pkt[s][2]}
  /\ UNCHANGED pkt

Deliver(s) ==
  /\ fate[s] = "tracked"
  /\ fate' = [fate EXCEPT ![s] = "delivered"]
  /\ UNCHANGED <<pkt, flows>>

Forget ==
  /\ \E k \in flows : flows' = flows \ {k}
  /\ UNCHANGED <<pkt, fate>>

Configure ==
  /\ Cardinality(flows) < Capacity
  /\ \E k \in CtrlFlows : flows' = flows \cup {k}
  /\ UNCHANGED <<pkt, fate>>

Next ==
  \/ \E s \in Packets : Receive(s) \/ Discard(s) \/ Track(s) \/ Deliver(s)
  \/ Forget
  \/ Configure

Spec == Init /\ [][Next]_vars
=============================================================================
