------------------------------- MODULE Router -------------------------------
(***************************************************************************)
(* What routing promises, while the tables may change at any moment: each  *)
(* packet has one fate.  A packet that is to be routed is given, at one    *)
(* moment, the index the fib has for its address, and at a later one the   *)
(* next hop that is then found under the index; all others are dropped.    *)
(*                                                                         *)
(* A router that decides from both tables at one moment would promise      *)
(* more than the program keeps: an entry of nh_table that is replaced      *)
(* between the two lookups takes the packet to where no state of the two   *)
(* tables together would have sent it.                                     *)
(***************************************************************************)
EXTENDS Integers

CONSTANTS
  Packets,   \* the packets
  Prefixes,  \* [addrs, len], the prefixes fib_table may hold
  Indices,   \* the indices of next hops
  NextHops   \* [dmac, port]; both are 0 for an entry that says drop

VARIABLES
  pkt,    \* [Packets -> <<>>, or whether the packet is to be routed, and where]
  route,  \* [Packets -> NoRoute or the index the packet was given]
  fate,   \* [Packets -> Pending, Dropped or MAC address and port]
  fib,
  nh

vars == <<pkt, route, fate, fib, nh>>

NoRoute == -1
Pending == <<>>
Dropped == <<0, 0>>

\* The indices the fib has for an address: those of the longest prefixes
\* that cover it, or 0, the default route.
IndexFor(a) ==
  LET covers == {p \in DOMAIN fib : a \in p.addrs}
      longest == {p \in covers : \A q \in covers : q.len <= p.len}
  IN IF covers = {} THEN {0} ELSE {fib[p] : p \in longest}

\* What nh has under an index.
Hop(i) == IF i \in DOMAIN nh THEN <<nh[i].dmac, nh[i].port>> ELSE Dropped

Init ==
  /\ pkt = [s \in Packets |-> <<>>]
  /\ route = [s \in Packets |-> NoRoute]
  /\ fate = [s \in Packets |-> Pending]
  /\ fib = [p \in {} |-> 0]
  /\ nh = [i \in {} |-> 0]

Receive(s) ==
  /\ pkt[s] = <<>>
  /\ pkt'[s] \in BOOLEAN \X Nat
  /\ pkt' = [pkt EXCEPT ![s] = pkt'[s]]
  /\ UNCHANGED <<route, fate, fib, nh>>

\* A packet that is not to be routed is dropped.
Refuse(s) ==
  /\ pkt[s] # <<>> /\ ~pkt[s][1] /\ fate[s] = Pending
  /\ fate' = [fate EXCEPT ![s] = Dropped]
  /\ UNCHANGED <<pkt, route, fib, nh>>

Resolve(s) ==
  /\ pkt[s] # <<>> /\ pkt[s][1] /\ fate[s] = Pending /\ route[s] = NoRoute
  /\ \E i \in IndexFor(pkt[s][2]) : route' = [route EXCEPT ![s] = i]
  /\ UNCHANGED <<pkt, fate, fib, nh>>

Forward(s) ==
  /\ route[s] # NoRoute
  /\ fate' = [fate EXCEPT ![s] = Hop(route[s])]
  /\ route' = [route EXCEPT ![s] = NoRoute]
  /\ UNCHANGED <<pkt, fib, nh>>

\* The control plane may do as it likes.
Configure ==
  /\ DOMAIN fib' \subseteq Prefixes /\ \A p \in DOMAIN fib' : fib'[p] \in Indices
  /\ DOMAIN nh' \subseteq Indices /\ \A i \in DOMAIN nh' : nh'[i] \in NextHops
  /\ UNCHANGED <<pkt, route, fate>>

Next == Configure \/ \E s \in Packets : Receive(s) \/ Refuse(s) \/ Resolve(s) \/ Forward(s)

Spec == Init /\ [][Next]_vars
=============================================================================
