--------------------------- MODULE MCFlowTracker ----------------------------
(***************************************************************************)
(* Small instances of FlowTracker: packets whose lengths lie on either     *)
(* side of every header boundary, and flows that differ in one field.      *)
(***************************************************************************)
EXTENDS FlowTracker, TLC

Ip(len, proto, sport) ==
  [len |-> len, md |-> NoMd, etherType |-> <<8, 0>>, src |-> 1, dst |-> 2,
   proto |-> proto, sport |-> sport, dport |-> <<0, 80>>]

Tcp == Ip(38, TCP_PROTO, <<201, 2>>)

\* One complete TCP packet and one UDP packet, packets cut just short of the
\* ports and of the IPv4 header, an ARP packet, an ICMP packet; XDP metadata
\* in front of a packet with and without room for an etherType.
MCFrames ==
  {Tcp, Ip(38, UDP_PROTO, <<2, 1>>), Ip(37, TCP_PROTO, <<201, 2>>), Ip(33, TCP_PROTO, <<201, 2>>),
   [Tcp EXCEPT !.etherType = <<8, 6>>], Ip(38, 1, <<201, 2>>),
   [Tcp EXCEPT !.len = 13, !.md = <<8, 0>>], [Tcp EXCEPT !.md = <<8, 6>>]}

MCLiveFrames == {Tcp, Ip(38, UDP_PROTO, <<2, 1>>), Ip(33, TCP_PROTO, <<201, 2>>)}

\* The control plane enters the flow of Tcp on port 1 itself.
MCCtrlKeys == {FlowOf(1, Tcp)}

MCSymmetry == Permutations(Cpus) \cup Permutations(Skbs)
=============================================================================
