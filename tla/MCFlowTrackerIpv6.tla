------------------------- MODULE MCFlowTrackerIpv6 --------------------------
(***************************************************************************)
(* A small instance of FlowTrackerIpv6: packets whose lengths lie on       *)
(* either side of every header boundary, bit fields with all, alternating  *)
(* and no bits set, and a packet with an extension header.                 *)
(***************************************************************************)
EXTENDS FlowTrackerIpv6, TLC

Ip(len, nextHdr, first) ==
  [len |-> len, md |-> NoMd, etherType |-> <<134, 221>>, first |-> first, payloadLen |-> <<129, 4>>,
   nextHdr |-> nextHdr, src |-> 1, dst |-> 2, sport |-> <<201, 2>>, dport |-> <<0, 80>>]

Tcp == Ip(58, TCP_PROTO, <<106, 91, 44, 29>>)

MCFrames ==
  {Tcp, Ip(58, UDP_PROTO, <<255, 255, 255, 255>>), Ip(57, TCP_PROTO, <<96, 0, 0, 0>>),
   Ip(53, TCP_PROTO, <<106, 91, 44, 29>>), Ip(58, 44, <<96, 0, 0, 1>>), Ip(13, TCP_PROTO, <<96, 0, 0, 0>>),
   [Tcp EXCEPT !.etherType = <<8, 0>>],
   [Tcp EXCEPT !.len = 13, !.md = <<134, 221>>], [Tcp EXCEPT !.md = <<8, 6>>, !.sport = <<2, 201>>]}

\* The control plane enters the flow of Tcp on port 1 itself.
MCCtrlKeys == {FlowOf6(1, Tcp)}

MCSymmetry == Permutations(Cpus) \cup Permutations(Skbs)
=============================================================================
