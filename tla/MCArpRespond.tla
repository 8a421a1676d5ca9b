---------------------------- MODULE MCArpRespond ----------------------------
(***************************************************************************)
(* A small instance of ArpRespond: requests for two addresses, a reply,    *)
(* ARP packets cut inside either header, packets of another type, and ones *)
(* that end inside the Ethernet header.                                    *)
(***************************************************************************)
EXTENDS ArpRespond, TLC

Packet(len, oper, tpa) ==
  [len |-> len, md |-> NoMd, dmac |-> 99, smac |-> 1, etherType |-> <<8, 6>>,
   oper |-> oper, sha |-> 1, spa |-> 5, tha |-> 0, tpa |-> tpa]

MCFrames ==
  {Packet(42, <<0, 1>>, 6), Packet(60, <<0, 1>>, 7), Packet(42, <<0, 2>>, 6), Packet(42, <<1, 0>>, 6),
   Packet(41, <<0, 1>>, 6), Packet(21, <<0, 1>>, 6), Packet(13, <<0, 1>>, 6),
   [Packet(42, <<0, 1>>, 6) EXCEPT !.etherType = <<134, 221>>],
   [Packet(42, <<0, 1>>, 6) EXCEPT !.md = <<8, 0>>], [Packet(13, <<0, 1>>, 6) EXCEPT !.md = <<8, 6>>]}

MCSymmetry == Permutations(Cpus) \cup Permutations(Skbs)
=============================================================================
