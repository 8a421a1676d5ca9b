--------------------------- MODULE MCEthIpv4Frames --------------------------
(***************************************************************************)
(* Packets for small instances of RedirectL2 and SimpleL3: whole ones that *)
(* differ in protocol or in address, ones cut inside the IPv4 and inside   *)
(* the Ethernet header, an ARP packet, XDP metadata with and without room. *)
(***************************************************************************)
EXTENDS EthIpv4, TLC

Packet(len, proto, src, dst) ==
  [len |-> len, md |-> NoMd, dmac |-> 1, smac |-> 2, etherType |-> <<8, 0>>, ttl |-> 64,
   proto |-> proto, chk |-> <<201, 2>>, sum |-> 7, src |-> src, dst |-> dst]

MCFrames ==
  {Packet(34, 6, 5, 6), Packet(40, 6, 6, 5), Packet(34, 17, 5, 6), Packet(33, 6, 5, 6),
   Packet(13, 6, 5, 6), [Packet(34, 6, 5, 6) EXCEPT !.etherType = <<8, 6>>],
   [Packet(34, 6, 5, 6) EXCEPT !.md = <<8, 6>>], [Packet(13, 6, 5, 6) EXCEPT !.md = <<8, 0>>]}

MCNextHops == {[smac |-> 11, dmac |-> 12, port |-> 1], [smac |-> 21, dmac |-> 22, port |-> 2]}

MCSymmetry == Permutations(Cpus) \cup Permutations(Skbs)
=============================================================================
