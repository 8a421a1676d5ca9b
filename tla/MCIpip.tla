------------------------------- MODULE MCIpip -------------------------------
(***************************************************************************)
(* A small instance of Ipip: plain packets, packets in a tunnel and in two *)
(* tunnels, packets cut inside either header, lengths and sums at the ends *)
(* of 16 bits.                                                             *)
(***************************************************************************)
EXTENDS Ipip, TLC

Hdr(totalLen, ttl, proto, chk) ==
  [other |-> 17664, totalLen |-> totalLen, ttl |-> ttl, proto |-> proto, chk |-> chk,
   src |-> 167837953, dst |-> 167838209]

Packet(len, ips) == [len |-> len, md |-> NoMd, dmac |-> 1, etherType |-> <<8, 0>>, ips |-> ips]

Udp  == Hdr(<<0, 30>>, 64, 17, <<99, 204>>)
Tun  == Hdr(<<0, 50>>, 64, IPIP_PROTO, <<99, 197>>)

\* A wrong checksum, ttl 0, and a length that adding 20 makes wrap.
Odd  == Hdr(<<255, 250>>, 0, 17, <<255, 255>>)

MCFrames ==
  {Packet(44, <<Udp>>), Packet(34, <<Odd>>), Packet(64, <<Tun, Udp>>), Packet(53, <<Tun, Udp>>),
   Packet(84, <<Tun, Tun, Udp>>), Packet(33, <<Udp>>),
   [Packet(44, <<Udp>>) EXCEPT !.etherType = <<8, 6>>],
   [Packet(44, <<Udp>>) EXCEPT !.md = <<8, 6>>], [Packet(13, <<Udp>>) EXCEPT !.md = <<8, 0>>]}

MCEntries ==
  {[action |-> "set_ipip", src |-> 167772161, dst |-> 167772162, dmac |-> 0, port |-> 1],
   [action |-> "set_nh", src |-> 0, dst |-> 0, dmac |-> 7, port |-> 2], DropEntry}

MCSymmetry == Permutations(Cpus) \cup Permutations(Skbs)
=============================================================================
