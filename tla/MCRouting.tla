----------------------------- MODULE MCRouting ------------------------------
(***************************************************************************)
(* A small instance of Routing: two prefixes one inside the other, two     *)
(* next hops and a drop entry under two indices, packets whose ttl and     *)
(* lengths lie on either side of the program's tests, checksums at the     *)
(* ends of one's complement arithmetic.                                    *)
(***************************************************************************)
EXTENDS Routing, TLC

Packet(len, ttl, chk, sum) ==
  [len |-> len, md |-> NoMd, dmac |-> 1, smac |-> 2, etherType |-> <<8, 0>>, ttl |-> ttl,
   proto |-> 17, chk |-> chk, sum |-> sum, src |-> 1, dst |-> 10]

\* ttl 2 and 64 with the right checksum (0xFFFF and 0 among them) or a wrong
\* one, ttl 1, an IPv4 header cut short, an ARP packet, XDP metadata.
MCFrames ==
  {Packet(34, 64, <<0, 0>>, 65535 - TtlWord(64, 17)),
   Packet(34, 2, <<255, 255>>, 65535 - TtlWord(2, 17)),
   Packet(34, 2, <<254, 238>>, 0),
   Packet(34, 64, <<0, 1>>, 0),
   Packet(34, 1, <<0, 0>>, 0),
   Packet(33, 64, <<0, 0>>, 0),
   [Packet(34, 64, <<0, 0>>, 0) EXCEPT !.etherType = <<8, 6>>],
   [Packet(13, 64, <<0, 0>>, 0) EXCEPT !.md = <<8, 0>>],
   [Packet(34, 64, <<0, 0>>, 5) EXCEPT !.md = <<8, 6>>, !.dst = 11]}

MCPrefixes == {[addrs |-> {10, 11}, len |-> 8], [addrs |-> {10}, len |-> 32]}

MCNextHops == {[dmac |-> 21, port |-> 1], [dmac |-> 22, port |-> 2], DropEntry}

MCSymmetry == Permutations(Cpus) \cup Permutations(Skbs)
=============================================================================
