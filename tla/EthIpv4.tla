------------------------------ MODULE EthIpv4 -------------------------------
(***************************************************************************)
(* The headers of the programs that look at Ethernet and IPv4 only         *)
(* (routing, simple/redirect_l2, simple/simple_l3): the contents of a      *)
(* packet, the parsed headers, and the deparser that writes them back.     *)
(*                                                                         *)
(* Abstraction: an address is a number; version, ihl, diffserv, totalLen,  *)
(* identification, flags and fragOffset, which are copied in and out       *)
(* unread, are left out but for their part in the checksum (sum).          *)
(***************************************************************************)
EXTENDS Pna

\* The contents of a packet; fields past its length stand for nothing.  sum
\* is the one's complement sum of the words of the IPv4 header but the one
\* of ttl and protocol and the checksum.
IpFrame == [len : Nat, md : Half \cup {NoMd}, dmac : Nat, smac : Nat, etherType : Half,
          ttl : Byte, proto : Byte, chk : Half, sum : U16, src : Nat, dst : Nat]

NoIpFrame == [len |-> 0, md |-> NoMd, dmac |-> 0, smac |-> 0, etherType |-> <<0, 0>>,
            ttl |-> 0, proto |-> 0, chk |-> <<0, 0>>, sum |-> 0, src |-> 0, dst |-> 0]

\* struct hdr_md.
IpHdrMd == [eth : [valid : BOOLEAN, dmac : Nat, smac : Nat, etherType : U16],
          ip : [valid : BOOLEAN, ttl : Byte, proto : Byte, chk : U16, src : Nat, dst : Nat],
          offset : Nat]

ZeroIpHdrMd ==
  [eth |-> [valid |-> FALSE, dmac |-> 0, smac |-> 0, etherType |-> 0],
   ip |-> [valid |-> FALSE, ttl |-> 0, proto |-> 0, chk |-> 0, src |-> 0, dst |-> 0],
   offset |-> 0]

\* The map with a header extracted.
ExtractEth(md, f) ==
  [eth |-> [valid |-> TRUE, dmac |-> f.dmac, smac |-> f.smac, etherType |-> load_half(f.etherType)],
   ip |-> md.ip, offset |-> md.offset + EthLen]

ExtractIpv4(md, f) ==
  [eth |-> md.eth,
   ip |-> [valid |-> TRUE, ttl |-> f.ttl, proto |-> f.proto, chk |-> load_half(f.chk),
           src |-> f.src, dst |-> f.dst],
   offset |-> md.offset + Ipv4Len]

\* The map with another destination MAC address, or source and destination.
WithMacs(md, smac, dmac) ==
  [eth |-> [valid |-> md.eth.valid, dmac |-> dmac, smac |-> smac, etherType |-> md.eth.etherType],
   ip |-> md.ip, offset |-> md.offset]

-----------------------------------------------------------------------------
(* The deparser *)

IpHeaderLength(md) ==
  (IF md.eth.valid THEN EthLen ELSE 0) + (IF md.ip.valid THEN Ipv4Len ELSE 0)

WriteIpHeaders(f, md) ==
  [len |-> f.len, md |-> f.md, sum |-> f.sum,
   dmac |-> IF md.eth.valid THEN md.eth.dmac ELSE f.dmac,
   smac |-> IF md.eth.valid THEN md.eth.smac ELSE f.smac,
   etherType |-> IF md.eth.valid THEN emit_half(md.eth.etherType) ELSE f.etherType,
   ttl |-> IF md.ip.valid THEN md.ip.ttl ELSE f.ttl,
   proto |-> IF md.ip.valid THEN md.ip.proto ELSE f.proto,
   chk |-> IF md.ip.valid THEN emit_half(md.ip.chk) ELSE f.chk,
   src |-> IF md.ip.valid THEN md.ip.src ELSE f.src,
   dst |-> IF md.ip.valid THEN md.ip.dst ELSE f.dst]

EmitIp(f, md, b) ==
  IF f.len < IpHeaderLength(md)
    THEN [ret |-> TC_ACT_SHOT, frame |-> f, cb |-> b, md |-> md]
    ELSE [ret |-> Continue, frame |-> WriteIpHeaders(f, md), cb |-> b, md |-> md]

\* What process() may come to once its tables have been applied.  (The map
\* is not read again before it is zeroed; what the deparser leaves in it is
\* not kept track of.)
DeparseIp(f, md, b) ==
  IF b.drop
    THEN {[ret |-> TC_ACT_SHOT, frame |-> f, cb |-> b, md |-> md]}
    ELSE {IF r.ret = TC_ACT_SHOT
            THEN [ret |-> TC_ACT_SHOT, frame |-> r.frame, cb |-> b, md |-> md]
            ELSE EmitIp(r.frame, md, b) :
            r \in adjust_room(f, IpHeaderLength(md) - md.offset)}

-----------------------------------------------------------------------------
\* A packet of which Ethernet and IPv4 header are there.
HasIpv4Type(f) == f.len >= EthLen /\ f.etherType = <<8, 0>>

Complete(f) == HasIpv4Type(f) /\ f.len >= EthLen + Ipv4Len
=============================================================================
