-------------------------- MODULE FlowTrackerProofs -------------------------
(***************************************************************************)
(* The safety properties of FlowTracker for any number of CPUs and         *)
(* packets, any packet contents and any table size.                        *)
(***************************************************************************)
EXTENDS FlowTracker, FlowTrackerIpv6, PnaProofs

\* What run_parser leaves in the map for a packet with contents f.
Parsed(f) == run_parser(f, ZeroHdrMd).md

(***************************************************************************)
(* The inductive invariant.  CpuInv (of PnaProofs): a packet at work is at *)
(* work on one CPU only.  ScratchInv: what a CPU finds in the map is what  *)
(* the parser makes of the contents its packet had when it was received,   *)
(* although the packet may have been through the deparser in between.      *)
(* SkbInv: a packet waiting at its ingress has the contents it was         *)
(* received with, and is marked for the kernel only if it is not to be     *)
(* rejected.                                                               *)
(***************************************************************************)
ScratchInv ==
  \A c \in Cpus :
    /\ pc[c] # "idle" => ~RejectedByParser(rcvd[cur[c]])
    /\ pc[c] = "main" => /\ hdrMd[c] = Parsed(rcvd[cur[c]])
                         /\ frame[cur[c]] = rcvd[cur[c]]
    /\ pc[c] = "ct_flow_miss" => /\ ~MetadataFails(rcvd[cur[c]])
                                 /\ hdrMd[c] = SetMeta(Parsed(rcvd[cur[c]]))
                                 /\ frame[cur[c]] = RestoreEtherType(rcvd[cur[c]])

SkbInv ==
  \A s \in Skbs :
    /\ ~cb[s].drop /\ cb[s].egress_port = 0
    /\ cb[s].pass_to_kernel => ~Rejected(rcvd[s])
    /\ loc[s] \in {"ingress", "stack"} => frame[s] = rcvd[s]
    /\ loc[s] = "stack" => ~Rejected(rcvd[s])
    /\ loc[s] = "dropped" => Rejected(rcvd[s])
    /\ loc[s] # "sent"
    /\ loc[s] = "new" => ~cb[s].pass_to_kernel

IndInv == TypeOK /\ CpuInv /\ ScratchInv /\ SkbInv /\ TableSound

-----------------------------------------------------------------------------
(* The parser *)

EthHdr == [valid : BOOLEAN, etherType : U16]
Ipv4Hdr == [valid : BOOLEAN, src : Nat, dst : Nat, proto : Byte]
MetaHdr == [srcPort : U16, dstPort : U16]

(***************************************************************************)
(* Every step of the parser leaves a well-formed struct hdr_md.            *)
(***************************************************************************)
LEMMA MdTypes ==
  ASSUME NEW f \in Frame
  PROVE  /\ ZeroHdrMd \in HdrMd
         /\ \A md \in HdrMd : /\ WithEth(md, f) \in HdrMd
                              /\ WithIpv4(md, f) \in HdrMd
                              /\ WithTcp(md, f) \in HdrMd
                              /\ WithUdp(md, f) \in HdrMd
                              /\ SetMeta(md) \in HdrMd
                              /\ Converted(md) \in HdrMd
<1>1. HdrMd = [eth : EthHdr, ipv4 : Ipv4Hdr, tcp : L4Header, udp : L4Header,
               meta : MetaHdr, offset : Nat]
  BY DEF HdrMd, EthHdr, Ipv4Hdr, MetaHdr
<1>2. [valid |-> TRUE, etherType |-> load_half(f.etherType)] \in EthHdr
  BY HalfBytes DEF EthHdr, Frame
<1>3. [valid |-> TRUE, src |-> f.src, dst |-> f.dst, proto |-> f.proto] \in Ipv4Hdr
  BY DEF Ipv4Hdr, Frame
<1>4. Ports4(f) \in L4Header
  BY HalfBytes DEF Ports4, Frame, L4Header
<1>5. ZeroHdrMd \in HdrMd
  BY DEF ZeroHdrMd, ZeroL4, HdrMd, L4Header, U16, Byte
<1>6. ASSUME NEW md \in HdrMd
      PROVE  /\ WithEth(md, f) \in HdrMd
             /\ WithIpv4(md, f) \in HdrMd
             /\ WithTcp(md, f) \in HdrMd
             /\ WithUdp(md, f) \in HdrMd
  BY <1>1, <1>2, <1>3, <1>4 DEF WithEth, WithIpv4, WithTcp, WithUdp, EthLen, Ipv4Len, L4Len
<1>7. ASSUME NEW md \in HdrMd
      PROVE  SetMeta(md) \in HdrMd
  <2>1. \A h \in L4Header : [srcPort |-> h.srcPort, dstPort |-> h.dstPort] \in MetaHdr
    BY DEF L4Header, MetaHdr
  <2>2. \A h \in L4Header : WithMeta(md, h) \in HdrMd
    BY <1>1, <2>1 DEF WithMeta
  <2> QED
    BY <1>1, <2>2 DEF SetMeta
<1>8. ASSUME NEW md \in HdrMd
      PROVE  Converted(md) \in HdrMd
  <2>1. \A h \in L4Header : ConvertedL4(h) \in L4Header
    BY HtonsBytes DEF L4Header, ConvertedL4
  <2>2. [valid |-> md.eth.valid, etherType |-> htons(md.eth.etherType)] \in EthHdr
    BY <1>1, HtonsBytes DEF EthHdr
  <2> QED
    BY <1>1, <2>1, <2>2 DEF Converted
<1> QED
  BY <1>5, <1>6, <1>7, <1>8

\* The map after the Ethernet header, the IPv4 header, the ports.
EthMd(f)  == WithEth(ZeroHdrMd, f)
Ipv4Md(f) == WithIpv4(EthMd(f), f)
TcpMd(f)  == WithTcp(Ipv4Md(f), f)
UdpMd(f)  == WithUdp(Ipv4Md(f), f)

(***************************************************************************)
(* The outcomes of run_parser, by the packet's length, type and protocol.  *)
(* They do not depend on what the map held before.                         *)
(***************************************************************************)
LEMMA ParserCases ==
  ASSUME NEW f \in Frame, NEW md
  PROVE  /\ f.len < 14 => run_parser(f, md) = Accept(ZeroHdrMd)
         /\ f.len >= 14 /\ f.etherType # <<8, 0>> => run_parser(f, md).ret = TC_ACT_SHOT
         /\ f.len >= 14 /\ f.etherType # <<8, 0>> => run_parser(f, md).md = EthMd(f)
         /\ IsIpv4(f) /\ f.len < 34 => run_parser(f, md) = Accept(EthMd(f))
         /\ IsIpv4(f) /\ f.len >= 34 /\ f.proto \notin {TCP_PROTO, UDP_PROTO} =>
              run_parser(f, md).ret = TC_ACT_SHOT /\ run_parser(f, md).md = Ipv4Md(f)
         /\ IsIpv4(f) /\ f.len >= 34 /\ f.len < 38 /\ f.proto \in {TCP_PROTO, UDP_PROTO} =>
              run_parser(f, md) = Accept(Ipv4Md(f))
         /\ IsIpv4(f) /\ f.len >= 38 /\ f.proto = TCP_PROTO => run_parser(f, md) = Accept(TcpMd(f))
         /\ IsIpv4(f) /\ f.len >= 38 /\ f.proto = UDP_PROTO => run_parser(f, md) = Accept(UdpMd(f))
<1>1. f.len \in Nat /\ f.etherType \in Half
  BY DEF Frame
<1>2. (load_half(f.etherType) = TYPE_IPV4) <=> (f.etherType = <<8, 0>>)
  BY <1>1, EtherTypeBytes
<1>3. ZeroHdrMd.offset = 0 /\ EthMd(f).offset = 14 /\ Ipv4Md(f).offset = 34
  BY DEF ZeroHdrMd, EthMd, Ipv4Md, WithEth, WithIpv4, EthLen, Ipv4Len
<1>4. /\ TooShort(f, ZeroHdrMd, EthLen) <=> f.len < 14
      /\ TooShort(f, EthMd(f), Ipv4Len) <=> f.len < 34
      /\ TooShort(f, Ipv4Md(f), L4Len) <=> f.len < 38
  BY <1>1, <1>3 DEF TooShort, EthLen, Ipv4Len, L4Len
<1>5. \A m : /\ Reject(m, PacketTooShort) = Accept(m)
             /\ Reject(m, NoError) = [ret |-> TC_ACT_SHOT, md |-> m]
  BY DEF Reject, NoError, PacketTooShort
<1>6. TCP_PROTO # UDP_PROTO
  BY DEF TCP_PROTO, UDP_PROTO
<1>7. /\ parse_tcp(f, Ipv4Md(f)) = IF f.len < 38 THEN Accept(Ipv4Md(f)) ELSE Accept(TcpMd(f))
      /\ parse_udp(f, Ipv4Md(f)) = IF f.len < 38 THEN Accept(Ipv4Md(f)) ELSE Accept(UdpMd(f))
  BY <1>4, <1>5 DEF parse_tcp, parse_udp, TcpMd, UdpMd
<1>8. parse_ipv4(f, EthMd(f)) =
        CASE f.len < 34 -> Accept(EthMd(f))
          [] ~(f.len < 34) /\ f.proto = TCP_PROTO -> parse_tcp(f, Ipv4Md(f))
          [] ~(f.len < 34) /\ f.proto = UDP_PROTO -> parse_udp(f, Ipv4Md(f))
          [] OTHER -> [ret |-> TC_ACT_SHOT, md |-> Ipv4Md(f)]
  BY <1>4, <1>5, <1>6 DEF parse_ipv4, Ipv4Md
<1>9. run_parser(f, md) =
        CASE f.len < 14 -> Accept(ZeroHdrMd)
          [] ~(f.len < 14) /\ f.etherType = <<8, 0>> -> parse_ipv4(f, EthMd(f))
          [] OTHER -> [ret |-> TC_ACT_SHOT, md |-> EthMd(f)]
  BY <1>2, <1>4, <1>5 DEF run_parser, memset, start, EthMd
<1>10. IsIpv4(f) => ~(f.len < 14) /\ f.etherType = <<8, 0>>
  BY <1>1 DEF IsIpv4, EthLen
<1>11. /\ f.len >= 14 => ~(f.len < 14)
       /\ f.len >= 34 => ~(f.len < 34)
       /\ f.len >= 38 => ~(f.len < 34) /\ ~(f.len < 38)
  BY <1>1
<1> QED
  BY <1>6, <1>7, <1>8, <1>9, <1>10, <1>11

(***************************************************************************)
(* The parser drops exactly the packets RejectedByParser names, and what   *)
(* it computes does not depend on what the map held before.                *)
(***************************************************************************)
LEMMA ParserResult ==
  ASSUME NEW f \in Frame, NEW md
  PROVE  /\ run_parser(f, md).md = Parsed(f)
         /\ Parsed(f) \in HdrMd
         /\ RejectedByParser(f) => run_parser(f, md).ret = TC_ACT_SHOT
         /\ ~RejectedByParser(f) => run_parser(f, md).ret = Continue
<1>1. f.len \in Nat
  BY DEF Frame
<1>2. /\ \A m : Accept(m).ret = Continue /\ Accept(m).md = m
      /\ TC_ACT_SHOT # Continue
  BY DEF Accept, TC_ACT_SHOT, Continue
<1>3. ZeroHdrMd \in HdrMd /\ EthMd(f) \in HdrMd /\ Ipv4Md(f) \in HdrMd
      /\ TcpMd(f) \in HdrMd /\ UdpMd(f) \in HdrMd
  BY MdTypes DEF EthMd, Ipv4Md, TcpMd, UdpMd
<1>4. RejectedByParser(f) <=>
        \/ f.len >= 14 /\ f.etherType # <<8, 0>>
        \/ IsIpv4(f) /\ f.len >= 34 /\ f.proto \notin {TCP_PROTO, UDP_PROTO}
  BY <1>1 DEF RejectedByParser, IsIpv4, EthLen, Ipv4Len
<1>5. IsIpv4(f) <=> f.len >= 14 /\ f.etherType = <<8, 0>>
  BY DEF IsIpv4, EthLen
<1>6. CASE f.len < 14
  BY <1>1, <1>2, <1>3, <1>4, <1>5, <1>6, ParserCases DEF Parsed
<1>7. CASE f.len >= 14 /\ f.etherType # <<8, 0>>
  BY <1>1, <1>2, <1>3, <1>4, <1>7, ParserCases DEF Parsed
<1>8. CASE IsIpv4(f) /\ f.len < 34
  BY <1>1, <1>2, <1>3, <1>4, <1>5, <1>8, ParserCases DEF Parsed
<1>9. CASE IsIpv4(f) /\ f.len >= 34 /\ f.proto \notin {TCP_PROTO, UDP_PROTO}
  BY <1>2, <1>3, <1>4, <1>9, ParserCases DEF Parsed
<1>10. CASE IsIpv4(f) /\ f.len >= 34 /\ f.len < 38 /\ f.proto \in {TCP_PROTO, UDP_PROTO}
  BY <1>2, <1>3, <1>4, <1>5, <1>10, ParserCases DEF Parsed
<1>11. CASE IsIpv4(f) /\ f.len >= 38 /\ f.proto \in {TCP_PROTO, UDP_PROTO}
  BY <1>2, <1>3, <1>4, <1>5, <1>11, ParserCases DEF Parsed
<1> QED
  BY <1>1, <1>5, <1>6, <1>7, <1>8, <1>9, <1>10, <1>11

(***************************************************************************)
(* A packet that is accepted leaves one of five maps behind.               *)
(***************************************************************************)
LEMMA AcceptedCases ==
  ASSUME NEW f \in Frame, ~RejectedByParser(f)
  PROVE  \/ f.len < 14 /\ Parsed(f) = ZeroHdrMd
         \/ IsIpv4(f) /\ f.len >= 14 /\ f.len < 34 /\ Parsed(f) = EthMd(f)
         \/ IsIpv4(f) /\ f.len >= 34 /\ f.len < 38 /\ Parsed(f) = Ipv4Md(f)
         \/ IsIpv4(f) /\ f.len >= 38 /\ Parsed(f) = TcpMd(f)
         \/ IsIpv4(f) /\ f.len >= 38 /\ Parsed(f) = UdpMd(f)
<1>1. f.len \in Nat
  BY DEF Frame
<1>2. \A m : Accept(m).md = m
  BY DEF Accept
<1>3. /\ IsIpv4(f) <=> f.len >= 14 /\ f.etherType = <<8, 0>>
      /\ ~(f.len >= 14 /\ f.etherType # <<8, 0>>)
      /\ ~(IsIpv4(f) /\ f.len >= 34 /\ f.proto \notin {TCP_PROTO, UDP_PROTO})
  BY <1>1 DEF RejectedByParser, IsIpv4, EthLen, Ipv4Len
<1>4. CASE f.len < 14
  BY <1>2, <1>4, ParserCases DEF Parsed
<1>5. CASE IsIpv4(f) /\ f.len < 34
  BY <1>2, <1>3, <1>5, ParserCases DEF Parsed
<1>6. CASE IsIpv4(f) /\ f.len >= 34 /\ f.len < 38
  BY <1>2, <1>3, <1>6, ParserCases DEF Parsed
<1>7. CASE IsIpv4(f) /\ f.len >= 38
  <2>1. f.proto \in {TCP_PROTO, UDP_PROTO}
    BY <1>1, <1>3, <1>7
  <2> QED
    BY <1>2, <1>7, <2>1, ParserCases DEF Parsed
<1> QED
  BY <1>1, <1>3, <1>4, <1>5, <1>6, <1>7

(***************************************************************************)
(* The fields of the five maps.                                            *)
(***************************************************************************)
LEMMA MdFields ==
  ASSUME NEW f \in Frame
  PROVE  /\ ZeroHdrMd.eth.valid = FALSE /\ EthMd(f).eth.valid = TRUE
         /\ EthMd(f).eth.etherType = load_half(f.etherType)
            /\ Ipv4Md(f).eth = EthMd(f).eth /\ TcpMd(f).eth = EthMd(f).eth /\ UdpMd(f).eth = EthMd(f).eth
         /\ ZeroHdrMd.ipv4 = [valid |-> FALSE, src |-> 0, dst |-> 0, proto |-> 0]
            /\ EthMd(f).ipv4 = [valid |-> FALSE, src |-> 0, dst |-> 0, proto |-> 0]
         /\ Ipv4Md(f).ipv4 = [valid |-> TRUE, src |-> f.src, dst |-> f.dst, proto |-> f.proto]
            /\ TcpMd(f).ipv4 = Ipv4Md(f).ipv4 /\ UdpMd(f).ipv4 = Ipv4Md(f).ipv4
         /\ ZeroHdrMd.tcp = ZeroL4 /\ EthMd(f).tcp = ZeroL4 /\ Ipv4Md(f).tcp = ZeroL4
            /\ UdpMd(f).tcp = ZeroL4 /\ TcpMd(f).tcp = Ports4(f)
         /\ ZeroHdrMd.udp = ZeroL4 /\ EthMd(f).udp = ZeroL4 /\ Ipv4Md(f).udp = ZeroL4
            /\ TcpMd(f).udp = ZeroL4 /\ UdpMd(f).udp = Ports4(f)
         /\ ZeroHdrMd.meta = [srcPort |-> 0, dstPort |-> 0] /\ EthMd(f).meta = ZeroHdrMd.meta
            /\ Ipv4Md(f).meta = ZeroHdrMd.meta
         /\ ZeroHdrMd.offset = 0 /\ EthMd(f).offset = 14 /\ Ipv4Md(f).offset = 34
            /\ TcpMd(f).offset = 38 /\ UdpMd(f).offset = 38
<1>1. /\ ZeroHdrMd.eth = [valid |-> FALSE, etherType |-> 0]
      /\ ZeroHdrMd.ipv4 = [valid |-> FALSE, src |-> 0, dst |-> 0, proto |-> 0]
      /\ ZeroHdrMd.tcp = ZeroL4 /\ ZeroHdrMd.udp = ZeroL4
      /\ ZeroHdrMd.meta = [srcPort |-> 0, dstPort |-> 0]
      /\ ZeroHdrMd.offset = 0
  BY DEF ZeroHdrMd
<1>2. /\ EthMd(f).eth = [valid |-> TRUE, etherType |-> load_half(f.etherType)]
      /\ EthMd(f).ipv4 = ZeroHdrMd.ipv4
      /\ EthMd(f).tcp = ZeroL4 /\ EthMd(f).udp = ZeroL4
      /\ EthMd(f).meta = ZeroHdrMd.meta
      /\ EthMd(f).offset = 14
  BY <1>1 DEF EthMd, WithEth, EthLen
<1>3. /\ Ipv4Md(f).eth = EthMd(f).eth
      /\ Ipv4Md(f).ipv4 = [valid |-> TRUE, src |-> f.src, dst |-> f.dst, proto |-> f.proto]
      /\ Ipv4Md(f).tcp = ZeroL4 /\ Ipv4Md(f).udp = ZeroL4
      /\ Ipv4Md(f).meta = ZeroHdrMd.meta
      /\ Ipv4Md(f).offset = 34
  BY <1>2 DEF Ipv4Md, WithIpv4, Ipv4Len
<1>4. /\ TcpMd(f).eth = EthMd(f).eth /\ TcpMd(f).ipv4 = Ipv4Md(f).ipv4
      /\ TcpMd(f).tcp = Ports4(f) /\ TcpMd(f).udp = ZeroL4
      /\ TcpMd(f).offset = 38
  BY <1>3 DEF TcpMd, WithTcp, L4Len
<1>5. /\ UdpMd(f).eth = EthMd(f).eth /\ UdpMd(f).ipv4 = Ipv4Md(f).ipv4
      /\ UdpMd(f).udp = Ports4(f) /\ UdpMd(f).tcp = ZeroL4
      /\ UdpMd(f).offset = 38
  BY <1>3 DEF UdpMd, WithUdp, L4Len
<1> QED
  BY <1>1, <1>2, <1>3, <1>4, <1>5

-----------------------------------------------------------------------------
(* The main block *)

(***************************************************************************)
(* Setting the metadata changes nothing else in the map, and setting it    *)
(* again changes nothing.                                                  *)
(***************************************************************************)
LEMMA SetMetaFields ==
  ASSUME NEW md \in HdrMd
  PROVE  /\ SetMeta(md).eth = md.eth /\ SetMeta(md).ipv4 = md.ipv4
         /\ SetMeta(md).tcp = md.tcp /\ SetMeta(md).udp = md.udp
         /\ SetMeta(md).offset = md.offset
         /\ \A p : TableKey(p, SetMeta(SetMeta(md))) = TableKey(p, SetMeta(md))
<1>1. \A m, h : /\ WithMeta(m, h).eth = m.eth /\ WithMeta(m, h).ipv4 = m.ipv4
                /\ WithMeta(m, h).tcp = m.tcp /\ WithMeta(m, h).udp = m.udp
                /\ WithMeta(m, h).offset = m.offset
                /\ WithMeta(m, h).meta = [srcPort |-> h.srcPort, dstPort |-> h.dstPort]
  BY DEF WithMeta
<1>2. \A m : /\ m.tcp.valid = TRUE => SetMeta(m) = WithMeta(m, m.tcp)
             /\ m.tcp.valid = FALSE /\ m.udp.valid = TRUE => SetMeta(m) = WithMeta(m, m.udp)
             /\ m.tcp.valid = FALSE /\ m.udp.valid = FALSE => SetMeta(m) = m
  BY DEF SetMeta
<1>3. md.tcp.valid \in BOOLEAN /\ md.udp.valid \in BOOLEAN
  BY DEF HdrMd, L4Header
<1>4. \A m, n, p : m.ipv4 = n.ipv4 /\ m.meta = n.meta => TableKey(p, m) = TableKey(p, n)
  BY Zenon DEF TableKey
<1>5. CASE md.tcp.valid = TRUE
  <2>1. SetMeta(md) = WithMeta(md, md.tcp)
    BY <1>2, <1>5
  <2>2. /\ SetMeta(md).eth = md.eth /\ SetMeta(md).ipv4 = md.ipv4
        /\ SetMeta(md).tcp = md.tcp /\ SetMeta(md).udp = md.udp
        /\ SetMeta(md).offset = md.offset
        /\ SetMeta(md).meta = [srcPort |-> md.tcp.srcPort, dstPort |-> md.tcp.dstPort]
    BY <1>1, <2>1
  <2>3. SetMeta(SetMeta(md)) = WithMeta(SetMeta(md), SetMeta(md).tcp)
    BY <1>2, <1>5, <2>2
  <2>4. /\ SetMeta(SetMeta(md)).ipv4 = SetMeta(md).ipv4
        /\ SetMeta(SetMeta(md)).meta = SetMeta(md).meta
    BY <1>1, <2>2, <2>3
  <2> QED
    BY <1>4, <2>2, <2>4
<1>6. CASE md.tcp.valid = FALSE /\ md.udp.valid = TRUE
  <2>1. SetMeta(md) = WithMeta(md, md.udp)
    BY <1>2, <1>6
  <2>2. /\ SetMeta(md).eth = md.eth /\ SetMeta(md).ipv4 = md.ipv4
        /\ SetMeta(md).tcp = md.tcp /\ SetMeta(md).udp = md.udp
        /\ SetMeta(md).offset = md.offset
        /\ SetMeta(md).meta = [srcPort |-> md.udp.srcPort, dstPort |-> md.udp.dstPort]
    BY <1>1, <2>1
  <2>3. SetMeta(SetMeta(md)) = WithMeta(SetMeta(md), SetMeta(md).udp)
    BY <1>2, <1>6, <2>2
  <2>4. /\ SetMeta(SetMeta(md)).ipv4 = SetMeta(md).ipv4
        /\ SetMeta(SetMeta(md)).meta = SetMeta(md).meta
    BY <1>1, <2>2, <2>3
  <2> QED
    BY <1>4, <2>2, <2>4
<1>7. CASE md.tcp.valid = FALSE /\ md.udp.valid = FALSE
  <2>1. SetMeta(md) = md
    BY <1>2, <1>7
  <2> QED
    BY <2>1
<1> QED
  BY <1>3, <1>5, <1>6, <1>7

(***************************************************************************)
(* The ports of the key have the byte order of the packet.                 *)
(***************************************************************************)
LEMMA PortBytes ==
  ASSUME NEW b \in Half
  PROVE  htons(load_half(b)) = b[1] + 256 * b[2]
<1>1. htons(load_half(b)) = (load_half(b) % 256) * 256 + (load_half(b) \div 256)
  BY DEF htons
<1>2. load_half(b) % 256 = b[2] /\ load_half(b) \div 256 = b[1]
  BY HalfBytes
<1>3. b[1] \in Int /\ b[2] \in Int
  BY HalfBytes DEF Byte
<1> QED
  BY <1>1, <1>2, <1>3

(***************************************************************************)
(* The key made of the parsed headers is the flow of the packet.           *)
(***************************************************************************)
LEMMA ParsedKey ==
  ASSUME NEW f \in Frame, ~RejectedByParser(f), NEW p
  PROVE  TableKey(p, SetMeta(Parsed(f))) = FlowOf(p, f)
<1>1. f.len \in Nat /\ f.sport \in Half /\ f.dport \in Half
  BY DEF Frame
<1>2. /\ Ports4(f).valid = TRUE
      /\ Ports4(f).srcPort = load_half(f.sport) /\ Ports4(f).dstPort = load_half(f.dport)
      /\ ZeroL4.valid = FALSE
  BY DEF Ports4, ZeroL4
<1>3. /\ htons(load_half(f.sport)) = f.sport[1] + 256 * f.sport[2]
      /\ htons(load_half(f.dport)) = f.dport[1] + 256 * f.dport[2]
      /\ htons(0) = 0
  <2>1. htons(0) = 0
    BY DEF htons
  <2> QED
    BY <1>1, <2>1, PortBytes
<1> DEFINE
      K(ip, x, y) == [port |-> p, src |-> ip.src, dst |-> ip.dst, proto |-> ip.proto,
                      sport |-> x, dport |-> y]
      NoIp == [valid |-> FALSE, src |-> 0, dst |-> 0, proto |-> 0]
      Ip == [valid |-> TRUE, src |-> f.src, dst |-> f.dst, proto |-> f.proto]
      Sp == f.sport[1] + 256 * f.sport[2]
      Dp == f.dport[1] + 256 * f.dport[2]
<1>4. \A m : m.tcp = ZeroL4 /\ m.udp = ZeroL4 /\ m.meta = [srcPort |-> 0, dstPort |-> 0]
             => TableKey(p, SetMeta(m)) = K(m.ipv4, 0, 0)
  <2> SUFFICES ASSUME NEW m, m.tcp = ZeroL4, m.udp = ZeroL4, m.meta = [srcPort |-> 0, dstPort |-> 0]
               PROVE  TableKey(p, SetMeta(m)) = K(m.ipv4, 0, 0)
    OBVIOUS
  <2>1. SetMeta(m) = m
    BY <1>2 DEF SetMeta
  <2> QED
    BY <1>3, <2>1 DEF TableKey
<1>5. \A m : m.tcp = Ports4(f) \/ (m.tcp = ZeroL4 /\ m.udp = Ports4(f))
             => TableKey(p, SetMeta(m)) = K(m.ipv4, Sp, Dp)
  <2> SUFFICES ASSUME NEW m, m.tcp = Ports4(f) \/ (m.tcp = ZeroL4 /\ m.udp = Ports4(f))
               PROVE  TableKey(p, SetMeta(m)) = K(m.ipv4, Sp, Dp)
    OBVIOUS
  <2>1. SetMeta(m) = WithMeta(m, Ports4(f))
    BY <1>2 DEF SetMeta
  <2>2. WithMeta(m, Ports4(f)).meta.srcPort = load_half(f.sport)
        /\ WithMeta(m, Ports4(f)).meta.dstPort = load_half(f.dport)
        /\ WithMeta(m, Ports4(f)).ipv4 = m.ipv4
    BY <1>2 DEF WithMeta
  <2> QED
    BY <1>3, <2>1, <2>2 DEF TableKey
<1>6. /\ f.len < 34 => FlowOf(p, f) = K(NoIp, 0, 0)
      /\ IsIpv4(f) /\ f.len >= 34 /\ f.len < 38 => FlowOf(p, f) = K(Ip, 0, 0)
      /\ IsIpv4(f) /\ f.len >= 38 => FlowOf(p, f) = K(Ip, Sp, Dp)
  BY <1>1 DEF FlowOf, EthLen, Ipv4Len, L4Len
<1> HIDE DEF K, NoIp, Ip, Sp, Dp
<1>7. CASE f.len < 34 /\ Parsed(f) \in {ZeroHdrMd, EthMd(f)}
  <2>1. /\ Parsed(f).tcp = ZeroL4 /\ Parsed(f).udp = ZeroL4
        /\ Parsed(f).meta = [srcPort |-> 0, dstPort |-> 0]
        /\ Parsed(f).ipv4 = NoIp
    BY <1>7, MdFields, ZenonT(60) DEF NoIp
  <2> QED
    BY <1>4, <1>6, <1>7, <2>1
<1>8. CASE IsIpv4(f) /\ f.len >= 34 /\ f.len < 38 /\ Parsed(f) = Ipv4Md(f)
  <2>1. /\ Parsed(f).tcp = ZeroL4 /\ Parsed(f).udp = ZeroL4
        /\ Parsed(f).meta = [srcPort |-> 0, dstPort |-> 0]
        /\ Parsed(f).ipv4 = Ip
    BY <1>8, MdFields, ZenonT(60) DEF Ip
  <2> QED
    BY <1>4, <1>6, <1>8, <2>1
<1>9. CASE IsIpv4(f) /\ f.len >= 38 /\ Parsed(f) \in {TcpMd(f), UdpMd(f)}
  <2>1. /\ Parsed(f).tcp = Ports4(f) \/ (Parsed(f).tcp = ZeroL4 /\ Parsed(f).udp = Ports4(f))
        /\ Parsed(f).ipv4 = Ip
    BY <1>9, MdFields, ZenonT(60) DEF Ip
  <2> QED
    BY <1>5, <1>6, <1>9, <2>1
<1> QED
  BY AcceptedCases, <1>1, <1>7, <1>8, <1>9

(***************************************************************************)
(* The valid headers are as long as the headers parsed, and the packet is  *)
(* at least that long.                                                     *)
(***************************************************************************)
LEMMA ParsedLength ==
  ASSUME NEW f \in Frame, ~RejectedByParser(f)
  PROVE  /\ OutHeaderLength(Parsed(f)) = Parsed(f).offset
         /\ Parsed(f).offset <= f.len
         /\ OutHeaderLength(SetMeta(Parsed(f))) = SetMeta(Parsed(f)).offset
         /\ SetMeta(Parsed(f)).offset <= f.len
<1>1. f.len \in Nat
  BY DEF Frame
<1>2. OutHeaderLength(Parsed(f)) = Parsed(f).offset /\ Parsed(f).offset <= f.len
  <2>1. CASE f.len < 14 /\ Parsed(f) = ZeroHdrMd
    <3>1. /\ Parsed(f).eth.valid = FALSE /\ Parsed(f).ipv4.valid = FALSE
          /\ Parsed(f).tcp.valid = FALSE /\ Parsed(f).udp.valid = FALSE
          /\ Parsed(f).offset = 0
      BY <2>1 DEF ZeroHdrMd, ZeroL4
    <3>2. OutHeaderLength(Parsed(f)) = 0 + 0 + 0 + 0
      BY <3>1, Zenon DEF OutHeaderLength, EthLen, Ipv4Len, L4Len
    <3> QED
      BY <1>1, <3>1, <3>2
  <2>2. CASE f.len >= 14 /\ Parsed(f) = EthMd(f)
    <3>1. /\ Parsed(f).eth.valid = TRUE /\ Parsed(f).ipv4.valid = FALSE
          /\ Parsed(f).tcp.valid = FALSE /\ Parsed(f).udp.valid = FALSE
          /\ Parsed(f).offset = 14
      BY <2>2 DEF EthMd, WithEth, EthLen, ZeroHdrMd, ZeroL4
    <3>2. OutHeaderLength(Parsed(f)) = 14 + 0 + 0 + 0
      BY <3>1, Zenon DEF OutHeaderLength, EthLen, Ipv4Len, L4Len
    <3> QED
      BY <1>1, <2>2, <3>1, <3>2
  <2>3. CASE f.len >= 34 /\ Parsed(f) = Ipv4Md(f)
    <3>1. /\ Parsed(f).eth.valid = TRUE /\ Parsed(f).ipv4.valid = TRUE
          /\ Parsed(f).tcp.valid = FALSE /\ Parsed(f).udp.valid = FALSE
          /\ Parsed(f).offset = 34
      BY <2>3 DEF Ipv4Md, EthMd, WithIpv4, WithEth, EthLen, Ipv4Len, ZeroHdrMd, ZeroL4
    <3>2. OutHeaderLength(Parsed(f)) = 14 + 20 + 0 + 0
      BY <3>1, Zenon DEF OutHeaderLength, EthLen, Ipv4Len, L4Len
    <3> QED
      BY <1>1, <2>3, <3>1, <3>2
  <2>4. CASE f.len >= 38 /\ Parsed(f) = TcpMd(f)
    <3>1. /\ Parsed(f).eth.valid = TRUE /\ Parsed(f).ipv4.valid = TRUE
          /\ Parsed(f).tcp.valid = TRUE /\ Parsed(f).udp.valid = FALSE
          /\ Parsed(f).offset = 38
      BY <2>4 DEF TcpMd, Ipv4Md, EthMd, WithTcp, WithIpv4, WithEth, Ports4,
                  EthLen, Ipv4Len, L4Len, ZeroHdrMd, ZeroL4
    <3>2. OutHeaderLength(Parsed(f)) = 14 + 20 + 4 + 0
      BY <3>1, Zenon DEF OutHeaderLength, EthLen, Ipv4Len, L4Len
    <3> QED
      BY <1>1, <2>4, <3>1, <3>2
  <2>5. CASE f.len >= 38 /\ Parsed(f) = UdpMd(f)
    <3>1. /\ Parsed(f).eth.valid = TRUE /\ Parsed(f).ipv4.valid = TRUE
          /\ Parsed(f).tcp.valid = FALSE /\ Parsed(f).udp.valid = TRUE
          /\ Parsed(f).offset = 38
      BY <2>5 DEF UdpMd, Ipv4Md, EthMd, WithUdp, WithIpv4, WithEth, Ports4,
                  EthLen, Ipv4Len, L4Len, ZeroHdrMd, ZeroL4
    <3>2. OutHeaderLength(Parsed(f)) = 14 + 20 + 0 + 4
      BY <3>1, Zenon DEF OutHeaderLength, EthLen, Ipv4Len, L4Len
    <3> QED
      BY <1>1, <2>5, <3>1, <3>2
  <2> QED
    BY AcceptedCases, <2>1, <2>2, <2>3, <2>4, <2>5
<1>3. Parsed(f) \in HdrMd
  BY ParserResult
<1>4. OutHeaderLength(SetMeta(Parsed(f))) = OutHeaderLength(Parsed(f))
  BY <1>3, SetMetaFields DEF OutHeaderLength
<1> QED
  BY <1>2, <1>3, <1>4, SetMetaFields

(***************************************************************************)
(* The metadata of an XDP program replaces the etherType only.             *)
(***************************************************************************)
LEMMA Restored ==
  ASSUME NEW f \in Frame
  PROVE  \E e \in Half :
           /\ f.md = NoMd => e = f.etherType
           /\ RestoreEtherType(f) =
                [len |-> f.len, md |-> f.md, etherType |-> e, src |-> f.src, dst |-> f.dst,
                 proto |-> f.proto, sport |-> f.sport, dport |-> f.dport]
<1>1. f \in [len : Nat, md : Half \cup {NoMd}, etherType : Half, src : Nat, dst : Nat,
             proto : Byte, sport : Half, dport : Half]
  BY DEF Frame
<1>2. CASE f.md = NoMd
  <2>1. RestoreEtherType(f) = f
    BY <1>2 DEF RestoreEtherType
  <2>2. f.etherType \in Half
    BY <1>1
  <2> WITNESS f.etherType \in Half
  <2> QED
    BY <1>1, <2>1
<1>3. CASE f.md # NoMd
  <2>1. RestoreEtherType(f) = [f EXCEPT !.etherType = f.md]
    BY <1>3 DEF RestoreEtherType
  <2>2. f.md \in Half
    BY <1>1, <1>3
  <2> WITNESS f.md \in Half
  <2> QED
    BY <1>1, <1>3, <2>1
<1> QED
  BY <1>2, <1>3

(***************************************************************************)
(* Writing the headers back restores the packet as it was received, also   *)
(* where the metadata has overwritten its etherType.                       *)
(***************************************************************************)
LEMMA WriteBack ==
  ASSUME NEW f \in Frame, ~RejectedByParser(f), ~MetadataFails(f)
  PROVE  /\ RestoreEtherType(f) \in Frame
         /\ RestoreEtherType(f).len = f.len
         /\ WriteHeaders(RestoreEtherType(f), SetMeta(Parsed(f))) = f
<1>1. f \in [len : Nat, md : Half \cup {NoMd}, etherType : Half, src : Nat, dst : Nat,
             proto : Byte, sport : Half, dport : Half]
  BY DEF Frame
<1> PICK e \in Half :
           /\ f.md = NoMd => e = f.etherType
           /\ RestoreEtherType(f) =
                [len |-> f.len, md |-> f.md, etherType |-> e, src |-> f.src, dst |-> f.dst,
                 proto |-> f.proto, sport |-> f.sport, dport |-> f.dport]
  BY Restored
<1> DEFINE g == RestoreEtherType(f)
           m == SetMeta(Parsed(f))
<1>2. /\ g.len = f.len /\ g.md = f.md /\ g.etherType = e /\ g.src = f.src /\ g.dst = f.dst
      /\ g.proto = f.proto /\ g.sport = f.sport /\ g.dport = f.dport
  OBVIOUS
<1>3. g \in Frame
  BY <1>1 DEF Frame
<1>4. /\ emit_half(load_half(f.etherType)) = f.etherType
      /\ emit_half(load_half(f.sport)) = f.sport
      /\ emit_half(load_half(f.dport)) = f.dport
  BY <1>1, FieldRoundTrip
<1>5. m.eth = Parsed(f).eth /\ m.ipv4 = Parsed(f).ipv4 /\ m.tcp = Parsed(f).tcp /\ m.udp = Parsed(f).udp
  BY ParserResult, SetMetaFields
<1>6. Ports4(f).valid = TRUE /\ Ports4(f).srcPort = load_half(f.sport)
      /\ Ports4(f).dstPort = load_half(f.dport) /\ ZeroL4.valid = FALSE
  BY DEF Ports4, ZeroL4
<1>7. f = [len |-> f.len, md |-> f.md, etherType |-> f.etherType, src |-> f.src, dst |-> f.dst,
           proto |-> f.proto, sport |-> f.sport, dport |-> f.dport]
  BY <1>1
<1>8. \/ f.etherType = e /\ m.eth.valid = FALSE
      \/ m.eth.valid = TRUE /\ m.eth.etherType = load_half(f.etherType)
  <2>1. CASE f.len < 14 /\ Parsed(f) = ZeroHdrMd
    BY <1>5, <2>1 DEF MetadataFails, ZeroHdrMd
  <2>2. CASE Parsed(f) \in {EthMd(f), Ipv4Md(f), TcpMd(f), UdpMd(f)}
    <3>1. m.eth = EthMd(f).eth
      BY <1>5, <2>2, MdFields
    <3> HIDE DEF m
    <3> QED
      BY <3>1, MdFields
  <2> QED
    BY AcceptedCases, <2>1, <2>2
<1>9. \/ m.ipv4.valid = FALSE
      \/ m.ipv4.valid = TRUE /\ m.ipv4.src = f.src /\ m.ipv4.dst = f.dst /\ m.ipv4.proto = f.proto
  <2>1. CASE Parsed(f) \in {ZeroHdrMd, EthMd(f)}
    <3>1. m.ipv4 = [valid |-> FALSE, src |-> 0, dst |-> 0, proto |-> 0]
      BY <1>5, <2>1, MdFields
    <3> QED
      BY <3>1
  <2>2. CASE Parsed(f) \in {Ipv4Md(f), TcpMd(f), UdpMd(f)}
    <3>1. m.ipv4 = [valid |-> TRUE, src |-> f.src, dst |-> f.dst, proto |-> f.proto]
      BY <1>5, <2>2, MdFields
    <3> QED
      BY <3>1
  <2> QED
    BY AcceptedCases, <2>1, <2>2
<1>10. \/ m.tcp = ZeroL4 /\ m.udp = ZeroL4
       \/ m.tcp = Ports4(f) /\ m.udp = ZeroL4
       \/ m.tcp = ZeroL4 /\ m.udp = Ports4(f)
  BY <1>5, AcceptedCases, MdFields, ZenonT(60)
<1>11. /\ (IF m.eth.valid THEN emit_half(m.eth.etherType) ELSE g.etherType) = f.etherType
       /\ (IF m.ipv4.valid THEN m.ipv4.src ELSE g.src) = f.src
       /\ (IF m.ipv4.valid THEN m.ipv4.dst ELSE g.dst) = f.dst
       /\ (IF m.ipv4.valid THEN m.ipv4.proto ELSE g.proto) = f.proto
  <2> HIDE DEF g, m
  <2> QED
    BY <1>2, <1>4, <1>8, <1>9
<1>12. LET l4 == IF m.udp.valid THEN m.udp ELSE m.tcp
       IN  /\ (IF l4.valid THEN emit_half(l4.srcPort) ELSE g.sport) = f.sport
           /\ (IF l4.valid THEN emit_half(l4.dstPort) ELSE g.dport) = f.dport
  <2> HIDE DEF g, m
  <2> QED
    BY <1>2, <1>4, <1>6, <1>10
<1>13. WriteHeaders(g, m) = f
  <2> HIDE DEF g, m
  <2> QED
    BY <1>2, <1>7, <1>11, <1>12 DEF WriteHeaders
<1> QED
  BY <1>2, <1>3, <1>13

(***************************************************************************)
(* The deparser neither drops the packet nor changes it.                   *)
(***************************************************************************)
LEMMA DeparseResult ==
  ASSUME NEW f \in Frame, ~RejectedByParser(f), ~MetadataFails(f), NEW b, b.drop = FALSE
  PROVE  Deparse(RestoreEtherType(f), SetMeta(Parsed(f)), b) = {[ret |-> Continue, frame |-> f]}
<1> DEFINE g == RestoreEtherType(f)
           m == SetMeta(Parsed(f))
<1>1. g.len = f.len /\ f.len \in Nat /\ WriteHeaders(g, m) = f
  BY WriteBack DEF Frame
<1>2. OutHeaderLength(m) = m.offset /\ m.offset <= f.len
  BY ParsedLength
<1>3. m.offset \in Nat
  <2>1. m \in HdrMd
    BY ParserResult, MdTypes
  <2> HIDE DEF m
  <2> QED
    BY <2>1 DEF HdrMd
<1> HIDE DEF g, m
<1>4. Emit(g, m) = [ret |-> Continue, frame |-> f]
  BY <1>1, <1>2, <1>3 DEF Emit
<1>5. adjust_room(g, OutHeaderLength(m) - m.offset) = {[ret |-> Continue, frame |-> g]}
  <2>1. OutHeaderLength(m) - m.offset = 0
    BY <1>2, <1>3
  <2> QED
    BY <2>1, Zenon DEF adjust_room
<1>6. TC_ACT_SHOT # Continue
  BY DEF TC_ACT_SHOT, Continue
<1>7. Deparse(g, m, b) = {IF r.ret = TC_ACT_SHOT THEN r ELSE Emit(r.frame, m) :
                            r \in {[ret |-> Continue, frame |-> g]}}
  BY <1>5, Zenon DEF Deparse
<1>8. Deparse(g, m, b) = {Emit(g, m)}
  <2> DEFINE R == [ret |-> Continue, frame |-> g]
  <2>1. R.ret = Continue /\ R.frame = g
    OBVIOUS
  <2> HIDE DEF R
  <2> QED
    BY <1>6, <1>7, <2>1 DEF R
<1> QED
  BY <1>4, <1>8 DEF g, m

(***************************************************************************)
(* So the packet goes back to its ingress as it was received, marked for   *)
(* the kernel.                                                             *)
(***************************************************************************)
LEMMA FinishResult ==
  ASSUME NEW c \in Cpus, NEW f \in Frame, ~RejectedByParser(f), ~MetadataFails(f),
         cb[cur[c]].drop = FALSE, cb[cur[c]].egress_port = 0,
         Finish(c, RestoreEtherType(f), SetMeta(Parsed(f)))
  PROVE  Leave(c, "ingress", f, [drop |-> FALSE, egress_port |-> 0, pass_to_kernel |-> TRUE],
               Converted(SetMeta(Parsed(f))))
<1> DEFINE R == [ret |-> Continue, frame |-> f]
           b == cb[cur[c]]
<1>1. Deparse(RestoreEtherType(f), SetMeta(Parsed(f)), b) = {R}
  BY DeparseResult
<1>2. R.ret = Continue /\ R.frame = f
  OBVIOUS
<1>3. Verdict(Continue, b) = "ingress"
  BY DEF Verdict, TC_ACT_SHOT, Continue
<1>4. Mark("ingress", b) = [drop |-> FALSE, egress_port |-> 0, pass_to_kernel |-> TRUE]
  BY DEF Mark
<1> HIDE DEF R
<1>5. Leave(c, Verdict(R.ret, b), R.frame, Mark(Verdict(R.ret, b), b), Converted(SetMeta(Parsed(f))))
  BY <1>1, Zenon DEF Finish
<1> QED
  BY <1>2, <1>3, <1>4, <1>5, Zenon

-----------------------------------------------------------------------------
(* The table *)

(***************************************************************************)
(* What the operations of the kernel's table keep: its type.               *)
(***************************************************************************)
LEMMA TableOps ==
  ASSUME NEW t, t \in [DOMAIN t -> Entry], NEW k
  PROVE  /\ DOMAIN Remove(t, k) \subseteq DOMAIN t
         /\ Remove(t, k) \in [DOMAIN Remove(t, k) -> Entry]
         /\ \A e : DOMAIN Put(t, k, e) = DOMAIN t \cup {k}
         /\ \A e \in Entry : Put(t, k, e) \in [DOMAIN t \cup {k} -> Entry]
         /\ [age |-> 0, dynamic |-> TRUE] \in Entry
         /\ [age |-> 0, dynamic |-> FALSE] \in Entry
         /\ k \in DOMAIN t => [age |-> 0, dynamic |-> t[k].dynamic] \in Entry
<1>1. 0 \in 0 .. IdleTimeout
  BY IdleTimeoutAssumption
<1>2. /\ [age |-> 0, dynamic |-> TRUE] \in Entry
      /\ [age |-> 0, dynamic |-> FALSE] \in Entry
      /\ k \in DOMAIN t => [age |-> 0, dynamic |-> t[k].dynamic] \in Entry
  BY <1>1 DEF Entry
<1>3. /\ DOMAIN Remove(t, k) = DOMAIN t \ {k}
      /\ Remove(t, k) \in [DOMAIN t \ {k} -> Entry]
  BY DEF Remove
<1>4. ASSUME NEW e
      PROVE  DOMAIN Put(t, k, e) = DOMAIN t \cup {k}
  BY DEF Put
<1>5. ASSUME NEW e \in Entry
      PROVE  Put(t, k, e) \in [DOMAIN t \cup {k} -> Entry]
  BY DEF Put
<1> QED
  BY <1>2, <1>3, <1>4, <1>5

\* The part of TypeOK that concerns the table.
TableOK ==
  /\ DOMAIN table \subseteq Key
  /\ table \in [DOMAIN table -> Entry]

(***************************************************************************)
(* A flow of a packet is a key.                                            *)
(***************************************************************************)
LEMMA FlowIsKey ==
  ASSUME NEW p \in Nat, NEW f \in Frame
  PROVE  FlowOf(p, f) \in Key
<1>1. f.src \in Nat /\ f.dst \in Nat /\ f.proto \in Byte /\ f.sport \in Half /\ f.dport \in Half
  BY DEF Frame
<1>2. /\ f.sport[1] + 256 * f.sport[2] \in U16
      /\ f.dport[1] + 256 * f.dport[2] \in U16
  <2>1. \A x, y \in Byte : x + 256 * y \in U16
    <3>1. \A x, y \in Byte : x + 256 * y = y * 256 + x
      BY DEF Byte
    <3> QED
      BY <3>1, JoinBytes
  <2>2. f.sport[1] \in Byte /\ f.sport[2] \in Byte /\ f.dport[1] \in Byte /\ f.dport[2] \in Byte
    BY <1>1, HalfBytes
  <2> QED
    BY <2>1, <2>2, Zenon
<1>3. 0 \in Nat /\ 0 \in Byte /\ 0 \in U16
  BY DEF Byte, U16
<1> QED
  BY <1>1, <1>2, <1>3 DEF FlowOf, Key

(***************************************************************************)
(* A step that keeps the table and forgets no packet keeps TableSound; so  *)
(* does one that adds an entry for a packet accepted, or removes entries.  *)
(***************************************************************************)
LEMMA SoundKept ==
  ASSUME TableSound,
         \A s \in Skbs : loc[s] # "new" =>
            loc'[s] # "new" /\ rcvd'[s] = rcvd[s] /\ port'[s] = port[s],
         \A k \in DOMAIN table' \ DOMAIN table :
            k \in CtrlKeys \/ \E s \in Skbs : /\ loc[s] # "new"
                                              /\ ~Rejected(rcvd[s])
                                              /\ k = FlowOf(port[s], rcvd[s])
  PROVE  TableSound'
<1>1. SUFFICES ASSUME NEW k \in DOMAIN table', k \notin CtrlKeys
               PROVE  \E s \in Skbs : /\ loc'[s] # "new"
                                      /\ ~Rejected(rcvd'[s])
                                      /\ k = FlowOf(port'[s], rcvd'[s])
  BY DEF TableSound
<1>2. PICK s \in Skbs : loc[s] # "new" /\ ~Rejected(rcvd[s]) /\ k = FlowOf(port[s], rcvd[s])
  BY <1>1 DEF TableSound
<1>3. loc'[s] # "new" /\ rcvd'[s] = rcvd[s] /\ port'[s] = port[s]
  BY <1>2
<1> QED
  BY <1>2, <1>3

-----------------------------------------------------------------------------
(* The packets *)

\* The part of TypeOK that does not concern the table.
PnaOK == PnaTyped(Frame, HdrMd, {"idle", "main", "ct_flow_miss"})

\* The part of IndInv that concerns the packets and CPUs.
PnaInv == PnaOK /\ CpuInv /\ ScratchInv /\ SkbInv

(***************************************************************************)
(* A CPU may let its packet go to l as it was received, marked for the     *)
(* kernel or taken to the stack only if the packet is not to be rejected,  *)
(* and dropped only if it is.                                              *)
(***************************************************************************)
LEMMA LeaveKeeps ==
  ASSUME PnaInv, NEW c \in Cpus, pc[c] # "idle",
         NEW l \in {"ingress", "stack", "dropped"}, NEW b \in Cb, NEW md \in HdrMd,
         b.drop = FALSE, b.egress_port = 0,
         b.pass_to_kernel => ~Rejected(rcvd[cur[c]]),
         l = "stack" => ~Rejected(rcvd[cur[c]]),
         l = "dropped" => Rejected(rcvd[cur[c]]),
         Leave(c, l, rcvd[cur[c]], b, md)
  PROVE  /\ PnaInv'
         /\ \A s \in Skbs : loc[s] # "new" =>
              loc'[s] # "new" /\ rcvd'[s] = rcvd[s] /\ port'[s] = port[s]
<1> DEFINE q == cur[c]
<1>1. q \in Skbs /\ loc[q] = "cpu" /\ rcvd[q] \in Frame /\ l \in Locs
  BY DEF PnaInv, PnaOK, PnaTyped, CpuInv, Locs
<1>2. /\ loc' = [loc EXCEPT ![q] = l]
      /\ frame' = [frame EXCEPT ![q] = rcvd[q]]
      /\ cb' = [cb EXCEPT ![q] = b]
      /\ pc' = [pc EXCEPT ![c] = "idle"]
      /\ cur' = [cur EXCEPT ![c] = NoSkb]
      /\ hdrMd' = [hdrMd EXCEPT ![c] = md]
      /\ port' = port /\ rcvd' = rcvd
  BY DEF Leave
<1>3. PnaOK'
  BY <1>1, <1>2 DEF PnaInv, PnaOK, PnaTyped
<1>4. \A d \in Cpus : pc'[d] # "idle" =>
         d # c /\ pc'[d] = pc[d] /\ cur'[d] = cur[d] /\ hdrMd'[d] = hdrMd[d]
         /\ cur[d] \in Skbs /\ cur[d] # q
  BY <1>2 DEF PnaInv, PnaOK, PnaTyped, CpuInv
<1>5. \A s \in Skbs : s # q => loc'[s] = loc[s] /\ frame'[s] = frame[s] /\ cb'[s] = cb[s]
  BY <1>2 DEF PnaInv, PnaOK, PnaTyped
<1>6. loc'[q] = l /\ frame'[q] = rcvd[q] /\ cb'[q] = b
  BY <1>1, <1>2 DEF PnaInv, PnaOK, PnaTyped
<1>7. CpuInv'
  BY <1>1, LeaveStep DEF PnaInv, PnaOK
<1>8. ScratchInv'
  <2>1. SUFFICES ASSUME NEW d \in Cpus, pc'[d] # "idle"
                 PROVE  /\ ~RejectedByParser(rcvd[cur[d]])
                        /\ pc[d] = "main" => /\ hdrMd[d] = Parsed(rcvd[cur[d]])
                                             /\ frame[cur[d]] = rcvd[cur[d]]
                        /\ pc[d] = "ct_flow_miss" =>
                             /\ ~MetadataFails(rcvd[cur[d]])
                             /\ hdrMd[d] = SetMeta(Parsed(rcvd[cur[d]]))
                             /\ frame[cur[d]] = RestoreEtherType(rcvd[cur[d]])
    BY <1>2, <1>4, <1>5 DEF ScratchInv
  <2> QED
    BY <1>4, <2>1 DEF PnaInv, ScratchInv
<1>9. SkbInv'
  <2>1. SUFFICES ASSUME NEW s \in Skbs
                 PROVE  /\ ~cb'[s].drop /\ cb'[s].egress_port = 0
                        /\ cb'[s].pass_to_kernel => ~Rejected(rcvd[s])
                        /\ loc'[s] \in {"ingress", "stack"} => frame'[s] = rcvd[s]
                        /\ loc'[s] = "stack" => ~Rejected(rcvd[s])
                        /\ loc'[s] = "dropped" => Rejected(rcvd[s])
                        /\ loc'[s] # "sent"
                        /\ loc'[s] = "new" => ~cb'[s].pass_to_kernel
    BY <1>2 DEF SkbInv
  <2>2. CASE s = q
    BY <1>6, <2>2
  <2>3. CASE s # q
    BY <1>5, <2>3 DEF PnaInv, SkbInv
  <2> QED
    BY <2>2, <2>3
<1>10. \A s \in Skbs : loc[s] # "new" =>
         loc'[s] # "new" /\ rcvd'[s] = rcvd[s] /\ port'[s] = port[s]
  BY <1>2, <1>5, <1>6
<1> QED
  BY <1>3, <1>7, <1>8, <1>9, <1>10 DEF PnaInv

-----------------------------------------------------------------------------
(* The steps *)

(***************************************************************************)
(* IndInv in the parts the lemmas above speak of.                          *)
(***************************************************************************)
LEMMA IndInvParts ==
  /\ IndInv <=> PnaInv /\ TableOK /\ TableSound
  /\ IndInv' <=> PnaInv' /\ TableOK' /\ TableSound'
BY DEF IndInv, TypeOK, PnaInv, PnaOK, PnaTyped, TableOK

(***************************************************************************)
(* The invariant holds before the first packet.                            *)
(***************************************************************************)
LEMMA InitInv == Init => IndInv
<1> SUFFICES ASSUME Init
             PROVE  PnaInv /\ TableOK /\ TableSound
  BY IndInvParts
<1>1. NoFrame \in Frame
  BY DEF NoFrame, Frame, NoMd, Half, Byte
<1>2. ZeroHdrMd \in HdrMd
  BY <1>1, MdTypes
<1>3. ZeroCb \in Cb /\ ZeroCb.drop = FALSE /\ ZeroCb.egress_port = 0 /\ ZeroCb.pass_to_kernel = FALSE
  BY DEF ZeroCb, Cb
<1>4. PnaOK
  BY <1>1, <1>2, <1>3 DEF Init, PnaInit, PnaOK, PnaTyped, Locs
<1>5. CpuInv /\ ScratchInv
  BY DEF Init, PnaInit, CpuInv, ScratchInv
<1>6. SkbInv
  BY <1>3 DEF Init, PnaInit, SkbInv
<1>7. TableOK /\ TableSound
  BY DEF Init, TableOK, TableSound
<1> QED
  BY <1>4, <1>5, <1>6, <1>7 DEF PnaInv

(***************************************************************************)
(* A packet that arrives is at work nowhere and not marked.                *)
(***************************************************************************)
LEMMA ReceiveInv ==
  ASSUME IndInv, NEW s \in Skbs, Receive(s)
  PROVE  IndInv'
<1>1. PnaInv /\ TableOK /\ TableSound
  BY IndInvParts
<1>2. PICK p \in Ports, f \in Frames : Arrive(s, p, f)
  BY DEF Receive
<1>3. /\ loc[s] = "new"
      /\ loc' = [loc EXCEPT ![s] = "ingress"]
      /\ port' = [port EXCEPT ![s] = p]
      /\ frame' = [frame EXCEPT ![s] = f]
      /\ rcvd' = [rcvd EXCEPT ![s] = f]
      /\ cb' = cb /\ pc' = pc /\ cur' = cur /\ hdrMd' = hdrMd
      /\ table' = table
  BY <1>2 DEF Receive, Arrive
<1>4. p \in Nat /\ f \in Frame
  BY PortsAssumption, FramesAssumption
<1>5. PnaOK'
  BY <1>1, <1>3, <1>4 DEF PnaInv, PnaOK, PnaTyped, Locs
<1>6. \A t \in Skbs : t # s => /\ loc'[t] = loc[t] /\ frame'[t] = frame[t]
                               /\ rcvd'[t] = rcvd[t] /\ port'[t] = port[t]
  BY <1>1, <1>3 DEF PnaInv, PnaOK, PnaTyped
<1>7. loc'[s] = "ingress" /\ frame'[s] = f /\ rcvd'[s] = f
  BY <1>1, <1>3 DEF PnaInv, PnaOK, PnaTyped
<1>8. \A c \in Cpus : pc[c] # "idle" => cur[c] \in Skbs /\ cur[c] # s
  BY <1>1, <1>3 DEF PnaInv, CpuInv
<1>9. CpuInv'
  BY <1>1, <1>3, <1>6, <1>8 DEF PnaInv, CpuInv
<1>10. ScratchInv'
  <2>1. SUFFICES ASSUME NEW c \in Cpus, pc[c] # "idle"
                 PROVE  /\ ~RejectedByParser(rcvd'[cur[c]])
                        /\ pc[c] = "main" => /\ hdrMd[c] = Parsed(rcvd'[cur[c]])
                                             /\ frame'[cur[c]] = rcvd'[cur[c]]
                        /\ pc[c] = "ct_flow_miss" =>
                             /\ ~MetadataFails(rcvd'[cur[c]])
                             /\ hdrMd[c] = SetMeta(Parsed(rcvd'[cur[c]]))
                             /\ frame'[cur[c]] = RestoreEtherType(rcvd'[cur[c]])
    BY <1>3 DEF ScratchInv
  <2>2. rcvd'[cur[c]] = rcvd[cur[c]] /\ frame'[cur[c]] = frame[cur[c]]
    BY <1>6, <1>8, <2>1
  <2> QED
    BY <1>1, <2>1, <2>2 DEF PnaInv, ScratchInv
<1>11. SkbInv'
  <2>1. SUFFICES ASSUME NEW t \in Skbs
                 PROVE  /\ ~cb[t].drop /\ cb[t].egress_port = 0
                        /\ cb[t].pass_to_kernel => ~Rejected(rcvd'[t])
                        /\ loc'[t] \in {"ingress", "stack"} => frame'[t] = rcvd'[t]
                        /\ loc'[t] = "stack" => ~Rejected(rcvd'[t])
                        /\ loc'[t] = "dropped" => Rejected(rcvd'[t])
                        /\ loc'[t] # "sent"
                        /\ loc'[t] = "new" => ~cb[t].pass_to_kernel
    BY <1>3 DEF SkbInv
  <2>2. CASE t = s
    BY <1>1, <1>3, <1>7, <2>2 DEF PnaInv, SkbInv
  <2>3. CASE t # s
    BY <1>1, <1>6, <2>3 DEF PnaInv, SkbInv
  <2> QED
    BY <2>2, <2>3
<1>12. TableOK'
  BY <1>1, <1>3 DEF TableOK
<1>13. TableSound'
  BY <1>1, <1>3, <1>6, SoundKept
<1> QED
  BY <1>5, <1>9, <1>10, <1>11, <1>12, <1>13, IndInvParts DEF PnaInv

(***************************************************************************)
(* tc_parse_func leaves its CPU the parse of its own packet.               *)
(***************************************************************************)
LEMMA ParseInv ==
  ASSUME IndInv, NEW c \in Cpus, NEW s \in Skbs, Parse(c, s)
  PROVE  IndInv'
<1>1. PnaInv /\ TableOK /\ TableSound
  BY IndInvParts
<1> DEFINE r == run_parser(frame[s], hdrMd[c])
<1>2. pc[c] = "idle" /\ loc[s] = "ingress" /\ frame[s] = rcvd[s] /\ rcvd[s] \in Frame
  BY <1>1 DEF Parse, TcParseFunc, PnaInv, PnaOK, PnaTyped, SkbInv
<1>3. /\ r.md = Parsed(rcvd[s]) /\ r.md \in HdrMd
      /\ RejectedByParser(rcvd[s]) => r.ret = TC_ACT_SHOT
      /\ ~RejectedByParser(rcvd[s]) => r.ret # TC_ACT_SHOT
  BY <1>2, ParserResult DEF TC_ACT_SHOT, Continue
<1>4. TcParseFunc(c, s, r) /\ table' = table
  BY DEF Parse
<1> HIDE DEF r
<1>5. /\ hdrMd' = [hdrMd EXCEPT ![c] = r.md]
      /\ port' = port /\ frame' = frame /\ cb' = cb /\ rcvd' = rcvd
  BY <1>4 DEF TcParseFunc
<1>6. TableOK'
  BY <1>1, <1>4 DEF TableOK
<1>7. CASE r.ret = TC_ACT_SHOT
  <2>1. loc' = [loc EXCEPT ![s] = "dropped"] /\ pc' = pc /\ cur' = cur
    BY <1>4, <1>7 DEF TcParseFunc
  <2>2. Rejected(rcvd[s])
    BY <1>3, <1>7 DEF Rejected
  <2>3. PnaOK'
    BY <1>1, <1>3, <1>5, <2>1 DEF PnaInv, PnaOK, PnaTyped, Locs
  <2>4. CpuInv'
    BY <1>1, <1>2, <2>1 DEF PnaInv, PnaOK, PnaTyped, CpuInv
  <2>5. ScratchInv'
    <3>1. \A d \in Cpus : pc[d] # "idle" => hdrMd'[d] = hdrMd[d]
      BY <1>1, <1>2, <1>5 DEF PnaInv, PnaOK, PnaTyped
    <3> QED
      BY <1>1, <1>5, <2>1, <3>1 DEF PnaInv, ScratchInv
  <2>6. SkbInv'
    BY <1>1, <1>2, <1>5, <2>1, <2>2 DEF PnaInv, PnaOK, PnaTyped, SkbInv
  <2>7. TableSound'
    <3>1. \A t \in Skbs : loc[t] # "new" => loc'[t] # "new"
      BY <1>1, <2>1 DEF PnaInv, PnaOK, PnaTyped
    <3> QED
      BY <1>1, <1>4, <1>5, <3>1, SoundKept
  <2> QED
    BY <1>6, <2>3, <2>4, <2>5, <2>6, <2>7, IndInvParts DEF PnaInv
<1>8. CASE r.ret # TC_ACT_SHOT
  <2>1. /\ loc' = [loc EXCEPT ![s] = "cpu"]
        /\ pc' = [pc EXCEPT ![c] = "main"]
        /\ cur' = [cur EXCEPT ![c] = s]
    BY <1>4, <1>8 DEF TcParseFunc
  <2>2. ~RejectedByParser(rcvd[s])
    BY <1>3, <1>8
  <2>3. PnaOK'
    BY <1>1, <1>3, <1>5, <2>1 DEF PnaInv, PnaOK, PnaTyped, Locs
  <2>4. \A d \in Cpus : d # c => pc'[d] = pc[d] /\ cur'[d] = cur[d] /\ hdrMd'[d] = hdrMd[d]
    BY <1>1, <1>5, <2>1 DEF PnaInv, PnaOK, PnaTyped
  <2>5. pc'[c] = "main" /\ cur'[c] = s /\ hdrMd'[c] = Parsed(rcvd[s])
    BY <1>1, <1>3, <1>5, <2>1 DEF PnaInv, PnaOK, PnaTyped
  <2>6. \A d \in Cpus : pc[d] # "idle" => cur[d] \in Skbs /\ cur[d] # s /\ loc[cur[d]] = "cpu"
    BY <1>1, <1>2 DEF PnaInv, CpuInv
  <2>7. \A t \in Skbs : t # s => loc'[t] = loc[t]
    BY <1>1, <2>1 DEF PnaInv, PnaOK, PnaTyped
  <2>8. loc'[s] = "cpu"
    BY <1>1, <2>1 DEF PnaInv, PnaOK, PnaTyped
  <2>9. CpuInv'
    BY <1>1, <2>4, <2>5, <2>6, <2>7, <2>8 DEF PnaInv, CpuInv
  <2>10. ScratchInv'
    BY <1>1, <1>2, <1>5, <2>2, <2>4, <2>5 DEF PnaInv, ScratchInv
  <2>11. SkbInv'
    BY <1>1, <1>5, <2>7, <2>8 DEF PnaInv, SkbInv
  <2>12. TableSound'
    BY <1>1, <1>4, <1>5, <2>7, <2>8, SoundKept
  <2> QED
    BY <1>6, <2>3, <2>9, <2>10, <2>11, <2>12, IndInvParts DEF PnaInv
<1> QED
  BY <1>7, <1>8

(***************************************************************************)
(* What holds of the packet of a CPU at work.                              *)
(***************************************************************************)
LEMMA AtWork ==
  ASSUME PnaInv, NEW c \in Cpus, pc[c] # "idle"
  PROVE  /\ cur[c] \in Skbs /\ loc[cur[c]] = "cpu"
         /\ rcvd[cur[c]] \in Frame /\ port[cur[c]] \in Nat /\ hdrMd[c] \in HdrMd
         /\ cb[cur[c]] \in Cb /\ cb[cur[c]].drop = FALSE /\ cb[cur[c]].egress_port = 0
         /\ cb[cur[c]].pass_to_kernel => ~Rejected(rcvd[cur[c]])
         /\ ~RejectedByParser(rcvd[cur[c]])
         /\ pc[c] = "main" => /\ hdrMd[c] = Parsed(rcvd[cur[c]])
                              /\ frame[cur[c]] = rcvd[cur[c]]
<1>1. cur[c] \in Skbs /\ loc[cur[c]] = "cpu"
  BY DEF PnaInv, CpuInv
<1>2. cb[cur[c]] \in Cb /\ ~cb[cur[c]].drop /\ cb[cur[c]].egress_port = 0
  BY <1>1 DEF PnaInv, PnaOK, PnaTyped, SkbInv
<1>3. cb[cur[c]].drop = FALSE
  BY <1>2 DEF Cb
<1> QED
  BY <1>1, <1>2, <1>3 DEF PnaInv, PnaOK, PnaTyped, SkbInv, ScratchInv

(***************************************************************************)
(* A packet marked for the kernel, or with metadata and too short.         *)
(***************************************************************************)
LEMMA IngressEarlyInv ==
  ASSUME IndInv, NEW c \in Cpus, IngressEarly(c)
  PROVE  IndInv'
<1>1. PnaInv /\ TableOK /\ TableSound
  BY IndInvParts
<1>2. table' = table /\ pc[c] = "main"
  BY DEF IngressEarly, EarlyReturn, PassToKernel, MetadataShot
<1>3. PnaInv' /\ \A s \in Skbs : loc[s] # "new" =>
                    loc'[s] # "new" /\ rcvd'[s] = rcvd[s] /\ port'[s] = port[s]
  <2>1. CASE PassToKernel(c)
    <3>1. /\ cb[cur[c]].pass_to_kernel
          /\ Leave(c, "stack", rcvd[cur[c]], cb[cur[c]], hdrMd[c])
      BY <1>1, <1>2, <2>1, AtWork DEF PassToKernel
    <3> QED
      BY <1>1, <1>2, <3>1, AtWork, LeaveKeeps
  <2>2. CASE MetadataShot(c)
    <3>1. /\ MetadataFails(rcvd[cur[c]])
          /\ Leave(c, "dropped", rcvd[cur[c]], cb[cur[c]], hdrMd[c])
      BY <1>1, <1>2, <2>2, AtWork DEF MetadataShot
    <3>2. Rejected(rcvd[cur[c]])
      BY <3>1 DEF Rejected
    <3> QED
      BY <1>1, <1>2, <3>1, <3>2, AtWork, LeaveKeeps
  <2> QED
    BY <2>1, <2>2 DEF IngressEarly, EarlyReturn
<1>4. TableOK'
  BY <1>1, <1>2 DEF TableOK
<1>5. TableSound'
  BY <1>1, <1>2, <1>3, SoundKept
<1> QED
  BY <1>3, <1>4, <1>5, IndInvParts

(***************************************************************************)
(* When the main block lets its packet go.                                 *)
(***************************************************************************)
LEMMA FinishKeeps ==
  ASSUME PnaInv, NEW c \in Cpus, pc[c] # "idle", ~MetadataFails(rcvd[cur[c]]),
         Finish(c, RestoreEtherType(rcvd[cur[c]]), SetMeta(Parsed(rcvd[cur[c]])))
  PROVE  /\ PnaInv'
         /\ \A s \in Skbs : loc[s] # "new" =>
              loc'[s] # "new" /\ rcvd'[s] = rcvd[s] /\ port'[s] = port[s]
<1> DEFINE f == rcvd[cur[c]]
           md == Converted(SetMeta(Parsed(f)))
           b == [drop |-> FALSE, egress_port |-> 0, pass_to_kernel |-> TRUE]
<1>1. Leave(c, "ingress", f, b, md)
  BY AtWork, FinishResult
<1>2. b \in Cb /\ b.drop = FALSE /\ b.egress_port = 0
  BY DEF Cb
<1>3. f \in Frame /\ ~Rejected(f)
  BY AtWork DEF Rejected
<1>4. md \in HdrMd
  BY <1>3, ParserResult, MdTypes
<1> HIDE DEF b, md
<1> QED
  BY <1>1, <1>2, <1>3, <1>4, LeaveKeeps

(***************************************************************************)
(* The lookup finds the flow.                                              *)
(***************************************************************************)
LEMMA HitInv ==
  ASSUME IndInv, NEW c \in Cpus, Hit(c)
  PROVE  IndInv'
<1>1. PnaInv /\ TableOK /\ TableSound
  BY IndInvParts
<1> DEFINE f == rcvd[cur[c]]
           k == TableKey(port[cur[c]], SetMeta(hdrMd[c]))
<1>2. pc[c] = "main" /\ ~MetadataFails(frame[cur[c]])
  BY DEF Hit, EntersMain
<1>3. hdrMd[c] = Parsed(f) /\ frame[cur[c]] = f
  BY <1>1, <1>2, AtWork
<1>4. Finish(c, RestoreEtherType(f), SetMeta(Parsed(f))) /\ ~MetadataFails(f)
  BY <1>2, <1>3 DEF Hit
<1>5. k \in DOMAIN table /\ table' = Refresh(table, k)
  BY DEF Hit
<1>6. PnaInv' /\ \A s \in Skbs : loc[s] # "new" =>
                    loc'[s] # "new" /\ rcvd'[s] = rcvd[s] /\ port'[s] = port[s]
  BY <1>1, <1>2, <1>4, FinishKeeps
<1> HIDE DEF k
<1>7. TableOK' /\ DOMAIN table' = DOMAIN table
  <2> DEFINE e == [age |-> 0, dynamic |-> table[k].dynamic]
  <2>1. table' = Put(table, k, e)
    BY <1>5 DEF Refresh
  <2>2. e \in Entry
    BY <1>1, <1>5, TableOps DEF TableOK
  <2>3. DOMAIN table \cup {k} = DOMAIN table
    BY <1>5
  <2> HIDE DEF e
  <2>4. DOMAIN table' = DOMAIN table /\ table' \in [DOMAIN table -> Entry]
    BY <1>1, <2>1, <2>2, <2>3, TableOps DEF TableOK
  <2> QED
    BY <1>1, <2>4 DEF TableOK
<1>8. TableSound'
  BY <1>1, <1>6, <1>7, SoundKept
<1> QED
  BY <1>6, <1>7, <1>8, IndInvParts

(***************************************************************************)
(* The lookup misses: the CPU will run ct_flow_miss.                       *)
(***************************************************************************)
LEMMA MissInv ==
  ASSUME IndInv, NEW c \in Cpus, Miss(c)
  PROVE  IndInv'
<1>1. PnaInv /\ TableOK /\ TableSound
  BY IndInvParts
<1> DEFINE q == cur[c]
           f == rcvd[q]
<1>2. pc[c] = "main" /\ ~MetadataFails(frame[q])
  BY DEF Miss, EntersMain
<1>3. q \in Skbs /\ loc[q] = "cpu" /\ hdrMd[c] = Parsed(f) /\ frame[q] = f /\ f \in Frame
      /\ ~RejectedByParser(f)
  BY <1>1, <1>2, AtWork
<1>4. /\ pc' = [pc EXCEPT ![c] = "ct_flow_miss"]
      /\ hdrMd' = [hdrMd EXCEPT ![c] = SetMeta(Parsed(f))]
      /\ frame' = [frame EXCEPT ![q] = RestoreEtherType(f)]
      /\ loc' = loc /\ port' = port /\ cb' = cb /\ cur' = cur /\ rcvd' = rcvd /\ table' = table
  <2>1. frame' = [frame EXCEPT ![q] = RestoreEtherType(frame[q])]
    BY DEF Miss
  <2> QED
    BY <1>3, <2>1 DEF Miss
<1>5. SetMeta(Parsed(f)) \in HdrMd /\ RestoreEtherType(f) \in Frame
  BY <1>2, <1>3, ParserResult, MdTypes, WriteBack
<1>6. PnaOK'
  BY <1>1, <1>4, <1>5 DEF PnaInv, PnaOK, PnaTyped
<1>7. \A d \in Cpus : d # c => pc'[d] = pc[d] /\ hdrMd'[d] = hdrMd[d]
  BY <1>1, <1>4 DEF PnaInv, PnaOK, PnaTyped
<1>8. pc'[c] = "ct_flow_miss" /\ hdrMd'[c] = SetMeta(Parsed(f)) /\ frame'[q] = RestoreEtherType(f)
  BY <1>1, <1>3, <1>4 DEF PnaInv, PnaOK, PnaTyped
<1>9. \A s \in Skbs : s # q => frame'[s] = frame[s]
  BY <1>1, <1>4 DEF PnaInv, PnaOK, PnaTyped
<1>10. CpuInv'
  BY <1>1, <1>2, <1>4, <1>7 DEF PnaInv, CpuInv
<1>11. \A d \in Cpus : d # c /\ pc[d] # "idle" => cur[d] \in Skbs /\ cur[d] # q
  BY <1>1, <1>2 DEF PnaInv, CpuInv
<1>12. ScratchInv'
  <2>1. SUFFICES ASSUME NEW d \in Cpus
                 PROVE  /\ pc'[d] # "idle" => ~RejectedByParser(rcvd[cur[d]])
                        /\ pc'[d] = "main" => /\ hdrMd'[d] = Parsed(rcvd[cur[d]])
                                              /\ frame'[cur[d]] = rcvd[cur[d]]
                        /\ pc'[d] = "ct_flow_miss" =>
                             /\ ~MetadataFails(rcvd[cur[d]])
                             /\ hdrMd'[d] = SetMeta(Parsed(rcvd[cur[d]]))
                             /\ frame'[cur[d]] = RestoreEtherType(rcvd[cur[d]])
    BY <1>4 DEF ScratchInv
  <2>2. CASE d = c
    BY <1>2, <1>3, <1>8, <2>2
  <2>3. CASE d # c
    BY <1>1, <1>7, <1>9, <1>11, <2>3 DEF PnaInv, ScratchInv
  <2> QED
    BY <2>2, <2>3
<1>13. SkbInv'
  BY <1>1, <1>3, <1>4, <1>9 DEF PnaInv, SkbInv
<1>14. TableOK'
  BY <1>1, <1>4 DEF TableOK
<1>15. TableSound'
  BY <1>1, <1>4, SoundKept
<1> QED
  BY <1>6, <1>10, <1>12, <1>13, <1>14, <1>15, IndInvParts DEF PnaInv

(***************************************************************************)
(* ct_flow_miss adds at most the flow of its own packet, whatever happened *)
(* to the table since the lookup.                                          *)
(***************************************************************************)
LEMMA FlowMissInv ==
  ASSUME IndInv, NEW c \in Cpus, ct_flow_miss(c)
  PROVE  IndInv'
<1>1. PnaInv /\ TableOK /\ TableSound
  BY IndInvParts
<1> DEFINE f == rcvd[cur[c]]
           k == TableKey(port[cur[c]], hdrMd[c])
<1>2. pc[c] = "ct_flow_miss"
  BY DEF ct_flow_miss
<1>3. /\ cur[c] \in Skbs /\ loc[cur[c]] = "cpu" /\ f \in Frame /\ port[cur[c]] \in Nat
      /\ ~RejectedByParser(f)
  BY <1>1, <1>2, AtWork
<1>4. /\ ~MetadataFails(f)
      /\ hdrMd[c] = SetMeta(Parsed(f))
      /\ frame[cur[c]] = RestoreEtherType(f)
  BY <1>1, <1>2 DEF PnaInv, ScratchInv
<1>5. Finish(c, RestoreEtherType(f), SetMeta(Parsed(f)))
  BY <1>4 DEF ct_flow_miss
<1>6. PnaInv' /\ \A s \in Skbs : loc[s] # "new" =>
                    loc'[s] # "new" /\ rcvd'[s] = rcvd[s] /\ port'[s] = port[s]
  BY <1>1, <1>2, <1>4, <1>5, FinishKeeps
<1>7. k = FlowOf(port[cur[c]], f)
  BY <1>3, <1>4, ParsedKey
<1>8. k \in Key
  BY <1>3, <1>7, FlowIsKey
<1>9. table' = CreateOnMiss(table, k)
  BY DEF ct_flow_miss
<1> HIDE DEF k
<1>10. table' = table \/ table' = Put(table, k, [age |-> 0, dynamic |-> TRUE])
  BY <1>9 DEF CreateOnMiss, NewEntry
<1>11. TableOK' /\ DOMAIN table' \subseteq DOMAIN table \cup {k}
  <2>1. CASE table' = table
    BY <1>1, <2>1 DEF TableOK
  <2>2. CASE table' = Put(table, k, [age |-> 0, dynamic |-> TRUE])
    <3>1. DOMAIN table' = DOMAIN table \cup {k} /\ table' \in [DOMAIN table \cup {k} -> Entry]
      BY <1>1, <2>2, TableOps DEF TableOK
    <3> QED
      BY <1>1, <1>8, <3>1 DEF TableOK
  <2> QED
    BY <1>10, <2>1, <2>2
<1>12. ~Rejected(f)
  BY <1>3, <1>4 DEF Rejected
<1>13. TableSound'
  <2>1. \A x \in DOMAIN table' \ DOMAIN table :
          \E s \in Skbs : loc[s] # "new" /\ ~Rejected(rcvd[s]) /\ x = FlowOf(port[s], rcvd[s])
    BY <1>3, <1>7, <1>11, <1>12
  <2> QED
    BY <1>1, <1>6, <2>1, SoundKept
<1> QED
  BY <1>6, <1>11, <1>13, IndInvParts

(***************************************************************************)
(* The timers and the control plane change the table only.                 *)
(***************************************************************************)
LEMMA TableStepInv ==
  ASSUME IndInv, UNCHANGED pnaVars, TableOK',
         DOMAIN table' \subseteq DOMAIN table \cup CtrlKeys
  PROVE  IndInv'
<1>1. PnaInv /\ TableOK /\ TableSound
  BY IndInvParts
<1>2. PnaInv'
  BY <1>1 DEF PnaInv, PnaOK, PnaTyped, CpuInv, ScratchInv, SkbInv, pnaVars
<1>3. TableSound'
  BY <1>1, SoundKept DEF pnaVars
<1> QED
  BY <1>2, <1>3, IndInvParts

(***************************************************************************)
(* Time passing changes the ages only, and none beyond the timeout.        *)
(***************************************************************************)
LEMMA TickInv ==
  ASSUME IndInv, Tick
  PROVE  IndInv'
<1>1. TableOK
  BY IndInvParts
<1>2. DOMAIN table' = DOMAIN table
  BY DEF Tick
<1>3. \A k \in DOMAIN table : table'[k] \in Entry
  <2> SUFFICES ASSUME NEW k \in DOMAIN table
               PROVE  table'[k] \in Entry
    OBVIOUS
  <2>1. table'[k] = IF table[k].dynamic /\ table[k].age < IdleTimeout
                      THEN [age |-> table[k].age + 1, dynamic |-> TRUE] ELSE table[k]
    BY DEF Tick
  <2>2. table[k] \in Entry /\ table[k].age \in 0 .. IdleTimeout
    BY <1>1 DEF TableOK, Entry
  <2>3. table[k].age < IdleTimeout => table[k].age + 1 \in 0 .. IdleTimeout
    BY <2>2, IdleTimeoutAssumption
  <2>4. table[k].age < IdleTimeout => [age |-> table[k].age + 1, dynamic |-> TRUE] \in Entry
    BY <2>3 DEF Entry
  <2> QED
    BY <2>1, <2>2, <2>4
<1>4. TableOK'
  <2>1. table' = [k \in DOMAIN table |-> table'[k]]
    BY DEF Tick
  <2> QED
    BY <1>1, <1>2, <1>3, <2>1 DEF TableOK
<1> QED
  BY <1>2, <1>4, TableStepInv DEF Tick

(***************************************************************************)
(* Expiry and deletion by the control plane take an entry away.            *)
(***************************************************************************)
LEMMA RemoveInv ==
  ASSUME IndInv, NEW k, Expire(k) \/ CtrlDelete(k)
  PROVE  IndInv'
<1>1. TableOK
  BY IndInvParts
<1>2. table' = Remove(table, k) /\ UNCHANGED pnaVars
  BY DEF Expire, CtrlDelete
<1>3. DOMAIN table' \subseteq DOMAIN table /\ table' \in [DOMAIN table' -> Entry]
  BY <1>1, <1>2, TableOps DEF TableOK
<1>4. TableOK'
  BY <1>1, <1>3 DEF TableOK
<1> QED
  BY <1>2, <1>3, <1>4, TableStepInv

(***************************************************************************)
(* The control plane enters one of its own keys.                           *)
(***************************************************************************)
LEMMA CtrlCreateInv ==
  ASSUME IndInv, NEW k \in CtrlKeys, CtrlCreate(k)
  PROVE  IndInv'
<1>1. TableOK
  BY IndInvParts
<1>2. table' = Put(table, k, [age |-> 0, dynamic |-> FALSE]) /\ UNCHANGED pnaVars
  BY DEF CtrlCreate
<1>3. DOMAIN table' = DOMAIN table \cup {k} /\ table' \in [DOMAIN table \cup {k} -> Entry]
  BY <1>1, <1>2, TableOps DEF TableOK
<1>4. TableOK'
  BY <1>1, <1>3, CtrlKeysAssumption DEF TableOK
<1> QED
  BY <1>2, <1>3, <1>4, TableStepInv

(***************************************************************************)
(* Every step keeps the invariant.                                         *)
(***************************************************************************)
LEMMA NextInv == IndInv /\ [Next]_vars => IndInv'
<1> SUFFICES ASSUME IndInv, [Next]_vars
             PROVE  IndInv'
  OBVIOUS
<1>1. ASSUME NEW s \in Skbs, Receive(s)
      PROVE  IndInv'
  BY <1>1, ReceiveInv
<1>2. ASSUME NEW c \in Cpus, NEW s \in Skbs, Parse(c, s)
      PROVE  IndInv'
  BY <1>2, ParseInv
<1>3. ASSUME NEW c \in Cpus, Main(c)
      PROVE  IndInv'
  BY <1>3, IngressEarlyInv, HitInv, MissInv, FlowMissInv DEF Main
<1>4. CASE Tick
  BY <1>4, TickInv
<1>5. ASSUME NEW k \in DOMAIN table, Expire(k) \/ CtrlDelete(k)
      PROVE  IndInv'
  BY <1>5, RemoveInv
<1>6. ASSUME NEW k \in CtrlKeys, CtrlCreate(k)
      PROVE  IndInv'
  BY <1>6, CtrlCreateInv
<1>7. CASE UNCHANGED vars
  <2>1. UNCHANGED pnaVars /\ table' = table
    BY <1>7 DEF vars
  <2>2. TableOK'
    BY <2>1, IndInvParts DEF TableOK
  <2> QED
    BY <2>1, <2>2, TableStepInv
<1> QED
  BY <1>1, <1>2, <1>3, <1>4, <1>5, <1>6, <1>7 DEF Next

(***************************************************************************)
(* The inductive invariant holds in every reachable state of flowtracker.  *)
(***************************************************************************)
LEMMA Invariant == Spec => []IndInv
BY InitInv, NextInv, PTL DEF Spec

-----------------------------------------------------------------------------
(* Theorems *)

(***************************************************************************)
(* Type correctness.                                                       *)
(***************************************************************************)
THEOREM TypeCorrect == Spec => []TypeOK
<1>1. IndInv => TypeOK
  BY DEF IndInv
<1> QED
  BY <1>1, Invariant, PTL

(***************************************************************************)
(* No entry of ct_flow_table comes from a packet that was never received   *)
(* or is rejected, however CPUs, timers and control plane interleave       *)
(* between the lookup and the creation.                                    *)
(***************************************************************************)
THEOREM TableIsSound == Spec => []TableSound
<1>1. IndInv => TableSound
  BY DEF IndInv
<1> QED
  BY <1>1, Invariant, PTL

(***************************************************************************)
(* The per-CPU map never serves a CPU another packet's headers.            *)
(***************************************************************************)
THEOREM KeysAreOwnFlows == Spec => []KeyIsOwnFlow
<1>1. IndInv => KeyIsOwnFlow
  <2> SUFFICES ASSUME IndInv, NEW c \in Cpus, pc[c] # "idle"
               PROVE  TableKey(port[cur[c]], SetMeta(hdrMd[c])) = FlowOf(port[cur[c]], rcvd[cur[c]])
    BY DEF KeyIsOwnFlow
  <2> DEFINE f == rcvd[cur[c]]
  <2>1. PnaInv
    BY IndInvParts
  <2>2. f \in Frame /\ ~RejectedByParser(f)
    BY <2>1, AtWork
  <2>3. TableKey(port[cur[c]], SetMeta(Parsed(f))) = FlowOf(port[cur[c]], f)
    BY <2>2, ParsedKey
  <2>4. hdrMd[c] = Parsed(f) \/ hdrMd[c] = SetMeta(Parsed(f))
    BY <2>1 DEF PnaInv, PnaOK, PnaTyped, ScratchInv
  <2>5. TableKey(port[cur[c]], SetMeta(SetMeta(Parsed(f)))) = TableKey(port[cur[c]], SetMeta(Parsed(f)))
    BY <2>2, ParserResult, SetMetaFields
  <2> QED
    BY <2>3, <2>4, <2>5
<1> QED
  BY <1>1, Invariant, PTL

(***************************************************************************)
(* The deparser never asks bpf_skb_adjust_room for room and never finds    *)
(* the packet too short.                                                   *)
(***************************************************************************)
THEOREM HeadersAlwaysFit == Spec => []HeadersFit
<1>1. IndInv => HeadersFit
  <2> SUFFICES ASSUME IndInv, NEW c \in Cpus, pc[c] # "idle"
               PROVE  /\ OutHeaderLength(hdrMd[c]) = hdrMd[c].offset
                      /\ hdrMd[c].offset <= frame[cur[c]].len
    BY DEF HeadersFit
  <2> DEFINE f == rcvd[cur[c]]
  <2>1. PnaInv
    BY IndInvParts
  <2>2. f \in Frame /\ ~RejectedByParser(f)
    BY <2>1, AtWork
  <2>3. CASE pc[c] = "main"
    <3>1. hdrMd[c] = Parsed(f) /\ frame[cur[c]] = f
      BY <2>1, <2>3, AtWork
    <3> QED
      BY <2>2, <3>1, ParsedLength
  <2>4. CASE pc[c] = "ct_flow_miss"
    <3>1. /\ hdrMd[c] = SetMeta(Parsed(f)) /\ frame[cur[c]] = RestoreEtherType(f)
          /\ ~MetadataFails(f)
      BY <2>1, <2>4 DEF PnaInv, ScratchInv
    <3>2. RestoreEtherType(f).len = f.len
      BY <2>2, <3>1, WriteBack
    <3> QED
      BY <2>2, <3>1, <3>2, ParsedLength
  <2> QED
    BY <2>1, <2>3, <2>4 DEF PnaInv, PnaOK, PnaTyped
<1> QED
  BY <1>1, Invariant, PTL

(***************************************************************************)
(* A packet is dropped only if the parser or the metadata check rejects it *)
(* as received.                                                            *)
(***************************************************************************)
THEOREM OnlyRejectedDropped == Spec => []DropsOnlyRejected
<1>1. IndInv => DropsOnlyRejected
  BY DEF IndInv, SkbInv, DropsOnlyRejected
<1> QED
  BY <1>1, Invariant, PTL

(***************************************************************************)
(* The stack receives accepted packets only, bit for bit as they came.     *)
(***************************************************************************)
THEOREM DeliveredUnchanged == Spec => []DeliversUnchanged
<1>1. IndInv => DeliversUnchanged
  BY DEF IndInv, SkbInv, DeliversUnchanged
<1> QED
  BY <1>1, Invariant, PTL

-----------------------------------------------------------------------------
(***************************************************************************)
(* The refinement: the flow tracker implements Tracker.  The initial       *)
(* states map to initial states, and each step of a CPU, a timer or the    *)
(* control plane to a step of Tracker or to none.                          *)
(***************************************************************************)

(***************************************************************************)
(* What IndInv does not say and the mapping needs: a packet whose CPU is   *)
(* about to run ct_flow_miss has not been tracked yet.                     *)
(***************************************************************************)
PendingInv ==
  \A c \in Cpus : pc[c] = "ct_flow_miss" => ~cb[cur[c]].pass_to_kernel

-----------------------------------------------------------------------------
(* PendingInv *)

(***************************************************************************)
(* A CPU that is done with its packet touches no other CPU's packet.       *)
(***************************************************************************)
LEMMA LeavePending ==
  ASSUME PnaInv, PendingInv, NEW c \in Cpus, pc[c] # "idle", NEW l, NEW f, NEW b, NEW md,
         Leave(c, l, f, b, md)
  PROVE  PendingInv'
<1>1. /\ cb' = [cb EXCEPT ![cur[c]] = b]
      /\ pc' = [pc EXCEPT ![c] = "idle"]
      /\ cur' = [cur EXCEPT ![c] = NoSkb]
  BY DEF Leave
<1> SUFFICES ASSUME NEW d \in Cpus, pc'[d] = "ct_flow_miss"
             PROVE  ~cb'[cur'[d]].pass_to_kernel
  BY DEF PendingInv
<1>2. d # c /\ pc[d] = "ct_flow_miss" /\ cur'[d] = cur[d]
  BY <1>1 DEF PnaInv, PnaOK, PnaTyped
<1>3. cur[d] \in Skbs /\ cur[d] # cur[c]
  BY <1>2 DEF PnaInv, CpuInv
<1>4. cb'[cur[d]] = cb[cur[d]]
  BY <1>1, <1>3 DEF PnaInv, PnaOK, PnaTyped
<1> QED
  BY <1>2, <1>4 DEF PendingInv

(***************************************************************************)
(* The packets that the main block lets go, on a hit and after             *)
(* ct_flow_miss, are back at their ingress as they came, marked for the    *)
(* kernel.                                                                 *)
(***************************************************************************)
LEMMA MainLeaves ==
  ASSUME PnaInv, NEW c \in Cpus, Hit(c) \/ ct_flow_miss(c)
  PROVE  /\ pc[c] # "idle" /\ ~Rejected(rcvd[cur[c]])
         /\ Leave(c, "ingress", rcvd[cur[c]],
                  [drop |-> FALSE, egress_port |-> 0, pass_to_kernel |-> TRUE],
                  Converted(SetMeta(Parsed(rcvd[cur[c]]))))
<1> DEFINE f == rcvd[cur[c]]
<1>1. CASE Hit(c)
  <2>1. pc[c] = "main" /\ ~MetadataFails(frame[cur[c]])
    BY <1>1 DEF Hit, EntersMain
  <2>2. hdrMd[c] = Parsed(f) /\ frame[cur[c]] = f
    BY <2>1, AtWork
  <2>3. Finish(c, RestoreEtherType(f), SetMeta(Parsed(f))) /\ ~MetadataFails(f)
    BY <1>1, <2>1, <2>2 DEF Hit
  <2> QED
    BY <2>1, <2>3, AtWork, FinishResult DEF Rejected
<1>2. CASE ct_flow_miss(c)
  <2>1. pc[c] = "ct_flow_miss"
    BY <1>2 DEF ct_flow_miss
  <2>2. /\ ~MetadataFails(f)
        /\ hdrMd[c] = SetMeta(Parsed(f))
        /\ frame[cur[c]] = RestoreEtherType(f)
    BY <2>1 DEF PnaInv, ScratchInv
  <2>3. Finish(c, RestoreEtherType(f), SetMeta(Parsed(f)))
    BY <1>2, <2>2 DEF ct_flow_miss
  <2> QED
    BY <2>1, <2>2, <2>3, AtWork, FinishResult DEF Rejected
<1> QED
  BY <1>1, <1>2

(***************************************************************************)
(* Every step keeps PendingInv.                                            *)
(***************************************************************************)
LEMMA NextPending ==
  ASSUME IndInv, PendingInv, [Next]_vars
  PROVE  PendingInv'
<1>1. PnaInv
  BY IndInvParts
<1>2. ASSUME NEW s \in Skbs, Receive(s)
      PROVE  PendingInv'
  BY <1>2 DEF Receive, Arrive, PendingInv
<1>3. ASSUME NEW c \in Cpus, NEW s \in Skbs, Parse(c, s)
      PROVE  PendingInv'
  <2> DEFINE r == run_parser(frame[s], hdrMd[c])
  <2>1. TcParseFunc(c, s, r)
    BY <1>3 DEF Parse
  <2> HIDE DEF r
  <2>2. /\ cb' = cb
        /\ \/ pc' = pc /\ cur' = cur
           \/ pc' = [pc EXCEPT ![c] = "main"] /\ cur' = [cur EXCEPT ![c] = s]
    BY <2>1 DEF TcParseFunc
  <2> QED
    BY <1>1, <2>2 DEF PendingInv, PnaInv, PnaOK, PnaTyped
<1>4. ASSUME NEW c \in Cpus, IngressEarly(c)
      PROVE  PendingInv'
  <2>1. pc[c] # "idle" /\ \E l \in {"stack", "dropped"} : Leave(c, l, frame[cur[c]], cb[cur[c]], hdrMd[c])
    BY <1>4 DEF IngressEarly, EarlyReturn, PassToKernel, MetadataShot
  <2> QED
    BY <1>1, <2>1, LeavePending
<1>5. ASSUME NEW c \in Cpus, Hit(c) \/ ct_flow_miss(c)
      PROVE  PendingInv'
  BY <1>1, <1>5, MainLeaves, LeavePending
<1>6. ASSUME NEW c \in Cpus, Miss(c)
      PROVE  PendingInv'
  <2>1. /\ ~cb[cur[c]].pass_to_kernel
        /\ pc' = [pc EXCEPT ![c] = "ct_flow_miss"] /\ cb' = cb /\ cur' = cur
    BY <1>6 DEF Miss, EntersMain
  <2> QED
    BY <1>1, <2>1 DEF PendingInv, PnaInv, PnaOK, PnaTyped
<1>7. CASE UNCHANGED pnaVars
  BY <1>7 DEF pnaVars, PendingInv
<1>8. Tick \/ (\E k : Expire(k) \/ CtrlDelete(k) \/ CtrlCreate(k)) \/ UNCHANGED vars => UNCHANGED pnaVars
  BY DEF Tick, Expire, CtrlDelete, CtrlCreate, vars
<1> QED
  BY <1>2, <1>3, <1>4, <1>5, <1>6, <1>7, <1>8 DEF Next, Main
-----------------------------------------------------------------------------
(* The mapping *)

(***************************************************************************)
(* A step that changes no packet in a way that Tracker sees.               *)
(***************************************************************************)
LEMMA SamePkts ==
  ASSUME \A s \in Skbs : PktOf(loc'[s], port'[s], rcvd'[s]) = PktOf(loc[s], port[s], rcvd[s])
  PROVE  AbstractPkt' = AbstractPkt
BY DEF AbstractPkt

(***************************************************************************)
(* A step that changes no fate.                                            *)
(***************************************************************************)
LEMMA SameFates ==
  ASSUME \A s \in Skbs : FateOf(loc'[s], cb'[s]) = FateOf(loc[s], cb[s])
  PROVE  AbstractFate' = AbstractFate
BY DEF AbstractFate

(***************************************************************************)
(* The fate of one packet changes.                                         *)
(***************************************************************************)
LEMMA NewFate ==
  ASSUME NEW q \in Skbs, NEW x, FateOf(loc'[q], cb'[q]) = x,
         \A s \in Skbs : s # q => loc'[s] = loc[s] /\ cb'[s] = cb[s]
  PROVE  AbstractFate' = [AbstractFate EXCEPT ![q] = x]
BY DEF AbstractFate

(***************************************************************************)
(* A packet that has been received keeps its flow.                         *)
(***************************************************************************)
LEMMA KeptPkts ==
  ASSUME port' = port, rcvd' = rcvd,
         \A s \in Skbs : loc'[s] = "new" <=> loc[s] = "new"
  PROVE  AbstractPkt' = AbstractPkt
<1>1. ASSUME NEW s \in Skbs
      PROVE  PktOf(loc'[s], port'[s], rcvd'[s]) = PktOf(loc[s], port[s], rcvd[s])
  BY DEF PktOf
<1> QED
  BY <1>1, SamePkts

(***************************************************************************)
(* A CPU that lets its packet go to l marked b.                            *)
(***************************************************************************)
LEMMA LeaveMaps ==
  ASSUME PnaInv, NEW c \in Cpus, pc[c] # "idle",
         NEW l \in {"ingress", "stack", "dropped"}, NEW f, NEW b, NEW md,
         Leave(c, l, f, b, md)
  PROVE  /\ AbstractPkt' = AbstractPkt
         /\ AbstractFate' = [AbstractFate EXCEPT ![cur[c]] = FateOf(l, b)]
<1>1. cur[c] \in Skbs /\ loc[cur[c]] = "cpu"
  BY AtWork
<1>2. /\ loc' = [loc EXCEPT ![cur[c]] = l]
      /\ cb' = [cb EXCEPT ![cur[c]] = b]
      /\ port' = port /\ rcvd' = rcvd
  BY DEF Leave
<1>3. loc'[cur[c]] = l /\ cb'[cur[c]] = b
  BY <1>1, <1>2 DEF PnaInv, PnaOK, PnaTyped
<1>4. \A s \in Skbs : s # cur[c] => loc'[s] = loc[s] /\ cb'[s] = cb[s]
  BY <1>1, <1>2 DEF PnaInv, PnaOK, PnaTyped
<1>5. \A s \in Skbs : loc'[s] = "new" <=> loc[s] = "new"
  BY <1>1, <1>3, <1>4
<1> QED
  BY <1>1, <1>2, <1>3, <1>4, <1>5, KeptPkts, NewFate

(***************************************************************************)
(* What Tracker sees of a packet at work.                                  *)
(***************************************************************************)
LEMMA PktAtWork ==
  ASSUME PnaInv, NEW c \in Cpus, pc[c] # "idle"
  PROVE  /\ AbstractPkt[cur[c]] = IF Rejected(rcvd[cur[c]]) THEN <<"none">>
                                  ELSE <<"flow", FlowOf(port[cur[c]], rcvd[cur[c]])>>
         /\ AbstractFate[cur[c]] = IF cb[cur[c]].pass_to_kernel THEN "tracked" ELSE "pending"
<1>1. cur[c] \in Skbs /\ loc[cur[c]] = "cpu"
  BY AtWork
<1> QED
  BY <1>1 DEF AbstractPkt, AbstractFate, PktOf, FateOf

(***************************************************************************)
(* Tracker counts its flows the way the table counts its entries.          *)
(***************************************************************************)
LEMMA SameCount ==
  ASSUME NEW S
  PROVE  T!Cardinality(S) = Cardinality(S)
BY DEF Cardinality, T!Cardinality

-----------------------------------------------------------------------------
(* The steps *)

(***************************************************************************)
(* No packet and no flow at first.                                         *)
(***************************************************************************)
LEMMA InitMaps == Init => T!Init
<1> SUFFICES ASSUME Init
             PROVE  T!Init
  OBVIOUS
<1>1. \A s \in Skbs : loc[s] = "new" /\ cb[s].pass_to_kernel = FALSE
  BY DEF Init, PnaInit, ZeroCb
<1>2. AbstractPkt = [s \in Skbs |-> <<>>]
  BY <1>1 DEF AbstractPkt, PktOf
<1>3. AbstractFate = [s \in Skbs |-> "pending"]
  BY <1>1 DEF AbstractFate, FateOf
<1>4. DOMAIN table = {}
  BY DEF Init
<1> QED
  BY <1>2, <1>3, <1>4 DEF T!Init, T!NotYet

(***************************************************************************)
(* A packet arrives with its flow, or without one.                         *)
(***************************************************************************)
LEMMA ReceiveMaps ==
  ASSUME PnaInv, NEW s \in Skbs, Receive(s)
  PROVE  T!Receive(s)
<1>1. PICK p \in Ports, f \in Frames : Arrive(s, p, f)
  BY DEF Receive
<1>2. /\ loc[s] = "new"
      /\ loc' = [loc EXCEPT ![s] = "ingress"]
      /\ port' = [port EXCEPT ![s] = p]
      /\ rcvd' = [rcvd EXCEPT ![s] = f]
      /\ cb' = cb /\ table' = table
  BY <1>1 DEF Receive, Arrive
<1>3. \A t \in Skbs : t # s => loc'[t] = loc[t] /\ port'[t] = port[t] /\ rcvd'[t] = rcvd[t]
  BY <1>2 DEF PnaInv, PnaOK, PnaTyped
<1>4. loc'[s] = "ingress" /\ port'[s] = p /\ rcvd'[s] = f
  BY <1>2 DEF PnaInv, PnaOK, PnaTyped
<1>5. FlowOf(p, f) \in Key
  BY PortsAssumption, FramesAssumption, FlowIsKey
<1>6. AbstractPkt[s] = <<>>
  BY <1>2 DEF AbstractPkt, PktOf
<1>7. AbstractPkt'[s] = <<"none">> \/ AbstractPkt'[s] \in {"flow"} \X Key
  <2>1. AbstractPkt'[s] = PktOf("ingress", p, f)
    BY <1>4 DEF AbstractPkt
  <2> QED
    BY <1>5, <2>1 DEF PktOf
<1>8. AbstractPkt' = [AbstractPkt EXCEPT ![s] = AbstractPkt'[s]]
  BY <1>3 DEF AbstractPkt
<1>9. AbstractFate' = AbstractFate
  <2>1. FateOf(loc'[s], cb'[s]) = FateOf(loc[s], cb[s])
    BY <1>2, <1>4 DEF FateOf
  <2> QED
    BY <1>2, <1>3, <2>1, SameFates
<1> QED
  BY <1>2, <1>6, <1>7, <1>8, <1>9 DEF T!Receive, T!NotYet, T!NoFlow

(***************************************************************************)
(* tc_parse_func drops a packet without a flow, which cannot have been     *)
(* tracked before; any other it takes to a CPU, for the first time or for  *)
(* the second.                                                             *)
(***************************************************************************)
LEMMA ParseMaps ==
  ASSUME PnaInv, NEW c \in Cpus, NEW s \in Skbs, Parse(c, s)
  PROVE  T!Discard(s) \/ UNCHANGED T!vars
<1> DEFINE r == run_parser(frame[s], hdrMd[c])
<1>1. loc[s] = "ingress" /\ frame[s] = rcvd[s] /\ rcvd[s] \in Frame
  BY DEF Parse, TcParseFunc, PnaInv, PnaOK, PnaTyped, SkbInv
<1>2. ~RejectedByParser(rcvd[s]) => r.ret # TC_ACT_SHOT
  BY <1>1, ParserResult DEF TC_ACT_SHOT, Continue
<1>3. TcParseFunc(c, s, r) /\ table' = table
  BY DEF Parse
<1> HIDE DEF r
<1>4. port' = port /\ cb' = cb /\ rcvd' = rcvd
  BY <1>3 DEF TcParseFunc
<1>5. CASE r.ret = TC_ACT_SHOT
  <2>1. loc' = [loc EXCEPT ![s] = "dropped"]
    BY <1>3, <1>5 DEF TcParseFunc
  <2>2. loc'[s] = "dropped" /\ \A t \in Skbs : t # s => loc'[t] = loc[t]
    BY <2>1 DEF PnaInv, PnaOK, PnaTyped
  <2>3. Rejected(rcvd[s])
    BY <1>2, <1>5 DEF Rejected
  <2>4. ~cb[s].pass_to_kernel
    BY <2>3 DEF PnaInv, SkbInv
  <2>5. AbstractPkt[s] = <<"none">> /\ AbstractFate[s] = "pending"
    BY <1>1, <2>3, <2>4 DEF AbstractPkt, AbstractFate, PktOf, FateOf
  <2>6. AbstractPkt' = AbstractPkt
    BY <1>1, <1>4, <2>2, KeptPkts
  <2>7. FateOf("dropped", cb'[s]) = "dropped"
    BY DEF FateOf
  <2>8. AbstractFate' = [AbstractFate EXCEPT ![s] = "dropped"]
    BY <1>4, <2>2, <2>7, NewFate
  <2> QED
    BY <1>3, <2>5, <2>6, <2>8 DEF T!Discard, T!NoFlow
<1>6. CASE r.ret # TC_ACT_SHOT
  <2>1. loc' = [loc EXCEPT ![s] = "cpu"]
    BY <1>3, <1>6 DEF TcParseFunc
  <2>2. loc'[s] = "cpu" /\ \A t \in Skbs : t # s => loc'[t] = loc[t]
    BY <2>1 DEF PnaInv, PnaOK, PnaTyped
  <2>3. AbstractPkt' = AbstractPkt
    BY <1>1, <1>4, <2>2, KeptPkts
  <2>4. FateOf("cpu", cb[s]) = FateOf("ingress", cb[s])
    BY DEF FateOf
  <2>5. AbstractFate' = AbstractFate
    BY <1>1, <1>4, <2>2, <2>4, SameFates
  <2> QED
    BY <1>3, <2>3, <2>5 DEF T!vars
<1> QED
  BY <1>5, <1>6
(***************************************************************************)
(* tc_ingress_func delivers a packet that it finds marked, and drops one   *)
(* that is too short for its metadata.                                     *)
(***************************************************************************)
LEMMA IngressEarlyMaps ==
  ASSUME PnaInv, NEW c \in Cpus, IngressEarly(c)
  PROVE  T!Deliver(cur[c]) \/ T!Discard(cur[c])
<1> DEFINE q == cur[c]
<1>1. pc[c] = "main" /\ table' = table
  BY DEF IngressEarly, EarlyReturn, PassToKernel, MetadataShot
<1>2. q \in Skbs /\ frame[q] = rcvd[q]
  BY <1>1, AtWork
<1>3. CASE PassToKernel(c)
  <2>1. cb[q].pass_to_kernel /\ Leave(c, "stack", frame[q], cb[q], hdrMd[c])
    BY <1>3 DEF PassToKernel
  <2>2. AbstractFate[q] = "tracked"
    BY <1>1, <2>1, PktAtWork
  <2>3. FateOf("stack", cb[q]) = "delivered"
    BY DEF FateOf
  <2>4. AbstractPkt' = AbstractPkt /\ AbstractFate' = [AbstractFate EXCEPT ![q] = FateOf("stack", cb[q])]
    BY <1>1, <2>1, LeaveMaps
  <2> QED
    BY <1>1, <2>2, <2>3, <2>4 DEF T!Deliver
<1>4. CASE MetadataShot(c)
  <2>1. /\ ~cb[q].pass_to_kernel /\ MetadataFails(frame[q])
        /\ Leave(c, "dropped", frame[q], cb[q], hdrMd[c])
    BY <1>4 DEF MetadataShot
  <2>2. Rejected(rcvd[q])
    BY <1>2, <2>1 DEF Rejected
  <2>3. AbstractPkt[q] = <<"none">> /\ AbstractFate[q] = "pending"
    BY <1>1, <2>1, <2>2, PktAtWork
  <2>4. FateOf("dropped", cb[q]) = "dropped"
    BY DEF FateOf
  <2>5. AbstractPkt' = AbstractPkt /\ AbstractFate' = [AbstractFate EXCEPT ![q] = FateOf("dropped", cb[q])]
    BY <1>1, <2>1, LeaveMaps
  <2> QED
    BY <1>1, <2>3, <2>4, <2>5 DEF T!Discard, T!NoFlow
<1> QED
  BY <1>3, <1>4 DEF IngressEarly, EarlyReturn

(***************************************************************************)
(* A packet that the main block lets go is tracked, if the table has then  *)
(* changed as Tracker says.                                                *)
(***************************************************************************)
LEMMA MainTracks ==
  ASSUME PnaInv, NEW c \in Cpus, Hit(c) \/ ct_flow_miss(c), ~cb[cur[c]].pass_to_kernel,
         DOMAIN table' = IF Cardinality(DOMAIN table) >= TEntries THEN DOMAIN table
                         ELSE DOMAIN table \cup {FlowOf(port[cur[c]], rcvd[cur[c]])}
  PROVE  T!Track(cur[c])
<1> DEFINE q == cur[c]
           k == FlowOf(port[q], rcvd[q])
           b == [drop |-> FALSE, egress_port |-> 0, pass_to_kernel |-> TRUE]
<1>1. /\ pc[c] # "idle" /\ ~Rejected(rcvd[q])
      /\ Leave(c, "ingress", rcvd[q], b, Converted(SetMeta(Parsed(rcvd[q]))))
  BY MainLeaves
<1>2. AbstractPkt[q] = <<"flow", k>> /\ AbstractFate[q] = "pending"
  BY <1>1, PktAtWork
<1>3. FateOf("ingress", b) = "tracked"
  BY DEF FateOf
<1> HIDE DEF b, k
<1>4. AbstractPkt' = AbstractPkt /\ AbstractFate' = [AbstractFate EXCEPT ![q] = FateOf("ingress", b)]
  BY <1>1, LeaveMaps
<1>5. AbstractPkt[q] \notin {<<>>, <<"none">>} /\ AbstractPkt[q][2] = k
  BY <1>2
<1>6. DOMAIN table' = IF Cardinality(DOMAIN table) >= TEntries THEN DOMAIN table ELSE DOMAIN table \cup {k}
  BY DEF k
<1> QED
  BY <1>2, <1>3, <1>4, <1>5, <1>6, SameCount DEF T!Track, T!NotYet, T!NoFlow

(***************************************************************************)
(* A flow that is found is in the table: nothing more needs to be entered. *)
(***************************************************************************)
LEMMA HitMaps ==
  ASSUME PnaInv, NEW c \in Cpus, Hit(c)
  PROVE  T!Track(cur[c])
<1> DEFINE q == cur[c]
           k == TableKey(port[q], SetMeta(hdrMd[c]))
<1>1. pc[c] = "main" /\ ~cb[q].pass_to_kernel
  BY DEF Hit, EntersMain
<1>2. hdrMd[c] = Parsed(rcvd[q]) /\ rcvd[q] \in Frame /\ ~RejectedByParser(rcvd[q]) /\ port[q] \in Nat
  BY <1>1, AtWork
<1>3. k = FlowOf(port[q], rcvd[q])
  BY <1>2, ParsedKey
<1>4. k \in DOMAIN table /\ table' = Refresh(table, k)
  BY DEF Hit
<1> HIDE DEF k
<1>5. DOMAIN table' = DOMAIN table \cup {k}
  BY <1>4 DEF Refresh, Put
<1>6. DOMAIN table' = DOMAIN table
  BY <1>4, <1>5
<1> QED
  BY <1>1, <1>3, <1>5, <1>6, MainTracks

(***************************************************************************)
(* ct_flow_miss enters the flow, unless the table is full; if the flow has *)
(* been entered since the lookup, by another CPU or by the control plane,  *)
(* the failure that the program ignores makes no difference.               *)
(***************************************************************************)
LEMMA FlowMissMaps ==
  ASSUME PnaInv, PendingInv, NEW c \in Cpus, ct_flow_miss(c)
  PROVE  T!Track(cur[c])
<1> DEFINE q == cur[c]
           k == TableKey(port[q], hdrMd[c])
<1>1. pc[c] = "ct_flow_miss" /\ table' = CreateOnMiss(table, k)
  BY DEF ct_flow_miss
<1>2. ~cb[q].pass_to_kernel
  BY <1>1 DEF PendingInv
<1>3. hdrMd[c] = SetMeta(Parsed(rcvd[q])) /\ rcvd[q] \in Frame /\ ~RejectedByParser(rcvd[q]) /\ port[q] \in Nat
  BY <1>1, AtWork DEF PnaInv, ScratchInv
<1>4. k = FlowOf(port[q], rcvd[q])
  BY <1>3, ParsedKey
<1> HIDE DEF k
<1>5. DOMAIN Put(table, k, NewEntry) = DOMAIN table \cup {k}
  BY DEF Put
<1>6. DOMAIN table' = IF Cardinality(DOMAIN table) >= TEntries THEN DOMAIN table ELSE DOMAIN table \cup {k}
  BY <1>1, <1>5 DEF CreateOnMiss
<1> QED
  BY <1>2, <1>4, <1>6, MainTracks

(***************************************************************************)
(* The lookup that misses decides nothing yet.                             *)
(***************************************************************************)
LEMMA MissMaps ==
  ASSUME PnaInv, NEW c \in Cpus, Miss(c)
  PROVE  UNCHANGED T!vars
<1>1. loc' = loc /\ port' = port /\ cb' = cb /\ rcvd' = rcvd /\ table' = table
  BY DEF Miss
<1> QED
  BY <1>1 DEF T!vars, AbstractPkt, AbstractFate

(***************************************************************************)
(* Timers and control plane forget flows, or enter some of their own.      *)
(***************************************************************************)
LEMMA TableMaps ==
  ASSUME \/ Tick
         \/ \E k \in DOMAIN table : Expire(k) \/ CtrlDelete(k)
         \/ \E k \in CtrlKeys : CtrlCreate(k)
  PROVE  T!Forget \/ T!Configure \/ UNCHANGED T!vars
<1>1. UNCHANGED pnaVars
  BY DEF Tick, Expire, CtrlDelete, CtrlCreate
<1>2. AbstractPkt' = AbstractPkt /\ AbstractFate' = AbstractFate
  BY <1>1 DEF pnaVars, AbstractPkt, AbstractFate
<1>3. CASE Tick
  <2>1. DOMAIN table' = DOMAIN table
    BY <1>3 DEF Tick
  <2> QED
    BY <1>2, <2>1 DEF T!vars
<1>4. ASSUME NEW k \in DOMAIN table, Expire(k) \/ CtrlDelete(k)
      PROVE  T!Forget
  <2>1. table' = Remove(table, k)
    BY <1>4 DEF Expire, CtrlDelete
  <2>2. DOMAIN table' = DOMAIN table \ {k}
    BY <2>1 DEF Remove
  <2> QED
    BY <1>2, <2>2 DEF T!Forget
<1>5. ASSUME NEW k \in CtrlKeys, CtrlCreate(k)
      PROVE  T!Configure
  <2>1. Cardinality(DOMAIN table) < TEntries /\ table' = Put(table, k, [age |-> 0, dynamic |-> FALSE])
    BY <1>5 DEF CtrlCreate
  <2>2. DOMAIN table' = DOMAIN table \cup {k}
    BY <2>1 DEF Put
  <2> QED
    BY <1>2, <2>1, <2>2, SameCount DEF T!Configure
<1> QED
  BY <1>3, <1>4, <1>5

(***************************************************************************)
(* Every step of the program is a step of Tracker or none.                 *)
(***************************************************************************)
LEMMA NextMaps ==
  ASSUME IndInv, PendingInv, [Next]_vars
  PROVE  [T!Next]_(T!vars)
<1>1. PnaInv
  BY IndInvParts
<1>2. ASSUME NEW s \in Skbs, Receive(s)
      PROVE  T!Next
  BY <1>1, <1>2, ReceiveMaps DEF T!Next
<1>3. ASSUME NEW c \in Cpus, NEW s \in Skbs, Parse(c, s)
      PROVE  T!Next \/ UNCHANGED T!vars
  BY <1>1, <1>3, ParseMaps DEF T!Next
<1>4. ASSUME NEW c \in Cpus, Main(c)
      PROVE  T!Next \/ UNCHANGED T!vars
  <2>1. pc[c] # "idle"
    BY <1>4 DEF Main, IngressEarly, EarlyReturn, PassToKernel, MetadataShot, Hit, Miss, EntersMain,
                ct_flow_miss
  <2>2. cur[c] \in Skbs
    BY <1>1, <2>1, AtWork
  <2>3. \/ T!Deliver(cur[c]) \/ T!Discard(cur[c]) \/ T!Track(cur[c])
        \/ UNCHANGED T!vars
    BY <1>1, <1>4, IngressEarlyMaps, HitMaps, MissMaps, FlowMissMaps DEF Main
  <2> QED
    BY <2>2, <2>3 DEF T!Next
<1>5. CASE \/ Tick
           \/ \E k \in DOMAIN table : Expire(k) \/ CtrlDelete(k)
           \/ \E k \in CtrlKeys : CtrlCreate(k)
  BY <1>5, TableMaps DEF T!Next
<1>6. CASE UNCHANGED vars
  BY <1>6 DEF vars, pnaVars, T!vars, AbstractPkt, AbstractFate
<1> QED
  BY <1>2, <1>3, <1>4, <1>5, <1>6 DEF Next

(***************************************************************************)
(* For any number of CPUs and packets, any contents and any table size,    *)
(* flowtracker is a Tracker: although it looks a flow up and enters it in  *)
(* two steps and ignores whether that succeeded, each packet is tracked    *)
(* once, in one step, under its own flow, before it is delivered.          *)
(***************************************************************************)
THEOREM TrackerImplemented == Spec => ImplementsTracker
<1>1. Init => PendingInv
  BY DEF Init, PnaInit, PendingInv
<1>2. IndInv /\ PendingInv /\ [Next]_vars => PendingInv'
  BY NextPending
<1>3. IndInv /\ PendingInv /\ [Next]_vars => [T!Next]_(T!vars)
  BY NextMaps
<1> QED
  BY <1>1, <1>2, <1>3, InitMaps, Invariant, PTL DEF Spec, ImplementsTracker, T!Spec

-----------------------------------------------------------------------------
(***************************************************************************)
(* flowtracker_ipv6.  The argument is the same, with headers of 40 bytes,  *)
(* the constants of FlowTrackerIpv6, and a word of bit fields in front.    *)
(* The names are those of flowtracker with a 6.                            *)
(***************************************************************************)

(***************************************************************************)
(* What FlowTracker says of flowtracker, said of flowtracker_ipv6.         *)
(***************************************************************************)
TableSound6 ==
  \A k \in DOMAIN table :
    \/ k \in CtrlKeys6
    \/ \E s \in Skbs : /\ loc[s] # "new"
                       /\ ~Rejected6(rcvd[s])
                       /\ k = FlowOf6(port[s], rcvd[s])

KeyIsOwnFlow6 ==
  \A c \in Cpus : pc[c] # "idle" =>
    TableKey6(port[cur[c]], SetMeta6(hdrMd[c])) = FlowOf6(port[cur[c]], rcvd[cur[c]])

HeadersFit6 ==
  \A c \in Cpus : pc[c] # "idle" =>
    /\ OutHeaderLength6(hdrMd[c]) = hdrMd[c].offset
    /\ hdrMd[c].offset <= frame[cur[c]].len

DropsOnlyRejected6 ==
  \A s \in Skbs : loc[s] = "dropped" => Rejected6(rcvd[s])

-----------------------------------------------------------------------------
(* Bit fields *)

Nibble == 0 .. 15

(***************************************************************************)
(* The bits of a nibble, alone and as the upper half of a byte.            *)
(***************************************************************************)
LEMMA NibbleInByte ==
  ASSUME NEW n \in Nibble
  PROVE  /\ \A i \in 0 .. 7 : Bit(n, i) \in {0, 1} /\ Bit(16 * n, i) \in {0, 1}
         /\ Bit(n, 4) = 0 /\ Bit(n, 5) = 0 /\ Bit(n, 6) = 0 /\ Bit(n, 7) = 0
         /\ Bit(16 * n, 0) = 0 /\ Bit(16 * n, 1) = 0 /\ Bit(16 * n, 2) = 0 /\ Bit(16 * n, 3) = 0
         /\ Bit(n, 0) + 2 * Bit(n, 1) + 4 * Bit(n, 2) + 8 * Bit(n, 3) = n
         /\ Bit(16 * n, 4) + 2 * Bit(16 * n, 5) + 4 * Bit(16 * n, 6) + 8 * Bit(16 * n, 7) = n
<1>1. n \in 0 .. 15
  BY DEF Nibble
<1>2. ASSUME NEW x \in Nat
      PROVE  /\ Bit(x, 0) = x % 2 /\ Bit(x, 1) = (x \div 2) % 2
             /\ Bit(x, 2) = (x \div 4) % 2 /\ Bit(x, 3) = (x \div 8) % 2
             /\ Bit(x, 4) = (x \div 16) % 2 /\ Bit(x, 5) = (x \div 32) % 2
             /\ Bit(x, 6) = (x \div 64) % 2 /\ Bit(x, 7) = (x \div 128) % 2
  <2>1. x \div 1 = x
    OBVIOUS
  <2> QED
    BY <2>1, BitWeights DEF Bit
<1>3. n \in Nat /\ 16 * n \in Nat
  BY <1>1
<1> DEFINE m == 16 * n
<1> HIDE DEF m
<1>4. /\ Bit(n, 0) = n % 2 /\ Bit(n, 1) = (n \div 2) % 2
      /\ Bit(n, 2) = (n \div 4) % 2 /\ Bit(n, 3) = (n \div 8) % 2
      /\ Bit(n, 4) = (n \div 16) % 2 /\ Bit(n, 5) = (n \div 32) % 2
      /\ Bit(n, 6) = (n \div 64) % 2 /\ Bit(n, 7) = (n \div 128) % 2
  BY <1>2, <1>3
<1>5. /\ Bit(m, 0) = m % 2 /\ Bit(m, 1) = (m \div 2) % 2
      /\ Bit(m, 2) = (m \div 4) % 2 /\ Bit(m, 3) = (m \div 8) % 2
      /\ Bit(m, 4) = (m \div 16) % 2 /\ Bit(m, 5) = (m \div 32) % 2
      /\ Bit(m, 6) = (m \div 64) % 2 /\ Bit(m, 7) = (m \div 128) % 2
  BY <1>2, <1>3 DEF m
<1>6. /\ n \div 16 = 0 /\ n \div 32 = 0 /\ n \div 64 = 0 /\ n \div 128 = 0
      /\ m \div 16 = n /\ m \div 32 = n \div 2 /\ m \div 64 = n \div 4 /\ m \div 128 = n \div 8
      /\ m % 2 = 0 /\ (m \div 2) % 2 = 0 /\ (m \div 4) % 2 = 0 /\ (m \div 8) % 2 = 0
  BY <1>1 DEF m
<1>7. /\ Bit(n, 4) = 0 /\ Bit(n, 5) = 0 /\ Bit(n, 6) = 0 /\ Bit(n, 7) = 0
  BY <1>4, <1>6
<1>8. /\ Bit(m, 0) = 0 /\ Bit(m, 1) = 0 /\ Bit(m, 2) = 0 /\ Bit(m, 3) = 0
  BY <1>5, <1>6
<1>9. /\ Bit(m, 4) = Bit(n, 0) /\ Bit(m, 5) = Bit(n, 1)
      /\ Bit(m, 6) = Bit(n, 2) /\ Bit(m, 7) = Bit(n, 3)
  BY <1>4, <1>5, <1>6
<1>10. Bit(n, 0) + 2 * Bit(n, 1) + 4 * Bit(n, 2) + 8 * Bit(n, 3) = n
  <2>1. (n % 2) + 2 * ((n \div 2) % 2) + 4 * ((n \div 4) % 2) + 8 * ((n \div 8) % 2) = n
    BY <1>1
  <2> QED
    BY <1>4, <2>1
<1>11. Bit(n, 0) \in {0, 1} /\ Bit(n, 1) \in {0, 1} /\ Bit(n, 2) \in {0, 1} /\ Bit(n, 3) \in {0, 1}
  <2>1. \A y \in Nat : y % 2 \in {0, 1}
    OBVIOUS
  <2>2. n \div 2 \in Nat /\ n \div 4 \in Nat /\ n \div 8 \in Nat
    BY <1>1
  <2> QED
    BY <1>3, <1>4, <2>1, <2>2
<1>12. \A i \in 0 .. 7 : i = 0 \/ i = 1 \/ i = 2 \/ i = 3 \/ i = 4 \/ i = 5 \/ i = 6 \/ i = 7
  OBVIOUS
<1>13. \A i \in 0 .. 7 : Bit(n, i) \in {0, 1} /\ Bit(m, i) \in {0, 1}
  BY <1>7, <1>8, <1>9, <1>11, <1>12
<1> QED
  BY <1>7, <1>8, <1>9, <1>10, <1>13 DEF m

(***************************************************************************)
(* Or of a byte whose lower nibble is zero and one whose upper is.         *)
(***************************************************************************)
LEMMA OrNibbles ==
  ASSUME NEW a \in Nibble, NEW b \in Nibble, NEW x, NEW y,
         (x = 16 * a /\ y = b) \/ (x = b /\ y = 16 * a)
  PROVE  Bitwise2(OrBit, 8, x, y) = 16 * a + b
<1> DEFINE p == [i \in 0 .. 7 |-> OrBit(Bit(x, i), Bit(y, i))]
           F(f) == f = [i \in 0 .. 8 |-> IF i = 0 THEN 0
                                         ELSE f[i - 1] + 2^(i - 1) * OrBit(Bit(x, i - 1), Bit(y, i - 1))]
           h == CHOOSE f : F(f)
<1>1. \A c, d \in {0, 1} : OrBit(c, d) \in {0, 1} /\ OrBit(c, 0) = c /\ OrBit(0, d) = d
  BY DEF OrBit
<1>2. /\ p[0] = Bit(b, 0) /\ p[1] = Bit(b, 1) /\ p[2] = Bit(b, 2) /\ p[3] = Bit(b, 3)
      /\ p[4] = Bit(16 * a, 4) /\ p[5] = Bit(16 * a, 5) /\ p[6] = Bit(16 * a, 6) /\ p[7] = Bit(16 * a, 7)
  <2>1. \A i \in 0 .. 7 : p[i] = OrBit(Bit(x, i), Bit(y, i))
    OBVIOUS
  <2>2. \A i \in 0 .. 3 : p[i] = Bit(b, i)
    <3> SUFFICES ASSUME NEW i \in 0 .. 3
                 PROVE  p[i] = Bit(b, i)
      OBVIOUS
    <3>1. Bit(16 * a, i) = 0 /\ Bit(b, i) \in {0, 1} /\ i \in 0 .. 7
      <4>1. i = 0 \/ i = 1 \/ i = 2 \/ i = 3
        OBVIOUS
      <4> QED
        BY <4>1, NibbleInByte
    <3> HIDE DEF p
    <3> QED
      BY <1>1, <2>1, <3>1
  <2>3. \A i \in 4 .. 7 : p[i] = Bit(16 * a, i)
    <3> SUFFICES ASSUME NEW i \in 4 .. 7
                 PROVE  p[i] = Bit(16 * a, i)
      OBVIOUS
    <3>1. Bit(b, i) = 0 /\ Bit(16 * a, i) \in {0, 1} /\ i \in 0 .. 7
      <4>1. i = 4 \/ i = 5 \/ i = 6 \/ i = 7
        OBVIOUS
      <4> QED
        BY <4>1, NibbleInByte
    <3> HIDE DEF p
    <3> QED
      BY <1>1, <2>1, <3>1
  <2> HIDE DEF p
  <2> QED
    BY <2>2, <2>3
<1>3. ASSUME NEW f
      PROVE  F(f) <=> AddsUp(f, p, 8)
  <2>1. \A i \in 0 .. 8 : i # 0 => p[i - 1] = OrBit(Bit(x, i - 1), Bit(y, i - 1))
    OBVIOUS
  <2> HIDE DEF p
  <2>2. [i \in 0 .. 8 |-> IF i = 0 THEN 0 ELSE f[i - 1] + 2^(i - 1) * p[i - 1]]
          = [i \in 0 .. 8 |-> IF i = 0 THEN 0
                              ELSE f[i - 1] + 2^(i - 1) * OrBit(Bit(x, i - 1), Bit(y, i - 1))]
    BY <2>1, Zenon
  <2> QED
    BY <2>2, Zenon DEF AddsUp
<1> HIDE DEF p, F
<1>4. \E f : F(f)
  BY <1>3, SumExists DEF HasSum
<1>5. F(h)
  BY <1>4, Zenon
<1>6. Bitwise2(OrBit, 8, x, y) = h[8]
  BY DEF Bitwise2, F
<1> HIDE DEF h
<1>7. \A i \in 0 .. 8 : h[i] = IF i = 0 THEN 0 ELSE h[i - 1] + 2^(i - 1) * p[i - 1]
  BY <1>3, <1>5 DEF AddsUp
<1>8. /\ h[0] = 0
      /\ h[1] = h[0] + 2^0 * p[0] /\ h[2] = h[1] + 2^1 * p[1]
      /\ h[3] = h[2] + 2^2 * p[2] /\ h[4] = h[3] + 2^3 * p[3]
      /\ h[5] = h[4] + 2^4 * p[4] /\ h[6] = h[5] + 2^5 * p[5]
      /\ h[7] = h[6] + 2^6 * p[6] /\ h[8] = h[7] + 2^7 * p[7]
  BY <1>7
<1>9. /\ p[0] \in {0, 1} /\ p[1] \in {0, 1} /\ p[2] \in {0, 1} /\ p[3] \in {0, 1}
      /\ p[4] \in {0, 1} /\ p[5] \in {0, 1} /\ p[6] \in {0, 1} /\ p[7] \in {0, 1}
  BY <1>2, NibbleInByte
<1>10. h[4] = p[0] + 2 * p[1] + 4 * p[2] + 8 * p[3] /\ h[4] \in Int
  BY <1>8, <1>9, BitWeights
<1>11. h[8] = h[4] + 16 * (p[4] + 2 * p[5] + 4 * p[6] + 8 * p[7])
  BY <1>8, <1>9, <1>10, BitWeights
<1>12. h[4] = b
  BY <1>2, <1>10, NibbleInByte
<1>13. p[4] + 2 * p[5] + 4 * p[6] + 8 * p[7] = a
  BY <1>2, NibbleInByte
<1>14. a \in Int /\ b \in Int
  BY DEF Nibble
<1> QED
  BY <1>6, <1>11, <1>12, <1>13, <1>14

(***************************************************************************)
(* A byte is two nibbles.                                                  *)
(***************************************************************************)
LEMMA ByteNibbles ==
  ASSUME NEW x \in Byte
  PROVE  x \div 16 \in Nibble /\ x % 16 \in Nibble /\ x = 16 * (x \div 16) + (x % 16)
BY DEF Byte, Nibble

(***************************************************************************)
(* Two partial writes, the upper nibble and then the lower one, leave      *)
(* nothing of what was in the byte before.                                 *)
(***************************************************************************)
LEMMA NibblesWritten ==
  ASSUME NEW old \in Byte, NEW v \in Byte, NEW w \in Nibble
  PROVE  write_partial(write_partial(old, 4, 4, v), 4, 0, w) = 16 * (v % 16) + w
<1> DEFINE hi == v % 16
           lo == old % 16
<1>1. hi \in Nibble /\ lo \in Nibble
  BY ByteNibbles
<1>2. write_partial(old, 4, 4, v) = 16 * hi + lo
  <2>1. old - ((old \div 16) % 16) * 16 = lo
    BY DEF Byte
  <2>2. (v * 16) % 256 = 16 * hi
    BY DEF Byte
  <2>3. write_partial(old, 4, 4, v) = Bitwise2(OrBit, 8, lo, 16 * hi)
    BY <2>1, <2>2, BitWeights DEF write_partial, LowBits
  <2> HIDE DEF hi, lo
  <2> QED
    BY <1>1, <2>3, OrNibbles
<1> HIDE DEF hi, lo
<1>3. write_partial(16 * hi + lo, 4, 0, w) = 16 * hi + w
  <2> DEFINE z == 16 * hi + lo
  <2>1. z - ((z \div 1) % 16) * 1 = 16 * hi
    BY <1>1 DEF Nibble
  <2>2. (w * 1) % 256 = w
    BY DEF Nibble
  <2> HIDE DEF z
  <2>3. write_partial(z, 4, 0, w) = Bitwise2(OrBit, 8, 16 * hi, w)
    BY <2>1, <2>2, BitWeights DEF write_partial, LowBits
  <2>4. write_partial(z, 4, 0, w) = 16 * hi + w
    BY <1>1, <2>3, OrNibbles
  <2> QED
    BY <2>4 DEF z
<1> QED
  BY <1>2, <1>3 DEF hi

(***************************************************************************)
(* A byte of two nibbles, taken apart.                                     *)
(***************************************************************************)
LEMMA NibbleDiv ==
  ASSUME NEW a \in Nibble, NEW b \in Nibble
  PROVE  /\ 16 * a + b \in Byte
         /\ (16 * a + b) \div 16 = a
         /\ (16 * a + b) % 16 = b
BY DEF Nibble, Byte

(***************************************************************************)
(* A half of four nibbles, taken apart.                                    *)
(***************************************************************************)
LEMMA HalfOfBytes ==
  ASSUME NEW x \in Byte, NEW y \in Byte
  PROVE  /\ 256 * x + y \in U16
         /\ (256 * x + y) \div 256 = x /\ (256 * x + y) % 256 = y
         /\ swab16(x + 256 * y) = 256 * x + y
         /\ swab16(256 * x + y) = x + 256 * y
<1>1. x \in 0 .. 255 /\ y \in 0 .. 255
  BY DEF Byte
<1>2. (256 * x + y) \div 256 = x /\ (256 * x + y) % 256 = y
  BY <1>1
<1>3. (x + 256 * y) \div 256 = y /\ (x + 256 * y) % 256 = x
  BY <1>1
<1>4. swab16(x + 256 * y) = 256 * x + y
  BY <1>1, <1>3 DEF swab16
<1>5. swab16(256 * x + y) = x + 256 * y
  BY <1>1, <1>2 DEF swab16
<1>6. 256 * x + y \in U16
  BY <1>1 DEF U16
<1> QED
  BY <1>2, <1>4, <1>5, <1>6

(***************************************************************************)
(* The bit fields of the first word: version is its first nibble,          *)
(* traffiClass the next two, flowLabel the other five.                     *)
(***************************************************************************)
LEMMA FieldsRead ==
  ASSUME NEW f \in Frame6
  PROVE  /\ Ipv6Of(f).version = f.first[1] \div 16
         /\ Ipv6Of(f).traffiClass = 16 * (f.first[1] % 16) + (f.first[2] \div 16)
         /\ Ipv6Of(f).flowLabel = <<f.first[2] % 16, 256 * f.first[3] + f.first[4]>>
<1> DEFINE f1 == f.first[1]
           f2 == f.first[2]
           f3 == f.first[3]
           f4 == f.first[4]
           p1 == f.payloadLen[1]
           b  == <<f2, f3, f4, p1>>
           w  == load_word(b)
           l  == shr32(w, 8)
<1>1. f1 \in Byte /\ f2 \in Byte /\ f3 \in Byte /\ f4 \in Byte /\ p1 \in Byte
  BY DEF Frame6, Bytes4, Half
<1>2. BitFields(f) = [version |-> LowBits(f1 \div 2^4, 4),
                      traffiClass |-> LowBits(load_half(<<f1, f2>>) \div 2^4, 8),
                      flowLabel |-> <<LowBits(l[1], 4), l[2]>>]
  BY DEF BitFields
<1>3. b[1] = f2 /\ b[2] = f3 /\ b[3] = f4 /\ b[4] = p1
  OBVIOUS
<1> HIDE DEF f1, f2, f3, f4, p1, b
<1>4. w = <<256 * f2 + f3, 256 * f4 + p1>>
  <2>1. w = <<swab16(f2 + 256 * f3), swab16(f4 + 256 * p1)>>
    BY <1>3 DEF load_word, swab32, WordAt
  <2> QED
    BY <1>1, <2>1, HalfOfBytes
<1>5. w[1] = 256 * f2 + f3 /\ w[2] = 256 * f4 + p1
  BY <1>4
<1> HIDE DEF w
<1>6. l[1] = f2 /\ l[2] = f4 + f3 * 256
  <2>1. l = <<w[1] \div 256, w[2] \div 256 + (w[1] % 256) * 256>>
    <3>1. 2^8 = 256 /\ 2^(16 - 8) = 256
      BY BitWeights
    <3> QED
      BY <3>1 DEF shr32
  <2> QED
    BY <1>1, <1>5, <2>1, HalfOfBytes
<1> HIDE DEF l
<1>7. LowBits(f1 \div 2^4, 4) = f1 \div 16
  <2>1. (f1 \div 16) % 16 = f1 \div 16
    BY <1>1 DEF Byte
  <2> QED
    BY <2>1, BitWeights DEF LowBits
<1>8. LowBits(load_half(<<f1, f2>>) \div 2^4, 8) = 16 * (f1 % 16) + (f2 \div 16)
  <2>1. load_half(<<f1, f2>>) = f1 * 256 + f2
    BY DEF load_half
  <2>2. ((f1 * 256 + f2) \div 16) % 256 = 16 * (f1 % 16) + (f2 \div 16)
    BY <1>1 DEF Byte
  <2> QED
    BY <2>1, <2>2, BitWeights DEF LowBits
<1>9. <<LowBits(l[1], 4), l[2]>> = <<f2 % 16, 256 * f3 + f4>>
  <2>1. f4 + f3 * 256 = 256 * f3 + f4
    BY <1>1 DEF Byte
  <2> QED
    BY <1>6, <2>1, BitWeights DEF LowBits
<1>10. /\ BitFields(f).version = f1 \div 16
       /\ BitFields(f).traffiClass = 16 * (f1 % 16) + (f2 \div 16)
       /\ BitFields(f).flowLabel = <<f2 % 16, 256 * f3 + f4>>
  BY <1>2, <1>7, <1>8, <1>9
<1>11. /\ Ipv6Of(f).version = BitFields(f).version
       /\ Ipv6Of(f).traffiClass = BitFields(f).traffiClass
       /\ Ipv6Of(f).flowLabel = BitFields(f).flowLabel
  BY Zenon DEF Ipv6Of
<1> QED
  BY <1>10, <1>11 DEF f1, f2, f3, f4

(***************************************************************************)
(* The label, moved to the left end of the word it is written from.        *)
(***************************************************************************)
LEMMA LabelBytes ==
  ASSUME NEW b \in Nibble, NEW y \in Byte, NEW z \in Byte, NEW v, v = <<b, 256 * y + z>>
  PROVE  /\ emit_word(shl32(v, 12))[1] = 16 * b + (y \div 16)
         /\ emit_word(shl32(v, 12))[2] = 16 * (y % 16) + (z \div 16)
         /\ emit_word(shl32(v, 12))[3] = 16 * (z % 16)
<1> DEFINE x1 == 16 * b + (y \div 16)
           x2 == 16 * (y % 16) + (z \div 16)
           x3 == 16 * (z % 16)
<1>1. y \div 16 \in Nibble /\ y % 16 \in Nibble /\ z \div 16 \in Nibble /\ z % 16 \in Nibble
      /\ 0 \in Nibble
  BY ByteNibbles DEF Nibble
<1>2. x1 \in Byte /\ x2 \in Byte /\ x3 \in Byte
  <2>1. x3 = 16 * (z % 16) + 0
    BY <1>1 DEF Nibble
  <2> QED
    BY <1>1, <2>1, NibbleDiv
<1>3. shl32(v, 12) = <<256 * x1 + x2, 256 * x3 + 0>>
  <2>1. v[1] = b /\ v[2] = 256 * y + z
    OBVIOUS
  <2>2. shl32(v, 12) = <<((b * 4096) % 65536) + (256 * y + z) \div 16, ((256 * y + z) * 4096) % 65536>>
    <3>1. 2^12 = 4096 /\ 2^(16 - 12) = 16
      BY BitWeights
    <3> QED
      BY <2>1, <3>1 DEF shl32
  <2>3. ((b * 4096) % 65536) + (256 * y + z) \div 16 = 256 * x1 + x2
    <3>1. (b * 4096) % 65536 = b * 4096
      BY DEF Nibble
    <3>2. (256 * y + z) \div 16 = 16 * y + (z \div 16)
      BY DEF Byte
    <3>3. y = 16 * (y \div 16) + (y % 16)
      BY ByteNibbles
    <3> QED
      BY <1>1, <3>1, <3>2, <3>3 DEF Nibble
  <2>4. ((256 * y + z) * 4096) % 65536 = 256 * x3 + 0
    BY DEF Byte
  <2> QED
    BY <2>2, <2>3, <2>4
<1> HIDE DEF x1, x2, x3
<1>4. 0 \in Byte
  BY DEF Byte
<1> DEFINE s == shl32(v, 12)
           u == swab32(s)
<1>5. s[1] = 256 * x1 + x2 /\ s[2] = 256 * x3 + 0
  BY <1>3
<1> HIDE DEF s
<1>6. u[1] = swab16(s[2]) /\ u[2] = swab16(s[1])
  BY DEF swab32
<1>7. u[1] = x3 + 256 * 0 /\ u[2] = x1 + 256 * x2
  BY <1>2, <1>4, <1>5, <1>6, HalfOfBytes
<1>8. u[1] % 256 = x3 /\ u[2] % 256 = x1 /\ u[2] \div 256 = x2
  BY <1>2, <1>7 DEF Byte
<1>9. emit_word(s)[1] = u[2] % 256 /\ emit_word(s)[2] = u[2] \div 256 /\ emit_word(s)[3] = u[1] % 256
  BY DEF emit_word, WordBytes
<1> QED
  BY <1>8, <1>9 DEF s, x1, x2, x3

(***************************************************************************)
(* Written over any four bytes, the bit fields of a packet are its first   *)
(* word again.                                                             *)
(***************************************************************************)
LEMMA FieldsWritten ==
  ASSUME NEW f \in Frame6, NEW old \in Bytes4
  PROVE  WriteBitFields(old, Ipv6Of(f)) = f.first
<1> DEFINE h  == Ipv6Of(f)
           f1 == f.first[1]
           f2 == f.first[2]
           f3 == f.first[3]
           f4 == f.first[4]
           l  == emit_word(shl32(h.flowLabel, 12))
<1>1. f1 \in Byte /\ f2 \in Byte /\ f3 \in Byte /\ f4 \in Byte /\ f.first = <<f1, f2, f3, f4>>
  BY DEF Frame6, Bytes4
<1>2. old[1] \in Byte /\ old[2] \in Byte /\ old[3] \in Byte /\ old[4] \in Byte
  BY DEF Bytes4
<1>3. h.version = f1 \div 16 /\ h.traffiClass = 16 * (f1 % 16) + (f2 \div 16)
      /\ h.flowLabel = <<f2 % 16, 256 * f3 + f4>>
  BY FieldsRead
<1> HIDE DEF h, f1, f2, f3, f4
<1>4. /\ f1 \div 16 \in Nibble /\ f1 % 16 \in Nibble /\ f1 = 16 * (f1 \div 16) + (f1 % 16)
      /\ f2 \div 16 \in Nibble /\ f2 % 16 \in Nibble /\ f2 = 16 * (f2 \div 16) + (f2 % 16)
      /\ f3 \div 16 \in Nibble /\ f3 % 16 \in Nibble /\ f3 = 16 * (f3 \div 16) + (f3 % 16)
      /\ f4 \div 16 \in Nibble /\ f4 % 16 \in Nibble /\ f4 = 16 * (f4 \div 16) + (f4 % 16)
  BY <1>1, ByteNibbles
<1>5. l[1] = 16 * (f2 % 16) + (f3 \div 16) /\ l[2] = 16 * (f3 % 16) + (f4 \div 16)
      /\ l[3] = 16 * (f4 % 16)
  BY <1>1, <1>3, <1>4, LabelBytes
<1> HIDE DEF l
<1>6. /\ h.traffiClass \in Byte /\ h.traffiClass \div 16 = f1 % 16 /\ h.traffiClass % 16 = f2 \div 16
      /\ l[1] \in Byte /\ l[1] \div 16 = f2 % 16 /\ l[1] % 16 = f3 \div 16
      /\ l[2] \in Byte /\ l[2] \div 16 = f3 % 16 /\ l[2] % 16 = f4 \div 16
  BY <1>3, <1>4, <1>5, NibbleDiv
<1>7. l[3] \div 16 = f4 % 16
  <2>1. \A n \in Nibble : (16 * n) \div 16 = n
    BY DEF Nibble
  <2> QED
    BY <1>4, <1>5, <2>1
<1>8. h.version \in Byte /\ h.version % 16 = f1 \div 16
  BY <1>3, <1>4 DEF Nibble, Byte
<1>9. /\ write_partial(write_partial(old[1], 4, 4, h.version), 4, 0, h.traffiClass \div 16) = f1
      /\ write_partial(write_partial(old[2], 4, 4, h.traffiClass), 4, 0, l[1] \div 16) = f2
      /\ write_partial(write_partial(old[3], 4, 4, l[1]), 4, 0, l[2] \div 16) = f3
      /\ write_partial(write_partial(old[4], 4, 4, l[2]), 4, 0, l[3] \div 16) = f4
  BY <1>2, <1>4, <1>6, <1>7, <1>8, NibblesWritten
<1>10. WriteBitFields(old, h) =
         <<write_partial(write_partial(old[1], 4, 4, h.version), 4, 0, h.traffiClass \div 16),
           write_partial(write_partial(old[2], 4, 4, h.traffiClass), 4, 0, l[1] \div 16),
           write_partial(write_partial(old[3], 4, 4, l[1]), 4, 0, l[2] \div 16),
           write_partial(write_partial(old[4], 4, 4, l[2]), 4, 0, l[3] \div 16)>>
  BY BitWeights DEF WriteBitFields, l
<1> QED
  BY <1>1, <1>9, <1>10 DEF h

(***************************************************************************)
(* The header extracted, field by field.                                   *)
(***************************************************************************)
LEMMA Ipv6OfFields ==
  ASSUME NEW f \in Frame6
  PROVE  /\ Ipv6Of(f) \in Ipv6Header
         /\ Ipv6Of(f).valid = TRUE
         /\ Ipv6Of(f).payloadLen = load_half(f.payloadLen)
         /\ Ipv6Of(f).nextHdr = f.nextHdr
         /\ Ipv6Of(f).src = f.src /\ Ipv6Of(f).dst = f.dst
<1>1. f.src \in Nat /\ f.dst \in Nat /\ f.nextHdr \in Byte /\ f.payloadLen \in Half /\ f.first \in Bytes4
  BY DEF Frame6
<1>2. f.first[1] \in Byte /\ f.first[2] \in Byte /\ f.first[3] \in Byte /\ f.first[4] \in Byte
  BY <1>1 DEF Bytes4
<1> DEFINE ve == BitFields(f).version
           tc == BitFields(f).traffiClass
           fl == BitFields(f).flowLabel
<1>3. Ipv6Of(f) = [valid |-> TRUE, version |-> ve, traffiClass |-> tc, flowLabel |-> fl,
                   payloadLen |-> load_half(f.payloadLen), nextHdr |-> f.nextHdr, src |-> f.src, dst |-> f.dst]
  BY Zenon DEF Ipv6Of
<1> HIDE DEF ve, tc, fl
<1>4. Ipv6Of(f).version = ve /\ Ipv6Of(f).traffiClass = tc /\ Ipv6Of(f).flowLabel = fl
  BY <1>3
<1>5. ve \in Byte
  <2>1. f.first[1] \div 16 \in Byte
    BY <1>2 DEF Byte
  <2> QED
    BY <1>4, <2>1, FieldsRead
<1>6. tc \in Byte
  <2>1. f.first[1] % 16 \in Nibble /\ f.first[2] \div 16 \in Nibble
    BY <1>2, ByteNibbles
  <2> QED
    BY <1>4, <2>1, FieldsRead, NibbleDiv
<1>7. fl \in U32
  <2>1. f.first[2] % 16 \in U16
    <3>1. \A n \in Nibble : n \in U16
      BY DEF Nibble, U16
    <3> QED
      BY <1>2, <3>1, ByteNibbles
  <2>2. 256 * f.first[3] + f.first[4] \in U16
    BY <1>2, HalfOfBytes
  <2>3. fl = <<f.first[2] % 16, 256 * f.first[3] + f.first[4]>>
    BY <1>4, FieldsRead
  <2> QED
    BY <2>1, <2>2, <2>3 DEF U32
<1>8. load_half(f.payloadLen) \in U16
  BY <1>1, HalfBytes
<1> QED
  BY <1>1, <1>3, <1>5, <1>6, <1>7, <1>8 DEF Ipv6Header

(***************************************************************************)
(* The two bytes that say IPv6.                                            *)
(***************************************************************************)
LEMMA Ipv6TypeBytes ==
  ASSUME NEW b \in Half
  PROVE  (load_half(b) = TYPE_IPV6) <=> (b = <<134, 221>>)
<1>1. b[1] \in Byte /\ b[2] \in Byte /\ b = <<b[1], b[2]>>
  BY HalfBytes
<1>2. ASSUME NEW x \in Byte, NEW y \in Byte
      PROVE  (x * 256 + y = 34525) <=> (x = 134 /\ y = 221)
  BY <1>2 DEF Byte
<1>3. (b = <<134, 221>>) <=> (b[1] = 134 /\ b[2] = 221)
  BY <1>1
<1> QED
  BY <1>1, <1>2, <1>3 DEF load_half, TYPE_IPV6

-----------------------------------------------------------------------------
(* The inductive invariant *)

\* What run_parser leaves in the map for a packet with contents f.
Parsed6(f) == run_parser6(f, ZeroHdrMd6).md

(***************************************************************************)
(* The inductive invariant, in the same parts.                             *)
(***************************************************************************)
ScratchInv6 ==
  \A c \in Cpus :
    /\ pc[c] # "idle" => ~RejectedByParser6(rcvd[cur[c]])
    /\ pc[c] = "main" => /\ hdrMd[c] = Parsed6(rcvd[cur[c]])
                         /\ frame[cur[c]] = rcvd[cur[c]]
    /\ pc[c] = "ct_flow_miss" => /\ ~MetadataFails(rcvd[cur[c]])
                                 /\ hdrMd[c] = SetMeta6(Parsed6(rcvd[cur[c]]))
                                 /\ frame[cur[c]] = RestoreEtherType(rcvd[cur[c]])

SkbInv6 ==
  \A s \in Skbs :
    /\ ~cb[s].drop /\ cb[s].egress_port = 0
    /\ cb[s].pass_to_kernel => ~Rejected6(rcvd[s])
    /\ loc[s] \in {"ingress", "stack"} => frame[s] = rcvd[s]
    /\ loc[s] = "stack" => ~Rejected6(rcvd[s])
    /\ loc[s] = "dropped" => Rejected6(rcvd[s])
    /\ loc[s] # "sent"
    /\ loc[s] = "new" => ~cb[s].pass_to_kernel

IndInv6 == TypeOK6 /\ CpuInv /\ ScratchInv6 /\ SkbInv6 /\ TableSound6

-----------------------------------------------------------------------------
(* The parser *)

(***************************************************************************)
(* Every step of the parser leaves a well-formed struct hdr_md.            *)
(***************************************************************************)
LEMMA MdTypes6 ==
  ASSUME NEW f \in Frame6
  PROVE  /\ ZeroHdrMd6 \in HdrMd6
         /\ \A md \in HdrMd6 : /\ WithEth6(md, f) \in HdrMd6
                               /\ WithIpv6(md, f) \in HdrMd6
                               /\ WithTcp6(md, f) \in HdrMd6
                               /\ WithUdp6(md, f) \in HdrMd6
                               /\ SetMeta6(md) \in HdrMd6
<1>1. HdrMd6 = [eth : EthHdr, ipv6 : Ipv6Header, tcp : L4Header, udp : L4Header,
               meta : MetaHdr, offset : Nat]
  BY DEF HdrMd6, EthHdr, MetaHdr
<1>2. [valid |-> TRUE, etherType |-> load_half(f.etherType)] \in EthHdr
  BY HalfBytes DEF EthHdr, Frame6
<1>3. Ipv6Of(f) \in Ipv6Header
  BY Ipv6OfFields
<1>4. Ports4(f) \in L4Header
  BY HalfBytes DEF Ports4, Frame6, L4Header
<1>5. ZeroHdrMd6 \in HdrMd6
  <2>1. 0 \in Byte /\ 0 \in U16
    BY DEF Byte, U16
  <2>2. ZeroIpv6 \in Ipv6Header
    BY <2>1 DEF ZeroIpv6, Ipv6Header, U32
  <2>3. ZeroL4 \in L4Header
    BY <2>1 DEF ZeroL4, L4Header
  <2>4. [valid |-> FALSE, etherType |-> 0] \in EthHdr /\ [srcPort |-> 0, dstPort |-> 0] \in MetaHdr
    BY <2>1 DEF EthHdr, MetaHdr
  <2> QED
    BY <1>1, <2>2, <2>3, <2>4 DEF ZeroHdrMd6
<1>6. ASSUME NEW md \in HdrMd6
      PROVE  /\ WithEth6(md, f) \in HdrMd6
             /\ WithIpv6(md, f) \in HdrMd6
             /\ WithTcp6(md, f) \in HdrMd6
             /\ WithUdp6(md, f) \in HdrMd6
  BY <1>1, <1>2, <1>3, <1>4 DEF WithEth6, WithIpv6, WithTcp6, WithUdp6, EthLen, Ipv6Len, L4Len
<1>7. ASSUME NEW md \in HdrMd6
      PROVE  SetMeta6(md) \in HdrMd6
  <2>1. \A h \in L4Header : [srcPort |-> h.srcPort, dstPort |-> h.dstPort] \in MetaHdr
    BY DEF L4Header, MetaHdr
  <2>2. \A h \in L4Header : WithMeta6(md, h) \in HdrMd6
    BY <1>1, <2>1 DEF WithMeta6
  <2> QED
    BY <1>1, <2>2 DEF SetMeta6
<1> QED
  BY <1>5, <1>6, <1>7

\* The map after the Ethernet header, the IPv6 header, the ports.
EthMd6(f)  == WithEth6(ZeroHdrMd6, f)
Ipv6Md(f) == WithIpv6(EthMd6(f), f)
TcpMd6(f)  == WithTcp6(Ipv6Md(f), f)
UdpMd6(f)  == WithUdp6(Ipv6Md(f), f)

(***************************************************************************)
(* The outcomes of run_parser, by the packet's length, type and protocol.  *)
(* They do not depend on what the map held before.                         *)
(***************************************************************************)
LEMMA ParserCases6 ==
  ASSUME NEW f \in Frame6, NEW md
  PROVE  /\ f.len < 14 => run_parser6(f, md) = Accept(ZeroHdrMd6)
         /\ f.len >= 14 /\ f.etherType # <<134, 221>> => run_parser6(f, md).ret = TC_ACT_SHOT
         /\ f.len >= 14 /\ f.etherType # <<134, 221>> => run_parser6(f, md).md = EthMd6(f)
         /\ IsIpv6(f) /\ f.len < 54 => run_parser6(f, md) = Accept(EthMd6(f))
         /\ IsIpv6(f) /\ f.len >= 54 /\ f.nextHdr \notin {TCP_PROTO, UDP_PROTO} =>
              run_parser6(f, md).ret = TC_ACT_SHOT /\ run_parser6(f, md).md = Ipv6Md(f)
         /\ IsIpv6(f) /\ f.len >= 54 /\ f.len < 58 /\ f.nextHdr \in {TCP_PROTO, UDP_PROTO} =>
              run_parser6(f, md) = Accept(Ipv6Md(f))
         /\ IsIpv6(f) /\ f.len >= 58 /\ f.nextHdr = TCP_PROTO => run_parser6(f, md) = Accept(TcpMd6(f))
         /\ IsIpv6(f) /\ f.len >= 58 /\ f.nextHdr = UDP_PROTO => run_parser6(f, md) = Accept(UdpMd6(f))
<1>1. f.len \in Nat /\ f.etherType \in Half
  BY DEF Frame6
<1>2. (load_half(f.etherType) = TYPE_IPV6) <=> (f.etherType = <<134, 221>>)
  BY <1>1, Ipv6TypeBytes
<1>3. ZeroHdrMd6.offset = 0 /\ EthMd6(f).offset = 14 /\ Ipv6Md(f).offset = 54
  BY DEF ZeroHdrMd6, EthMd6, Ipv6Md, WithEth6, WithIpv6, EthLen, Ipv6Len
<1>4. /\ TooShort(f, ZeroHdrMd6, EthLen) <=> f.len < 14
      /\ TooShort(f, EthMd6(f), Ipv6Len) <=> f.len < 54
      /\ TooShort(f, Ipv6Md(f), L4Len) <=> f.len < 58
  BY <1>1, <1>3 DEF TooShort, EthLen, Ipv6Len, L4Len
<1>5. \A m : /\ Reject(m, PacketTooShort) = Accept(m)
             /\ Reject(m, NoError) = [ret |-> TC_ACT_SHOT, md |-> m]
  BY DEF Reject, NoError, PacketTooShort
<1>6. TCP_PROTO # UDP_PROTO
  BY DEF TCP_PROTO, UDP_PROTO
<1>7. /\ parse_tcp6(f, Ipv6Md(f)) = IF f.len < 58 THEN Accept(Ipv6Md(f)) ELSE Accept(TcpMd6(f))
      /\ parse_udp6(f, Ipv6Md(f)) = IF f.len < 58 THEN Accept(Ipv6Md(f)) ELSE Accept(UdpMd6(f))
  BY <1>4, <1>5 DEF parse_tcp6, parse_udp6, TcpMd6, UdpMd6
<1>8. parse_ipv6(f, EthMd6(f)) =
        CASE f.len < 54 -> Accept(EthMd6(f))
          [] ~(f.len < 54) /\ f.nextHdr = TCP_PROTO -> parse_tcp6(f, Ipv6Md(f))
          [] ~(f.len < 54) /\ f.nextHdr = UDP_PROTO -> parse_udp6(f, Ipv6Md(f))
          [] OTHER -> [ret |-> TC_ACT_SHOT, md |-> Ipv6Md(f)]
  BY <1>4, <1>5, <1>6 DEF parse_ipv6, Ipv6Md
<1>9. run_parser6(f, md) =
        CASE f.len < 14 -> Accept(ZeroHdrMd6)
          [] ~(f.len < 14) /\ f.etherType = <<134, 221>> -> parse_ipv6(f, EthMd6(f))
          [] OTHER -> [ret |-> TC_ACT_SHOT, md |-> EthMd6(f)]
  BY <1>2, <1>4, <1>5 DEF run_parser6, memset6, start6, EthMd6
<1>10. IsIpv6(f) => ~(f.len < 14) /\ f.etherType = <<134, 221>>
  BY <1>1 DEF IsIpv6, EthLen
<1>11. /\ f.len >= 14 => ~(f.len < 14)
       /\ f.len >= 54 => ~(f.len < 54)
       /\ f.len >= 58 => ~(f.len < 54) /\ ~(f.len < 58)
  BY <1>1
<1> QED
  BY <1>6, <1>7, <1>8, <1>9, <1>10, <1>11

(***************************************************************************)
(* The parser drops exactly the packets RejectedByParser names, and what   *)
(* it computes does not depend on what the map held before.                *)
(***************************************************************************)
LEMMA ParserResult6 ==
  ASSUME NEW f \in Frame6, NEW md
  PROVE  /\ run_parser6(f, md).md = Parsed6(f)
         /\ Parsed6(f) \in HdrMd6
         /\ RejectedByParser6(f) => run_parser6(f, md).ret = TC_ACT_SHOT
         /\ ~RejectedByParser6(f) => run_parser6(f, md).ret = Continue
<1>1. f.len \in Nat
  BY DEF Frame6
<1>2. /\ \A m : Accept(m).ret = Continue /\ Accept(m).md = m
      /\ TC_ACT_SHOT # Continue
  BY DEF Accept, TC_ACT_SHOT, Continue
<1>3. ZeroHdrMd6 \in HdrMd6 /\ EthMd6(f) \in HdrMd6 /\ Ipv6Md(f) \in HdrMd6
      /\ TcpMd6(f) \in HdrMd6 /\ UdpMd6(f) \in HdrMd6
  BY MdTypes6 DEF EthMd6, Ipv6Md, TcpMd6, UdpMd6
<1>4. RejectedByParser6(f) <=>
        \/ f.len >= 14 /\ f.etherType # <<134, 221>>
        \/ IsIpv6(f) /\ f.len >= 54 /\ f.nextHdr \notin {TCP_PROTO, UDP_PROTO}
  BY <1>1 DEF RejectedByParser6, IsIpv6, EthLen, Ipv6Len
<1>5. IsIpv6(f) <=> f.len >= 14 /\ f.etherType = <<134, 221>>
  BY DEF IsIpv6, EthLen
<1>6. CASE f.len < 14
  BY <1>1, <1>2, <1>3, <1>4, <1>5, <1>6, ParserCases6 DEF Parsed6
<1>7. CASE f.len >= 14 /\ f.etherType # <<134, 221>>
  BY <1>1, <1>2, <1>3, <1>4, <1>7, ParserCases6 DEF Parsed6
<1>8. CASE IsIpv6(f) /\ f.len < 54
  BY <1>1, <1>2, <1>3, <1>4, <1>5, <1>8, ParserCases6 DEF Parsed6
<1>9. CASE IsIpv6(f) /\ f.len >= 54 /\ f.nextHdr \notin {TCP_PROTO, UDP_PROTO}
  BY <1>2, <1>3, <1>4, <1>9, ParserCases6 DEF Parsed6
<1>10. CASE IsIpv6(f) /\ f.len >= 54 /\ f.len < 58 /\ f.nextHdr \in {TCP_PROTO, UDP_PROTO}
  BY <1>2, <1>3, <1>4, <1>5, <1>10, ParserCases6 DEF Parsed6
<1>11. CASE IsIpv6(f) /\ f.len >= 58 /\ f.nextHdr \in {TCP_PROTO, UDP_PROTO}
  BY <1>2, <1>3, <1>4, <1>5, <1>11, ParserCases6 DEF Parsed6
<1> QED
  BY <1>1, <1>5, <1>6, <1>7, <1>8, <1>9, <1>10, <1>11

(***************************************************************************)
(* A packet that is accepted leaves one of five maps behind.               *)
(***************************************************************************)
LEMMA AcceptedCases6 ==
  ASSUME NEW f \in Frame6, ~RejectedByParser6(f)
  PROVE  \/ f.len < 14 /\ Parsed6(f) = ZeroHdrMd6
         \/ IsIpv6(f) /\ f.len >= 14 /\ f.len < 54 /\ Parsed6(f) = EthMd6(f)
         \/ IsIpv6(f) /\ f.len >= 54 /\ f.len < 58 /\ Parsed6(f) = Ipv6Md(f)
         \/ IsIpv6(f) /\ f.len >= 58 /\ Parsed6(f) = TcpMd6(f)
         \/ IsIpv6(f) /\ f.len >= 58 /\ Parsed6(f) = UdpMd6(f)
<1>1. f.len \in Nat
  BY DEF Frame6
<1>2. \A m : Accept(m).md = m
  BY DEF Accept
<1>3. /\ IsIpv6(f) <=> f.len >= 14 /\ f.etherType = <<134, 221>>
      /\ ~(f.len >= 14 /\ f.etherType # <<134, 221>>)
      /\ ~(IsIpv6(f) /\ f.len >= 54 /\ f.nextHdr \notin {TCP_PROTO, UDP_PROTO})
  BY <1>1 DEF RejectedByParser6, IsIpv6, EthLen, Ipv6Len
<1>4. CASE f.len < 14
  BY <1>2, <1>4, ParserCases6 DEF Parsed6
<1>5. CASE IsIpv6(f) /\ f.len < 54
  BY <1>2, <1>3, <1>5, ParserCases6 DEF Parsed6
<1>6. CASE IsIpv6(f) /\ f.len >= 54 /\ f.len < 58
  BY <1>2, <1>3, <1>6, ParserCases6 DEF Parsed6
<1>7. CASE IsIpv6(f) /\ f.len >= 58
  <2>1. f.nextHdr \in {TCP_PROTO, UDP_PROTO}
    BY <1>1, <1>3, <1>7
  <2> QED
    BY <1>2, <1>7, <2>1, ParserCases6 DEF Parsed6
<1> QED
  BY <1>1, <1>3, <1>4, <1>5, <1>6, <1>7

(***************************************************************************)
(* The fields of the five maps.                                            *)
(***************************************************************************)
LEMMA MdFields6 ==
  ASSUME NEW f \in Frame6
  PROVE  /\ ZeroHdrMd6.eth.valid = FALSE /\ EthMd6(f).eth.valid = TRUE
         /\ EthMd6(f).eth.etherType = load_half(f.etherType)
            /\ Ipv6Md(f).eth = EthMd6(f).eth /\ TcpMd6(f).eth = EthMd6(f).eth /\ UdpMd6(f).eth = EthMd6(f).eth
         /\ ZeroHdrMd6.ipv6 = ZeroIpv6
            /\ EthMd6(f).ipv6 = ZeroIpv6
         /\ Ipv6Md(f).ipv6 = Ipv6Of(f)
            /\ TcpMd6(f).ipv6 = Ipv6Md(f).ipv6 /\ UdpMd6(f).ipv6 = Ipv6Md(f).ipv6
         /\ ZeroHdrMd6.tcp = ZeroL4 /\ EthMd6(f).tcp = ZeroL4 /\ Ipv6Md(f).tcp = ZeroL4
            /\ UdpMd6(f).tcp = ZeroL4 /\ TcpMd6(f).tcp = Ports4(f)
         /\ ZeroHdrMd6.udp = ZeroL4 /\ EthMd6(f).udp = ZeroL4 /\ Ipv6Md(f).udp = ZeroL4
            /\ TcpMd6(f).udp = ZeroL4 /\ UdpMd6(f).udp = Ports4(f)
         /\ ZeroHdrMd6.meta = [srcPort |-> 0, dstPort |-> 0] /\ EthMd6(f).meta = ZeroHdrMd6.meta
            /\ Ipv6Md(f).meta = ZeroHdrMd6.meta
         /\ ZeroHdrMd6.offset = 0 /\ EthMd6(f).offset = 14 /\ Ipv6Md(f).offset = 54
            /\ TcpMd6(f).offset = 58 /\ UdpMd6(f).offset = 58
<1>1. /\ ZeroHdrMd6.eth = [valid |-> FALSE, etherType |-> 0]
      /\ ZeroHdrMd6.ipv6 = ZeroIpv6
      /\ ZeroHdrMd6.tcp = ZeroL4 /\ ZeroHdrMd6.udp = ZeroL4
      /\ ZeroHdrMd6.meta = [srcPort |-> 0, dstPort |-> 0]
      /\ ZeroHdrMd6.offset = 0
  BY DEF ZeroHdrMd6
<1>2. /\ EthMd6(f).eth = [valid |-> TRUE, etherType |-> load_half(f.etherType)]
      /\ EthMd6(f).ipv6 = ZeroHdrMd6.ipv6
      /\ EthMd6(f).tcp = ZeroL4 /\ EthMd6(f).udp = ZeroL4
      /\ EthMd6(f).meta = ZeroHdrMd6.meta
      /\ EthMd6(f).offset = 14
  BY <1>1 DEF EthMd6, WithEth6, EthLen
<1>3. /\ Ipv6Md(f).eth = EthMd6(f).eth
      /\ Ipv6Md(f).ipv6 = Ipv6Of(f)
      /\ Ipv6Md(f).tcp = ZeroL4 /\ Ipv6Md(f).udp = ZeroL4
      /\ Ipv6Md(f).meta = ZeroHdrMd6.meta
      /\ Ipv6Md(f).offset = 54
  BY <1>2 DEF Ipv6Md, WithIpv6, Ipv6Len
<1>4. /\ TcpMd6(f).eth = EthMd6(f).eth /\ TcpMd6(f).ipv6 = Ipv6Md(f).ipv6
      /\ TcpMd6(f).tcp = Ports4(f) /\ TcpMd6(f).udp = ZeroL4
      /\ TcpMd6(f).offset = 58
  BY <1>3 DEF TcpMd6, WithTcp6, L4Len
<1>5. /\ UdpMd6(f).eth = EthMd6(f).eth /\ UdpMd6(f).ipv6 = Ipv6Md(f).ipv6
      /\ UdpMd6(f).udp = Ports4(f) /\ UdpMd6(f).tcp = ZeroL4
      /\ UdpMd6(f).offset = 58
  BY <1>3 DEF UdpMd6, WithUdp6, L4Len
<1> QED
  BY <1>1, <1>2, <1>3, <1>4, <1>5

-----------------------------------------------------------------------------
(* The main block *)

(***************************************************************************)
(* Setting the metadata changes nothing else in the map, and setting it    *)
(* again changes nothing.                                                  *)
(***************************************************************************)
LEMMA SetMetaFields6 ==
  ASSUME NEW md \in HdrMd6
  PROVE  /\ SetMeta6(md).eth = md.eth /\ SetMeta6(md).ipv6 = md.ipv6
         /\ SetMeta6(md).tcp = md.tcp /\ SetMeta6(md).udp = md.udp
         /\ SetMeta6(md).offset = md.offset
         /\ \A p : TableKey6(p, SetMeta6(SetMeta6(md))) = TableKey6(p, SetMeta6(md))
<1>1. \A m, h : /\ WithMeta6(m, h).eth = m.eth /\ WithMeta6(m, h).ipv6 = m.ipv6
                /\ WithMeta6(m, h).tcp = m.tcp /\ WithMeta6(m, h).udp = m.udp
                /\ WithMeta6(m, h).offset = m.offset
                /\ WithMeta6(m, h).meta = [srcPort |-> h.srcPort, dstPort |-> h.dstPort]
  BY DEF WithMeta6
<1>2. \A m : /\ m.tcp.valid = TRUE => SetMeta6(m) = WithMeta6(m, m.tcp)
             /\ m.tcp.valid = FALSE /\ m.udp.valid = TRUE => SetMeta6(m) = WithMeta6(m, m.udp)
             /\ m.tcp.valid = FALSE /\ m.udp.valid = FALSE => SetMeta6(m) = m
  BY DEF SetMeta6
<1>3. md.tcp.valid \in BOOLEAN /\ md.udp.valid \in BOOLEAN
  BY DEF HdrMd6, L4Header
<1>4. \A m, n, p : m.ipv6 = n.ipv6 /\ m.meta = n.meta => TableKey6(p, m) = TableKey6(p, n)
  BY Zenon DEF TableKey6
<1>5. CASE md.tcp.valid = TRUE
  <2>1. SetMeta6(md) = WithMeta6(md, md.tcp)
    BY <1>2, <1>5
  <2>2. /\ SetMeta6(md).eth = md.eth /\ SetMeta6(md).ipv6 = md.ipv6
        /\ SetMeta6(md).tcp = md.tcp /\ SetMeta6(md).udp = md.udp
        /\ SetMeta6(md).offset = md.offset
        /\ SetMeta6(md).meta = [srcPort |-> md.tcp.srcPort, dstPort |-> md.tcp.dstPort]
    BY <1>1, <2>1
  <2>3. SetMeta6(SetMeta6(md)) = WithMeta6(SetMeta6(md), SetMeta6(md).tcp)
    BY <1>2, <1>5, <2>2
  <2>4. /\ SetMeta6(SetMeta6(md)).ipv6 = SetMeta6(md).ipv6
        /\ SetMeta6(SetMeta6(md)).meta = SetMeta6(md).meta
    BY <1>1, <2>2, <2>3
  <2> QED
    BY <1>4, <2>2, <2>4
<1>6. CASE md.tcp.valid = FALSE /\ md.udp.valid = TRUE
  <2>1. SetMeta6(md) = WithMeta6(md, md.udp)
    BY <1>2, <1>6
  <2>2. /\ SetMeta6(md).eth = md.eth /\ SetMeta6(md).ipv6 = md.ipv6
        /\ SetMeta6(md).tcp = md.tcp /\ SetMeta6(md).udp = md.udp
        /\ SetMeta6(md).offset = md.offset
        /\ SetMeta6(md).meta = [srcPort |-> md.udp.srcPort, dstPort |-> md.udp.dstPort]
    BY <1>1, <2>1
  <2>3. SetMeta6(SetMeta6(md)) = WithMeta6(SetMeta6(md), SetMeta6(md).udp)
    BY <1>2, <1>6, <2>2
  <2>4. /\ SetMeta6(SetMeta6(md)).ipv6 = SetMeta6(md).ipv6
        /\ SetMeta6(SetMeta6(md)).meta = SetMeta6(md).meta
    BY <1>1, <2>2, <2>3
  <2> QED
    BY <1>4, <2>2, <2>4
<1>7. CASE md.tcp.valid = FALSE /\ md.udp.valid = FALSE
  <2>1. SetMeta6(md) = md
    BY <1>2, <1>7
  <2> QED
    BY <2>1
<1> QED
  BY <1>3, <1>5, <1>6, <1>7

(***************************************************************************)
(* The key made of the parsed headers is the flow of the packet.           *)
(***************************************************************************)
LEMMA ParsedKey6 ==
  ASSUME NEW f \in Frame6, ~RejectedByParser6(f), NEW p
  PROVE  TableKey6(p, SetMeta6(Parsed6(f))) = FlowOf6(p, f)
<1>1. f.len \in Nat /\ f.sport \in Half /\ f.dport \in Half
  BY DEF Frame6
<1>2. /\ Ports4(f).valid = TRUE
      /\ Ports4(f).srcPort = load_half(f.sport) /\ Ports4(f).dstPort = load_half(f.dport)
      /\ ZeroL4.valid = FALSE
  BY DEF Ports4, ZeroL4
<1>3. /\ htons(load_half(f.sport)) = f.sport[1] + 256 * f.sport[2]
      /\ htons(load_half(f.dport)) = f.dport[1] + 256 * f.dport[2]
      /\ htons(0) = 0
  <2>1. htons(0) = 0
    BY DEF htons
  <2> QED
    BY <1>1, <2>1, PortBytes
<1> DEFINE
      K(ip, x, y) == [port |-> p, src |-> ip.src, dst |-> ip.dst, nextHdr |-> ip.nextHdr,
                      sport |-> x, dport |-> y]
      NoIp == ZeroIpv6
      Ip == Ipv6Of(f)
      Sp == f.sport[1] + 256 * f.sport[2]
      Dp == f.dport[1] + 256 * f.dport[2]
<1>4. \A m : m.tcp = ZeroL4 /\ m.udp = ZeroL4 /\ m.meta = [srcPort |-> 0, dstPort |-> 0]
             => TableKey6(p, SetMeta6(m)) = K(m.ipv6, 0, 0)
  <2> SUFFICES ASSUME NEW m, m.tcp = ZeroL4, m.udp = ZeroL4, m.meta = [srcPort |-> 0, dstPort |-> 0]
               PROVE  TableKey6(p, SetMeta6(m)) = K(m.ipv6, 0, 0)
    OBVIOUS
  <2>1. SetMeta6(m) = m
    BY <1>2 DEF SetMeta6
  <2> QED
    BY <1>3, <2>1 DEF TableKey6
<1>5. \A m : m.tcp = Ports4(f) \/ (m.tcp = ZeroL4 /\ m.udp = Ports4(f))
             => TableKey6(p, SetMeta6(m)) = K(m.ipv6, Sp, Dp)
  <2> SUFFICES ASSUME NEW m, m.tcp = Ports4(f) \/ (m.tcp = ZeroL4 /\ m.udp = Ports4(f))
               PROVE  TableKey6(p, SetMeta6(m)) = K(m.ipv6, Sp, Dp)
    OBVIOUS
  <2>1. SetMeta6(m) = WithMeta6(m, Ports4(f))
    BY <1>2 DEF SetMeta6
  <2>2. WithMeta6(m, Ports4(f)).meta.srcPort = load_half(f.sport)
        /\ WithMeta6(m, Ports4(f)).meta.dstPort = load_half(f.dport)
        /\ WithMeta6(m, Ports4(f)).ipv6 = m.ipv6
    BY <1>2 DEF WithMeta6
  <2> QED
    BY <1>3, <2>1, <2>2 DEF TableKey6
<1>6. /\ f.len < 54 => FlowOf6(p, f) = K(NoIp, 0, 0)
      /\ IsIpv6(f) /\ f.len >= 54 /\ f.len < 58 => FlowOf6(p, f) = K(Ip, 0, 0)
      /\ IsIpv6(f) /\ f.len >= 58 => FlowOf6(p, f) = K(Ip, Sp, Dp)
  <2>1. /\ NoIp.src = 0 /\ NoIp.dst = 0 /\ NoIp.nextHdr = 0
        /\ Ip.src = f.src /\ Ip.dst = f.dst /\ Ip.nextHdr = f.nextHdr
    BY Ipv6OfFields DEF ZeroIpv6
  <2> HIDE DEF NoIp, Ip
  <2> QED
    BY <1>1, <2>1 DEF FlowOf6, IsIpv6, EthLen, Ipv6Len, L4Len
<1> HIDE DEF K, NoIp, Ip, Sp, Dp
<1>7. CASE f.len < 54 /\ Parsed6(f) \in {ZeroHdrMd6, EthMd6(f)}
  <2>1. /\ Parsed6(f).tcp = ZeroL4 /\ Parsed6(f).udp = ZeroL4
        /\ Parsed6(f).meta = [srcPort |-> 0, dstPort |-> 0]
        /\ Parsed6(f).ipv6 = NoIp
    BY <1>7, MdFields6, ZenonT(60) DEF NoIp
  <2> QED
    BY <1>4, <1>6, <1>7, <2>1
<1>8. CASE IsIpv6(f) /\ f.len >= 54 /\ f.len < 58 /\ Parsed6(f) = Ipv6Md(f)
  <2>1. /\ Parsed6(f).tcp = ZeroL4 /\ Parsed6(f).udp = ZeroL4
        /\ Parsed6(f).meta = [srcPort |-> 0, dstPort |-> 0]
        /\ Parsed6(f).ipv6 = Ip
    BY <1>8, MdFields6, ZenonT(60) DEF Ip
  <2> QED
    BY <1>4, <1>6, <1>8, <2>1
<1>9. CASE IsIpv6(f) /\ f.len >= 58 /\ Parsed6(f) \in {TcpMd6(f), UdpMd6(f)}
  <2>1. /\ Parsed6(f).tcp = Ports4(f) \/ (Parsed6(f).tcp = ZeroL4 /\ Parsed6(f).udp = Ports4(f))
        /\ Parsed6(f).ipv6 = Ip
    BY <1>9, MdFields6, ZenonT(60) DEF Ip
  <2> QED
    BY <1>5, <1>6, <1>9, <2>1
<1> QED
  BY AcceptedCases6, <1>1, <1>7, <1>8, <1>9

(***************************************************************************)
(* The valid headers are as long as the headers parsed, and the packet is  *)
(* at least that long.                                                     *)
(***************************************************************************)
LEMMA ParsedLength6 ==
  ASSUME NEW f \in Frame6, ~RejectedByParser6(f)
  PROVE  /\ OutHeaderLength6(Parsed6(f)) = Parsed6(f).offset
         /\ Parsed6(f).offset <= f.len
         /\ OutHeaderLength6(SetMeta6(Parsed6(f))) = SetMeta6(Parsed6(f)).offset
         /\ SetMeta6(Parsed6(f)).offset <= f.len
<1>1. f.len \in Nat
  BY DEF Frame6
<1>2. Ipv6Of(f).valid = TRUE /\ Ports4(f).valid = TRUE /\ ZeroL4.valid = FALSE
  BY Ipv6OfFields DEF Ports4, ZeroL4
<1>3. OutHeaderLength6(Parsed6(f)) = Parsed6(f).offset /\ Parsed6(f).offset <= f.len
  <2>1. CASE f.len < 14 /\ Parsed6(f) = ZeroHdrMd6
    <3>1. /\ Parsed6(f).eth.valid = FALSE /\ Parsed6(f).ipv6.valid = FALSE
          /\ Parsed6(f).tcp.valid = FALSE /\ Parsed6(f).udp.valid = FALSE
          /\ Parsed6(f).offset = 0
      BY <2>1 DEF ZeroHdrMd6, ZeroIpv6, ZeroL4
    <3>2. OutHeaderLength6(Parsed6(f)) = 0 + 0 + 0 + 0
      BY <3>1, Zenon DEF OutHeaderLength6, EthLen, Ipv6Len, L4Len
    <3> QED
      BY <1>1, <3>1, <3>2
  <2>2. CASE f.len >= 14 /\ Parsed6(f) = EthMd6(f)
    <3>1. /\ Parsed6(f).eth.valid = TRUE /\ Parsed6(f).ipv6.valid = FALSE
          /\ Parsed6(f).tcp.valid = FALSE /\ Parsed6(f).udp.valid = FALSE
          /\ Parsed6(f).offset = 14
      BY <2>2 DEF EthMd6, WithEth6, EthLen, ZeroHdrMd6, ZeroIpv6, ZeroL4
    <3>2. OutHeaderLength6(Parsed6(f)) = 14 + 0 + 0 + 0
      BY <3>1, Zenon DEF OutHeaderLength6, EthLen, Ipv6Len, L4Len
    <3> QED
      BY <1>1, <2>2, <3>1, <3>2
  <2>3. CASE f.len >= 54 /\ Parsed6(f) = Ipv6Md(f)
    <3>1. /\ Parsed6(f).eth.valid = TRUE /\ Parsed6(f).ipv6.valid = TRUE
          /\ Parsed6(f).tcp.valid = FALSE /\ Parsed6(f).udp.valid = FALSE
          /\ Parsed6(f).offset = 54
      BY <1>2, <2>3, MdFields6, ZenonT(60)
    <3>2. OutHeaderLength6(Parsed6(f)) = 14 + 40 + 0 + 0
      BY <3>1, Zenon DEF OutHeaderLength6, EthLen, Ipv6Len, L4Len
    <3> QED
      BY <1>1, <2>3, <3>1, <3>2
  <2>4. CASE f.len >= 58 /\ Parsed6(f) = TcpMd6(f)
    <3>1. /\ Parsed6(f).eth.valid = TRUE /\ Parsed6(f).ipv6.valid = TRUE
          /\ Parsed6(f).tcp.valid = TRUE /\ Parsed6(f).udp.valid = FALSE
          /\ Parsed6(f).offset = 58
      BY <1>2, <2>4, MdFields6, ZenonT(60)
    <3>2. OutHeaderLength6(Parsed6(f)) = 14 + 40 + 4 + 0
      BY <3>1, Zenon DEF OutHeaderLength6, EthLen, Ipv6Len, L4Len
    <3> QED
      BY <1>1, <2>4, <3>1, <3>2
  <2>5. CASE f.len >= 58 /\ Parsed6(f) = UdpMd6(f)
    <3>1. /\ Parsed6(f).eth.valid = TRUE /\ Parsed6(f).ipv6.valid = TRUE
          /\ Parsed6(f).tcp.valid = FALSE /\ Parsed6(f).udp.valid = TRUE
          /\ Parsed6(f).offset = 58
      BY <1>2, <2>5, MdFields6, ZenonT(60)
    <3>2. OutHeaderLength6(Parsed6(f)) = 14 + 40 + 0 + 4
      BY <3>1, Zenon DEF OutHeaderLength6, EthLen, Ipv6Len, L4Len
    <3> QED
      BY <1>1, <2>5, <3>1, <3>2
  <2> QED
    BY AcceptedCases6, <2>1, <2>2, <2>3, <2>4, <2>5
<1>4. Parsed6(f) \in HdrMd6
  BY ParserResult6
<1>5. OutHeaderLength6(SetMeta6(Parsed6(f))) = OutHeaderLength6(Parsed6(f))
  BY <1>4, SetMetaFields6 DEF OutHeaderLength6
<1> QED
  BY <1>3, <1>4, <1>5, SetMetaFields6

(***************************************************************************)
(* The metadata of an XDP program replaces the etherType only.             *)
(***************************************************************************)
LEMMA Restored6 ==
  ASSUME NEW f \in Frame6
  PROVE  \E e \in Half :
           /\ f.md = NoMd => e = f.etherType
           /\ RestoreEtherType(f) =
                [len |-> f.len, md |-> f.md, etherType |-> e, first |-> f.first,
                 payloadLen |-> f.payloadLen, nextHdr |-> f.nextHdr, src |-> f.src, dst |-> f.dst,
                 sport |-> f.sport, dport |-> f.dport]
<1>1. f \in [len : Nat, md : Half \cup {NoMd}, etherType : Half, first : Bytes4,
             payloadLen : Half, nextHdr : Byte, src : Nat, dst : Nat, sport : Half, dport : Half]
  BY DEF Frame6
<1>2. CASE f.md = NoMd
  <2>1. RestoreEtherType(f) = f
    BY <1>2 DEF RestoreEtherType
  <2>2. f.etherType \in Half
    BY <1>1
  <2> WITNESS f.etherType \in Half
  <2> QED
    BY <1>1, <2>1
<1>3. CASE f.md # NoMd
  <2>1. RestoreEtherType(f) = [f EXCEPT !.etherType = f.md]
    BY <1>3 DEF RestoreEtherType
  <2>2. f.md \in Half
    BY <1>1, <1>3
  <2> WITNESS f.md \in Half
  <2> QED
    BY <1>1, <1>3, <2>1
<1> QED
  BY <1>2, <1>3

(***************************************************************************)
(* Writing the headers back restores the packet as it was received, also   *)
(* where the metadata has overwritten its etherType.                       *)
(***************************************************************************)
LEMMA WriteBack6 ==
  ASSUME NEW f \in Frame6, ~RejectedByParser6(f), ~MetadataFails(f)
  PROVE  /\ RestoreEtherType(f) \in Frame6
         /\ RestoreEtherType(f).len = f.len
         /\ WriteHeaders6(RestoreEtherType(f), SetMeta6(Parsed6(f))) = f
<1>1. f \in [len : Nat, md : Half \cup {NoMd}, etherType : Half, first : Bytes4,
             payloadLen : Half, nextHdr : Byte, src : Nat, dst : Nat, sport : Half, dport : Half]
  BY DEF Frame6
<1> PICK e \in Half :
           /\ f.md = NoMd => e = f.etherType
           /\ RestoreEtherType(f) =
                [len |-> f.len, md |-> f.md, etherType |-> e, first |-> f.first,
                 payloadLen |-> f.payloadLen, nextHdr |-> f.nextHdr, src |-> f.src, dst |-> f.dst,
                 sport |-> f.sport, dport |-> f.dport]
  BY Restored6
<1> DEFINE g == RestoreEtherType(f)
           m == SetMeta6(Parsed6(f))
<1>2. /\ g.len = f.len /\ g.md = f.md /\ g.etherType = e /\ g.src = f.src /\ g.dst = f.dst
      /\ g.nextHdr = f.nextHdr /\ g.sport = f.sport /\ g.dport = f.dport
      /\ g.first = f.first /\ g.payloadLen = f.payloadLen
  OBVIOUS
<1>3. g \in Frame6
  BY <1>1 DEF Frame6
<1>4. /\ emit_half(load_half(f.etherType)) = f.etherType
      /\ emit_half(load_half(f.sport)) = f.sport
      /\ emit_half(load_half(f.dport)) = f.dport
      /\ emit_half(load_half(f.payloadLen)) = f.payloadLen
  BY <1>1, FieldRoundTrip
<1>5. m.eth = Parsed6(f).eth /\ m.ipv6 = Parsed6(f).ipv6 /\ m.tcp = Parsed6(f).tcp /\ m.udp = Parsed6(f).udp
  BY ParserResult6, SetMetaFields6
<1>6. Ports4(f).valid = TRUE /\ Ports4(f).srcPort = load_half(f.sport)
      /\ Ports4(f).dstPort = load_half(f.dport) /\ ZeroL4.valid = FALSE
  BY DEF Ports4, ZeroL4
<1>7. f = [len |-> f.len, md |-> f.md, etherType |-> f.etherType, first |-> f.first,
           payloadLen |-> f.payloadLen, nextHdr |-> f.nextHdr, src |-> f.src, dst |-> f.dst,
           sport |-> f.sport, dport |-> f.dport]
  BY <1>1
<1>8. \/ f.etherType = e /\ m.eth.valid = FALSE
      \/ m.eth.valid = TRUE /\ m.eth.etherType = load_half(f.etherType)
  <2>1. CASE f.len < 14 /\ Parsed6(f) = ZeroHdrMd6
    BY <1>5, <2>1 DEF MetadataFails, ZeroHdrMd6
  <2>2. CASE Parsed6(f) \in {EthMd6(f), Ipv6Md(f), TcpMd6(f), UdpMd6(f)}
    <3>1. m.eth = EthMd6(f).eth
      BY <1>5, <2>2, MdFields6
    <3> HIDE DEF m
    <3> QED
      BY <3>1, MdFields6
  <2> QED
    BY AcceptedCases6, <2>1, <2>2
<1>9. \/ m.ipv6.valid = FALSE
      \/ /\ m.ipv6.valid = TRUE /\ m.ipv6.payloadLen = load_half(f.payloadLen)
         /\ m.ipv6.src = f.src /\ m.ipv6.dst = f.dst /\ m.ipv6.nextHdr = f.nextHdr
         /\ WriteBitFields(f.first, m.ipv6) = f.first
  <2>1. CASE Parsed6(f) \in {ZeroHdrMd6, EthMd6(f)}
    <3>1. m.ipv6 = ZeroIpv6
      BY <1>5, <2>1, MdFields6
    <3> QED
      BY <3>1 DEF ZeroIpv6
  <2>2. CASE Parsed6(f) \in {Ipv6Md(f), TcpMd6(f), UdpMd6(f)}
    <3>1. m.ipv6 = Ipv6Of(f)
      BY <1>5, <2>2, MdFields6
    <3>2. f.first \in Bytes4
      BY <1>1
    <3>3. WriteBitFields(f.first, Ipv6Of(f)) = f.first
      BY <3>2, FieldsWritten
    <3>4. /\ Ipv6Of(f).valid = TRUE /\ Ipv6Of(f).payloadLen = load_half(f.payloadLen)
          /\ Ipv6Of(f).nextHdr = f.nextHdr /\ Ipv6Of(f).src = f.src /\ Ipv6Of(f).dst = f.dst
      BY Ipv6OfFields
    <3> HIDE DEF m
    <3> QED
      BY <3>1, <3>3, <3>4
  <2> QED
    BY AcceptedCases6, <2>1, <2>2
<1>10. \/ m.tcp = ZeroL4 /\ m.udp = ZeroL4
       \/ m.tcp = Ports4(f) /\ m.udp = ZeroL4
       \/ m.tcp = ZeroL4 /\ m.udp = Ports4(f)
  BY <1>5, AcceptedCases6, MdFields6, ZenonT(60)
<1>11. /\ (IF m.eth.valid THEN emit_half(m.eth.etherType) ELSE g.etherType) = f.etherType
       /\ (IF m.ipv6.valid THEN WriteBitFields(g.first, m.ipv6) ELSE g.first) = f.first
       /\ (IF m.ipv6.valid THEN emit_half(m.ipv6.payloadLen) ELSE g.payloadLen) = f.payloadLen
       /\ (IF m.ipv6.valid THEN m.ipv6.src ELSE g.src) = f.src
       /\ (IF m.ipv6.valid THEN m.ipv6.dst ELSE g.dst) = f.dst
       /\ (IF m.ipv6.valid THEN m.ipv6.nextHdr ELSE g.nextHdr) = f.nextHdr
  <2> HIDE DEF g, m
  <2> QED
    BY <1>2, <1>4, <1>8, <1>9
<1>12. LET l4 == IF m.udp.valid THEN m.udp ELSE m.tcp
       IN  /\ (IF l4.valid THEN emit_half(l4.srcPort) ELSE g.sport) = f.sport
           /\ (IF l4.valid THEN emit_half(l4.dstPort) ELSE g.dport) = f.dport
  <2> HIDE DEF g, m
  <2> QED
    BY <1>2, <1>4, <1>6, <1>10
<1>13. WriteHeaders6(g, m) = f
  <2> HIDE DEF g, m
  <2> QED
    BY <1>2, <1>7, <1>11, <1>12 DEF WriteHeaders6
<1> QED
  BY <1>2, <1>3, <1>13

(***************************************************************************)
(* The deparser neither drops the packet nor changes it.                   *)
(***************************************************************************)
LEMMA DeparseResult6 ==
  ASSUME NEW f \in Frame6, ~RejectedByParser6(f), ~MetadataFails(f), NEW b, b.drop = FALSE
  PROVE  Deparse6(RestoreEtherType(f), SetMeta6(Parsed6(f)), b) = {[ret |-> Continue, frame |-> f]}
<1> DEFINE g == RestoreEtherType(f)
           m == SetMeta6(Parsed6(f))
<1>1. g.len = f.len /\ f.len \in Nat /\ WriteHeaders6(g, m) = f
  BY WriteBack6 DEF Frame6
<1>2. OutHeaderLength6(m) = m.offset /\ m.offset <= f.len
  BY ParsedLength6
<1>3. m.offset \in Nat
  <2>1. m \in HdrMd6
    BY ParserResult6, MdTypes6
  <2> HIDE DEF m
  <2> QED
    BY <2>1 DEF HdrMd6
<1> HIDE DEF g, m
<1>4. Emit6(g, m) = [ret |-> Continue, frame |-> f]
  BY <1>1, <1>2, <1>3 DEF Emit6
<1>5. adjust_room(g, OutHeaderLength6(m) - m.offset) = {[ret |-> Continue, frame |-> g]}
  <2>1. OutHeaderLength6(m) - m.offset = 0
    BY <1>2, <1>3
  <2> QED
    BY <2>1, Zenon DEF adjust_room
<1>6. TC_ACT_SHOT # Continue
  BY DEF TC_ACT_SHOT, Continue
<1>7. Deparse6(g, m, b) = {IF r.ret = TC_ACT_SHOT THEN r ELSE Emit6(r.frame, m) :
                            r \in {[ret |-> Continue, frame |-> g]}}
  BY <1>5, Zenon DEF Deparse6
<1>8. Deparse6(g, m, b) = {Emit6(g, m)}
  <2> DEFINE R == [ret |-> Continue, frame |-> g]
  <2>1. R.ret = Continue /\ R.frame = g
    OBVIOUS
  <2> HIDE DEF R
  <2> QED
    BY <1>6, <1>7, <2>1 DEF R
<1> QED
  BY <1>4, <1>8 DEF g, m

(***************************************************************************)
(* So the packet goes back to its ingress as it was received, marked for   *)
(* the kernel.                                                             *)
(***************************************************************************)
LEMMA FinishResult6 ==
  ASSUME NEW c \in Cpus, NEW f \in Frame6, ~RejectedByParser6(f), ~MetadataFails(f),
         cb[cur[c]].drop = FALSE, cb[cur[c]].egress_port = 0,
         Finish6(c, RestoreEtherType(f), SetMeta6(Parsed6(f)))
  PROVE  Leave(c, "ingress", f, [drop |-> FALSE, egress_port |-> 0, pass_to_kernel |-> TRUE],
               SetMeta6(Parsed6(f)))
<1> DEFINE R == [ret |-> Continue, frame |-> f]
           b == cb[cur[c]]
<1>1. Deparse6(RestoreEtherType(f), SetMeta6(Parsed6(f)), b) = {R}
  BY DeparseResult6
<1>2. R.ret = Continue /\ R.frame = f
  OBVIOUS
<1>3. Verdict(Continue, b) = "ingress"
  BY DEF Verdict, TC_ACT_SHOT, Continue
<1>4. Mark("ingress", b) = [drop |-> FALSE, egress_port |-> 0, pass_to_kernel |-> TRUE]
  BY DEF Mark
<1> HIDE DEF R
<1>5. Leave(c, Verdict(R.ret, b), R.frame, Mark(Verdict(R.ret, b), b), SetMeta6(Parsed6(f)))
  BY <1>1, Zenon DEF Finish6
<1> QED
  BY <1>2, <1>3, <1>4, <1>5, Zenon

-----------------------------------------------------------------------------
(* The table *)

\* The part of TypeOK that concerns the table.
TableOK6 ==
  /\ DOMAIN table \subseteq Key6
  /\ table \in [DOMAIN table -> Entry]

(***************************************************************************)
(* A flow of a packet is a key.                                            *)
(***************************************************************************)
LEMMA FlowIsKey6 ==
  ASSUME NEW p \in Nat, NEW f \in Frame6
  PROVE  FlowOf6(p, f) \in Key6
<1>1. f.src \in Nat /\ f.dst \in Nat /\ f.nextHdr \in Byte /\ f.sport \in Half /\ f.dport \in Half
  BY DEF Frame6
<1>2. /\ f.sport[1] + 256 * f.sport[2] \in U16
      /\ f.dport[1] + 256 * f.dport[2] \in U16
  <2>1. \A x, y \in Byte : x + 256 * y \in U16
    <3>1. \A x, y \in Byte : x + 256 * y = y * 256 + x
      BY DEF Byte
    <3> QED
      BY <3>1, JoinBytes
  <2>2. f.sport[1] \in Byte /\ f.sport[2] \in Byte /\ f.dport[1] \in Byte /\ f.dport[2] \in Byte
    BY <1>1, HalfBytes
  <2> QED
    BY <2>1, <2>2, Zenon
<1>3. 0 \in Nat /\ 0 \in Byte /\ 0 \in U16
  BY DEF Byte, U16
<1> QED
  BY <1>1, <1>2, <1>3 DEF FlowOf6, Key6

(***************************************************************************)
(* A step that keeps the table and forgets no packet keeps TableSound; so  *)
(* does one that adds an entry for a packet accepted, or removes entries.  *)
(***************************************************************************)
LEMMA SoundKept6 ==
  ASSUME TableSound6,
         \A s \in Skbs : loc[s] # "new" =>
            loc'[s] # "new" /\ rcvd'[s] = rcvd[s] /\ port'[s] = port[s],
         \A k \in DOMAIN table' \ DOMAIN table :
            k \in CtrlKeys6 \/ \E s \in Skbs : /\ loc[s] # "new"
                                               /\ ~Rejected6(rcvd[s])
                                               /\ k = FlowOf6(port[s], rcvd[s])
  PROVE  TableSound6'
<1>1. SUFFICES ASSUME NEW k \in DOMAIN table', k \notin CtrlKeys6
               PROVE  \E s \in Skbs : /\ loc'[s] # "new"
                                      /\ ~Rejected6(rcvd'[s])
                                      /\ k = FlowOf6(port'[s], rcvd'[s])
  BY DEF TableSound6
<1>2. PICK s \in Skbs : loc[s] # "new" /\ ~Rejected6(rcvd[s]) /\ k = FlowOf6(port[s], rcvd[s])
  BY <1>1 DEF TableSound6
<1>3. loc'[s] # "new" /\ rcvd'[s] = rcvd[s] /\ port'[s] = port[s]
  BY <1>2
<1> QED
  BY <1>2, <1>3

-----------------------------------------------------------------------------
(* The packets *)

\* The part of TypeOK that does not concern the table.
PnaOK6 == PnaTyped(Frame6, HdrMd6, {"idle", "main", "ct_flow_miss"})

\* The part of IndInv that concerns the packets and CPUs.
PnaInv6 == PnaOK6 /\ CpuInv /\ ScratchInv6 /\ SkbInv6

(***************************************************************************)
(* A CPU may let its packet go to l as it was received, marked for the     *)
(* kernel or taken to the stack only if the packet is not to be rejected,  *)
(* and dropped only if it is.                                              *)
(***************************************************************************)
LEMMA LeaveKeeps6 ==
  ASSUME PnaInv6, NEW c \in Cpus, pc[c] # "idle",
         NEW l \in {"ingress", "stack", "dropped"}, NEW b \in Cb, NEW md \in HdrMd6,
         b.drop = FALSE, b.egress_port = 0,
         b.pass_to_kernel => ~Rejected6(rcvd[cur[c]]),
         l = "stack" => ~Rejected6(rcvd[cur[c]]),
         l = "dropped" => Rejected6(rcvd[cur[c]]),
         Leave(c, l, rcvd[cur[c]], b, md)
  PROVE  /\ PnaInv6'
         /\ \A s \in Skbs : loc[s] # "new" =>
              loc'[s] # "new" /\ rcvd'[s] = rcvd[s] /\ port'[s] = port[s]
<1> DEFINE q == cur[c]
<1>1. q \in Skbs /\ loc[q] = "cpu" /\ rcvd[q] \in Frame6 /\ l \in Locs
  BY DEF PnaInv6, PnaOK6, PnaTyped, CpuInv, Locs
<1>2. /\ loc' = [loc EXCEPT ![q] = l]
      /\ frame' = [frame EXCEPT ![q] = rcvd[q]]
      /\ cb' = [cb EXCEPT ![q] = b]
      /\ pc' = [pc EXCEPT ![c] = "idle"]
      /\ cur' = [cur EXCEPT ![c] = NoSkb]
      /\ hdrMd' = [hdrMd EXCEPT ![c] = md]
      /\ port' = port /\ rcvd' = rcvd
  BY DEF Leave
<1>3. PnaOK6'
  BY <1>1, <1>2 DEF PnaInv6, PnaOK6, PnaTyped
<1>4. \A d \in Cpus : pc'[d] # "idle" =>
         d # c /\ pc'[d] = pc[d] /\ cur'[d] = cur[d] /\ hdrMd'[d] = hdrMd[d]
         /\ cur[d] \in Skbs /\ cur[d] # q
  BY <1>2 DEF PnaInv6, PnaOK6, PnaTyped, CpuInv
<1>5. \A s \in Skbs : s # q => loc'[s] = loc[s] /\ frame'[s] = frame[s] /\ cb'[s] = cb[s]
  BY <1>2 DEF PnaInv6, PnaOK6, PnaTyped
<1>6. loc'[q] = l /\ frame'[q] = rcvd[q] /\ cb'[q] = b
  BY <1>1, <1>2 DEF PnaInv6, PnaOK6, PnaTyped
<1>7. CpuInv'
  BY <1>1, LeaveStep DEF PnaInv6, PnaOK6
<1>8. ScratchInv6'
  <2>1. SUFFICES ASSUME NEW d \in Cpus, pc'[d] # "idle"
                 PROVE  /\ ~RejectedByParser6(rcvd[cur[d]])
                        /\ pc[d] = "main" => /\ hdrMd[d] = Parsed6(rcvd[cur[d]])
                                             /\ frame[cur[d]] = rcvd[cur[d]]
                        /\ pc[d] = "ct_flow_miss" =>
                             /\ ~MetadataFails(rcvd[cur[d]])
                             /\ hdrMd[d] = SetMeta6(Parsed6(rcvd[cur[d]]))
                             /\ frame[cur[d]] = RestoreEtherType(rcvd[cur[d]])
    BY <1>2, <1>4, <1>5 DEF ScratchInv6
  <2> QED
    BY <1>4, <2>1 DEF PnaInv6, ScratchInv6
<1>9. SkbInv6'
  <2>1. SUFFICES ASSUME NEW s \in Skbs
                 PROVE  /\ ~cb'[s].drop /\ cb'[s].egress_port = 0
                        /\ cb'[s].pass_to_kernel => ~Rejected6(rcvd[s])
                        /\ loc'[s] \in {"ingress", "stack"} => frame'[s] = rcvd[s]
                        /\ loc'[s] = "stack" => ~Rejected6(rcvd[s])
                        /\ loc'[s] = "dropped" => Rejected6(rcvd[s])
                        /\ loc'[s] # "sent"
                        /\ loc'[s] = "new" => ~cb'[s].pass_to_kernel
    BY <1>2 DEF SkbInv6
  <2>2. CASE s = q
    BY <1>6, <2>2
  <2>3. CASE s # q
    BY <1>5, <2>3 DEF PnaInv6, SkbInv6
  <2> QED
    BY <2>2, <2>3
<1>10. \A s \in Skbs : loc[s] # "new" =>
         loc'[s] # "new" /\ rcvd'[s] = rcvd[s] /\ port'[s] = port[s]
  BY <1>2, <1>5, <1>6
<1> QED
  BY <1>3, <1>7, <1>8, <1>9, <1>10 DEF PnaInv6

-----------------------------------------------------------------------------
(* The steps *)

(***************************************************************************)
(* IndInv in the parts the lemmas above speak of.                          *)
(***************************************************************************)
LEMMA IndInvParts6 ==
  /\ IndInv6 <=> PnaInv6 /\ TableOK6 /\ TableSound6
  /\ IndInv6' <=> PnaInv6' /\ TableOK6' /\ TableSound6'
BY DEF IndInv6, TypeOK6, PnaInv6, PnaOK6, PnaTyped, TableOK6

(***************************************************************************)
(* The invariant holds before the first packet.                            *)
(***************************************************************************)
LEMMA InitInv6 == Init6 => IndInv6
<1> SUFFICES ASSUME Init6
             PROVE  PnaInv6 /\ TableOK6 /\ TableSound6
  BY IndInvParts6
<1>1. NoFrame6 \in Frame6
  <2>1. 0 \in Byte /\ <<0, 0>> \in Half /\ <<0, 0, 0, 0>> \in Bytes4
    BY DEF Byte, Half, Bytes4
  <2> QED
    BY <2>1 DEF NoFrame6, Frame6
<1>2. ZeroHdrMd6 \in HdrMd6
  BY <1>1, MdTypes6
<1>3. ZeroCb \in Cb /\ ZeroCb.drop = FALSE /\ ZeroCb.egress_port = 0 /\ ZeroCb.pass_to_kernel = FALSE
  BY DEF ZeroCb, Cb
<1>4. PnaOK6
  BY <1>1, <1>2, <1>3 DEF Init6, PnaInit, PnaOK6, PnaTyped, Locs
<1>5. CpuInv /\ ScratchInv6
  BY DEF Init6, PnaInit, CpuInv, ScratchInv6
<1>6. SkbInv6
  BY <1>3 DEF Init6, PnaInit, SkbInv6
<1>7. TableOK6 /\ TableSound6
  BY DEF Init6, TableOK6, TableSound6
<1> QED
  BY <1>4, <1>5, <1>6, <1>7 DEF PnaInv6

(***************************************************************************)
(* A packet that arrives is at work nowhere and not marked.                *)
(***************************************************************************)
LEMMA ReceiveInv6 ==
  ASSUME IndInv6, NEW s \in Skbs, Receive6(s)
  PROVE  IndInv6'
<1>1. PnaInv6 /\ TableOK6 /\ TableSound6
  BY IndInvParts6
<1>2. PICK p \in Ports, f \in Frames6 : Arrive(s, p, f)
  BY DEF Receive6
<1>3. /\ loc[s] = "new"
      /\ loc' = [loc EXCEPT ![s] = "ingress"]
      /\ port' = [port EXCEPT ![s] = p]
      /\ frame' = [frame EXCEPT ![s] = f]
      /\ rcvd' = [rcvd EXCEPT ![s] = f]
      /\ cb' = cb /\ pc' = pc /\ cur' = cur /\ hdrMd' = hdrMd
      /\ table' = table
  BY <1>2 DEF Receive6, Arrive
<1>4. p \in Nat /\ f \in Frame6
  BY PortsAssumption, FramesAssumption6
<1>5. PnaOK6'
  BY <1>1, <1>3, <1>4 DEF PnaInv6, PnaOK6, PnaTyped, Locs
<1>6. \A t \in Skbs : t # s => /\ loc'[t] = loc[t] /\ frame'[t] = frame[t]
                               /\ rcvd'[t] = rcvd[t] /\ port'[t] = port[t]
  BY <1>1, <1>3 DEF PnaInv6, PnaOK6, PnaTyped
<1>7. loc'[s] = "ingress" /\ frame'[s] = f /\ rcvd'[s] = f
  BY <1>1, <1>3 DEF PnaInv6, PnaOK6, PnaTyped
<1>8. \A c \in Cpus : pc[c] # "idle" => cur[c] \in Skbs /\ cur[c] # s
  BY <1>1, <1>3 DEF PnaInv6, CpuInv
<1>9. CpuInv'
  BY <1>1, <1>3, <1>6, <1>8 DEF PnaInv6, CpuInv
<1>10. ScratchInv6'
  <2>1. SUFFICES ASSUME NEW c \in Cpus, pc[c] # "idle"
                 PROVE  /\ ~RejectedByParser6(rcvd'[cur[c]])
                        /\ pc[c] = "main" => /\ hdrMd[c] = Parsed6(rcvd'[cur[c]])
                                             /\ frame'[cur[c]] = rcvd'[cur[c]]
                        /\ pc[c] = "ct_flow_miss" =>
                             /\ ~MetadataFails(rcvd'[cur[c]])
                             /\ hdrMd[c] = SetMeta6(Parsed6(rcvd'[cur[c]]))
                             /\ frame'[cur[c]] = RestoreEtherType(rcvd'[cur[c]])
    BY <1>3 DEF ScratchInv6
  <2>2. rcvd'[cur[c]] = rcvd[cur[c]] /\ frame'[cur[c]] = frame[cur[c]]
    BY <1>6, <1>8, <2>1
  <2> QED
    BY <1>1, <2>1, <2>2 DEF PnaInv6, ScratchInv6
<1>11. SkbInv6'
  <2>1. SUFFICES ASSUME NEW t \in Skbs
                 PROVE  /\ ~cb[t].drop /\ cb[t].egress_port = 0
                        /\ cb[t].pass_to_kernel => ~Rejected6(rcvd'[t])
                        /\ loc'[t] \in {"ingress", "stack"} => frame'[t] = rcvd'[t]
                        /\ loc'[t] = "stack" => ~Rejected6(rcvd'[t])
                        /\ loc'[t] = "dropped" => Rejected6(rcvd'[t])
                        /\ loc'[t] # "sent"
                        /\ loc'[t] = "new" => ~cb[t].pass_to_kernel
    BY <1>3 DEF SkbInv6
  <2>2. CASE t = s
    BY <1>1, <1>3, <1>7, <2>2 DEF PnaInv6, SkbInv6
  <2>3. CASE t # s
    BY <1>1, <1>6, <2>3 DEF PnaInv6, SkbInv6
  <2> QED
    BY <2>2, <2>3
<1>12. TableOK6'
  BY <1>1, <1>3 DEF TableOK6
<1>13. TableSound6'
  BY <1>1, <1>3, <1>6, SoundKept6
<1> QED
  BY <1>5, <1>9, <1>10, <1>11, <1>12, <1>13, IndInvParts6 DEF PnaInv6

(***************************************************************************)
(* tc_parse_func leaves its CPU the parse of its own packet.               *)
(***************************************************************************)
LEMMA ParseInv6 ==
  ASSUME IndInv6, NEW c \in Cpus, NEW s \in Skbs, Parse6(c, s)
  PROVE  IndInv6'
<1>1. PnaInv6 /\ TableOK6 /\ TableSound6
  BY IndInvParts6
<1> DEFINE r == run_parser6(frame[s], hdrMd[c])
<1>2. pc[c] = "idle" /\ loc[s] = "ingress" /\ frame[s] = rcvd[s] /\ rcvd[s] \in Frame6
  BY <1>1 DEF Parse6, TcParseFunc, PnaInv6, PnaOK6, PnaTyped, SkbInv6
<1>3. /\ r.md = Parsed6(rcvd[s]) /\ r.md \in HdrMd6
      /\ RejectedByParser6(rcvd[s]) => r.ret = TC_ACT_SHOT
      /\ ~RejectedByParser6(rcvd[s]) => r.ret # TC_ACT_SHOT
  BY <1>2, ParserResult6 DEF TC_ACT_SHOT, Continue
<1>4. TcParseFunc(c, s, r) /\ table' = table
  BY DEF Parse6
<1> HIDE DEF r
<1>5. /\ hdrMd' = [hdrMd EXCEPT ![c] = r.md]
      /\ port' = port /\ frame' = frame /\ cb' = cb /\ rcvd' = rcvd
  BY <1>4 DEF TcParseFunc
<1>6. TableOK6'
  BY <1>1, <1>4 DEF TableOK6
<1>7. CASE r.ret = TC_ACT_SHOT
  <2>1. loc' = [loc EXCEPT ![s] = "dropped"] /\ pc' = pc /\ cur' = cur
    BY <1>4, <1>7 DEF TcParseFunc
  <2>2. Rejected6(rcvd[s])
    BY <1>3, <1>7 DEF Rejected6
  <2>3. PnaOK6'
    BY <1>1, <1>3, <1>5, <2>1 DEF PnaInv6, PnaOK6, PnaTyped, Locs
  <2>4. CpuInv'
    BY <1>1, <1>2, <2>1 DEF PnaInv6, PnaOK6, PnaTyped, CpuInv
  <2>5. ScratchInv6'
    <3>1. \A d \in Cpus : pc[d] # "idle" => hdrMd'[d] = hdrMd[d]
      BY <1>1, <1>2, <1>5 DEF PnaInv6, PnaOK6, PnaTyped
    <3> QED
      BY <1>1, <1>5, <2>1, <3>1 DEF PnaInv6, ScratchInv6
  <2>6. SkbInv6'
    BY <1>1, <1>2, <1>5, <2>1, <2>2 DEF PnaInv6, PnaOK6, PnaTyped, SkbInv6
  <2>7. TableSound6'
    <3>1. \A t \in Skbs : loc[t] # "new" => loc'[t] # "new"
      BY <1>1, <2>1 DEF PnaInv6, PnaOK6, PnaTyped
    <3> QED
      BY <1>1, <1>4, <1>5, <3>1, SoundKept6
  <2> QED
    BY <1>6, <2>3, <2>4, <2>5, <2>6, <2>7, IndInvParts6 DEF PnaInv6
<1>8. CASE r.ret # TC_ACT_SHOT
  <2>1. /\ loc' = [loc EXCEPT ![s] = "cpu"]
        /\ pc' = [pc EXCEPT ![c] = "main"]
        /\ cur' = [cur EXCEPT ![c] = s]
    BY <1>4, <1>8 DEF TcParseFunc
  <2>2. ~RejectedByParser6(rcvd[s])
    BY <1>3, <1>8
  <2>3. PnaOK6'
    BY <1>1, <1>3, <1>5, <2>1 DEF PnaInv6, PnaOK6, PnaTyped, Locs
  <2>4. \A d \in Cpus : d # c => pc'[d] = pc[d] /\ cur'[d] = cur[d] /\ hdrMd'[d] = hdrMd[d]
    BY <1>1, <1>5, <2>1 DEF PnaInv6, PnaOK6, PnaTyped
  <2>5. pc'[c] = "main" /\ cur'[c] = s /\ hdrMd'[c] = Parsed6(rcvd[s])
    BY <1>1, <1>3, <1>5, <2>1 DEF PnaInv6, PnaOK6, PnaTyped
  <2>6. \A d \in Cpus : pc[d] # "idle" => cur[d] \in Skbs /\ cur[d] # s /\ loc[cur[d]] = "cpu"
    BY <1>1, <1>2 DEF PnaInv6, CpuInv
  <2>7. \A t \in Skbs : t # s => loc'[t] = loc[t]
    BY <1>1, <2>1 DEF PnaInv6, PnaOK6, PnaTyped
  <2>8. loc'[s] = "cpu"
    BY <1>1, <2>1 DEF PnaInv6, PnaOK6, PnaTyped
  <2>9. CpuInv'
    BY <1>1, <2>4, <2>5, <2>6, <2>7, <2>8 DEF PnaInv6, CpuInv
  <2>10. ScratchInv6'
    BY <1>1, <1>2, <1>5, <2>2, <2>4, <2>5 DEF PnaInv6, ScratchInv6
  <2>11. SkbInv6'
    BY <1>1, <1>5, <2>7, <2>8 DEF PnaInv6, SkbInv6
  <2>12. TableSound6'
    BY <1>1, <1>4, <1>5, <2>7, <2>8, SoundKept6
  <2> QED
    BY <1>6, <2>3, <2>9, <2>10, <2>11, <2>12, IndInvParts6 DEF PnaInv6
<1> QED
  BY <1>7, <1>8

(***************************************************************************)
(* What holds of the packet of a CPU at work.                              *)
(***************************************************************************)
LEMMA AtWork6 ==
  ASSUME PnaInv6, NEW c \in Cpus, pc[c] # "idle"
  PROVE  /\ cur[c] \in Skbs /\ loc[cur[c]] = "cpu"
         /\ rcvd[cur[c]] \in Frame6 /\ port[cur[c]] \in Nat /\ hdrMd[c] \in HdrMd6
         /\ cb[cur[c]] \in Cb /\ cb[cur[c]].drop = FALSE /\ cb[cur[c]].egress_port = 0
         /\ cb[cur[c]].pass_to_kernel => ~Rejected6(rcvd[cur[c]])
         /\ ~RejectedByParser6(rcvd[cur[c]])
         /\ pc[c] = "main" => /\ hdrMd[c] = Parsed6(rcvd[cur[c]])
                              /\ frame[cur[c]] = rcvd[cur[c]]
<1>1. cur[c] \in Skbs /\ loc[cur[c]] = "cpu"
  BY DEF PnaInv6, CpuInv
<1>2. cb[cur[c]] \in Cb /\ ~cb[cur[c]].drop /\ cb[cur[c]].egress_port = 0
  BY <1>1 DEF PnaInv6, PnaOK6, PnaTyped, SkbInv6
<1>3. cb[cur[c]].drop = FALSE
  BY <1>2 DEF Cb
<1> QED
  BY <1>1, <1>2, <1>3 DEF PnaInv6, PnaOK6, PnaTyped, SkbInv6, ScratchInv6

(***************************************************************************)
(* A packet marked for the kernel, or with metadata and too short.         *)
(***************************************************************************)
LEMMA IngressEarlyInv6 ==
  ASSUME IndInv6, NEW c \in Cpus, IngressEarly6(c)
  PROVE  IndInv6'
<1>1. PnaInv6 /\ TableOK6 /\ TableSound6
  BY IndInvParts6
<1>2. table' = table /\ pc[c] = "main"
  BY DEF IngressEarly6, EarlyReturn, PassToKernel, MetadataShot
<1>3. PnaInv6' /\ \A s \in Skbs : loc[s] # "new" =>
                     loc'[s] # "new" /\ rcvd'[s] = rcvd[s] /\ port'[s] = port[s]
  <2>1. CASE PassToKernel(c)
    <3>1. /\ cb[cur[c]].pass_to_kernel
          /\ Leave(c, "stack", rcvd[cur[c]], cb[cur[c]], hdrMd[c])
      BY <1>1, <1>2, <2>1, AtWork6 DEF PassToKernel
    <3> QED
      BY <1>1, <1>2, <3>1, AtWork6, LeaveKeeps6
  <2>2. CASE MetadataShot(c)
    <3>1. /\ MetadataFails(rcvd[cur[c]])
          /\ Leave(c, "dropped", rcvd[cur[c]], cb[cur[c]], hdrMd[c])
      BY <1>1, <1>2, <2>2, AtWork6 DEF MetadataShot
    <3>2. Rejected6(rcvd[cur[c]])
      BY <3>1 DEF Rejected6
    <3> QED
      BY <1>1, <1>2, <3>1, <3>2, AtWork6, LeaveKeeps6
  <2> QED
    BY <2>1, <2>2 DEF IngressEarly6, EarlyReturn
<1>4. TableOK6'
  BY <1>1, <1>2 DEF TableOK6
<1>5. TableSound6'
  BY <1>1, <1>2, <1>3, SoundKept6
<1> QED
  BY <1>3, <1>4, <1>5, IndInvParts6

(***************************************************************************)
(* When the main block lets its packet go.                                 *)
(***************************************************************************)
LEMMA FinishKeeps6 ==
  ASSUME PnaInv6, NEW c \in Cpus, pc[c] # "idle", ~MetadataFails(rcvd[cur[c]]),
         Finish6(c, RestoreEtherType(rcvd[cur[c]]), SetMeta6(Parsed6(rcvd[cur[c]])))
  PROVE  /\ PnaInv6'
         /\ \A s \in Skbs : loc[s] # "new" =>
              loc'[s] # "new" /\ rcvd'[s] = rcvd[s] /\ port'[s] = port[s]
<1> DEFINE f == rcvd[cur[c]]
           md == SetMeta6(Parsed6(f))
           b == [drop |-> FALSE, egress_port |-> 0, pass_to_kernel |-> TRUE]
<1>1. Leave(c, "ingress", f, b, md)
  BY AtWork6, FinishResult6
<1>2. b \in Cb /\ b.drop = FALSE /\ b.egress_port = 0
  BY DEF Cb
<1>3. f \in Frame6 /\ ~Rejected6(f)
  BY AtWork6 DEF Rejected6
<1>4. md \in HdrMd6
  BY <1>3, ParserResult6, MdTypes6
<1> HIDE DEF b, md
<1> QED
  BY <1>1, <1>2, <1>3, <1>4, LeaveKeeps6

(***************************************************************************)
(* The lookup finds the flow.                                              *)
(***************************************************************************)
LEMMA HitInv6 ==
  ASSUME IndInv6, NEW c \in Cpus, Hit6(c)
  PROVE  IndInv6'
<1>1. PnaInv6 /\ TableOK6 /\ TableSound6
  BY IndInvParts6
<1> DEFINE f == rcvd[cur[c]]
           k == TableKey6(port[cur[c]], SetMeta6(hdrMd[c]))
<1>2. pc[c] = "main" /\ ~MetadataFails(frame[cur[c]])
  BY DEF Hit6, EntersMain
<1>3. hdrMd[c] = Parsed6(f) /\ frame[cur[c]] = f
  BY <1>1, <1>2, AtWork6
<1>4. Finish6(c, RestoreEtherType(f), SetMeta6(Parsed6(f))) /\ ~MetadataFails(f)
  BY <1>2, <1>3 DEF Hit6
<1>5. k \in DOMAIN table /\ table' = Refresh(table, k)
  BY DEF Hit6, Value
<1>6. PnaInv6' /\ \A s \in Skbs : loc[s] # "new" =>
                     loc'[s] # "new" /\ rcvd'[s] = rcvd[s] /\ port'[s] = port[s]
  BY <1>1, <1>2, <1>4, FinishKeeps6
<1> HIDE DEF k
<1>7. TableOK6' /\ DOMAIN table' = DOMAIN table
  <2> DEFINE e == [age |-> 0, dynamic |-> table[k].dynamic]
  <2>1. table' = Put(table, k, e)
    BY <1>5 DEF Refresh
  <2>2. e \in Entry
    BY <1>1, <1>5, TableOps DEF TableOK6
  <2>3. DOMAIN table \cup {k} = DOMAIN table
    BY <1>5
  <2> HIDE DEF e
  <2>4. DOMAIN table' = DOMAIN table /\ table' \in [DOMAIN table -> Entry]
    BY <1>1, <2>1, <2>2, <2>3, TableOps DEF TableOK6
  <2> QED
    BY <1>1, <2>4 DEF TableOK6
<1>8. TableSound6'
  BY <1>1, <1>6, <1>7, SoundKept6
<1> QED
  BY <1>6, <1>7, <1>8, IndInvParts6

(***************************************************************************)
(* The lookup misses: the CPU will run ct_flow_miss.                       *)
(***************************************************************************)
LEMMA MissInv6 ==
  ASSUME IndInv6, NEW c \in Cpus, Miss6(c)
  PROVE  IndInv6'
<1>1. PnaInv6 /\ TableOK6 /\ TableSound6
  BY IndInvParts6
<1> DEFINE q == cur[c]
           f == rcvd[q]
<1>2. pc[c] = "main" /\ ~MetadataFails(frame[q])
  BY DEF Miss6, EntersMain
<1>3. q \in Skbs /\ loc[q] = "cpu" /\ hdrMd[c] = Parsed6(f) /\ frame[q] = f /\ f \in Frame6
      /\ ~RejectedByParser6(f)
  BY <1>1, <1>2, AtWork6
<1>4. /\ pc' = [pc EXCEPT ![c] = "ct_flow_miss"]
      /\ hdrMd' = [hdrMd EXCEPT ![c] = SetMeta6(Parsed6(f))]
      /\ frame' = [frame EXCEPT ![q] = RestoreEtherType(f)]
      /\ loc' = loc /\ port' = port /\ cb' = cb /\ cur' = cur /\ rcvd' = rcvd /\ table' = table
  <2>1. frame' = [frame EXCEPT ![q] = RestoreEtherType(frame[q])]
    BY DEF Miss6
  <2> QED
    BY <1>3, <2>1 DEF Miss6
<1>5. SetMeta6(Parsed6(f)) \in HdrMd6 /\ RestoreEtherType(f) \in Frame6
  BY <1>2, <1>3, ParserResult6, MdTypes6, WriteBack6
<1>6. PnaOK6'
  BY <1>1, <1>4, <1>5 DEF PnaInv6, PnaOK6, PnaTyped
<1>7. \A d \in Cpus : d # c => pc'[d] = pc[d] /\ hdrMd'[d] = hdrMd[d]
  BY <1>1, <1>4 DEF PnaInv6, PnaOK6, PnaTyped
<1>8. pc'[c] = "ct_flow_miss" /\ hdrMd'[c] = SetMeta6(Parsed6(f)) /\ frame'[q] = RestoreEtherType(f)
  BY <1>1, <1>3, <1>4 DEF PnaInv6, PnaOK6, PnaTyped
<1>9. \A s \in Skbs : s # q => frame'[s] = frame[s]
  BY <1>1, <1>4 DEF PnaInv6, PnaOK6, PnaTyped
<1>10. CpuInv'
  BY <1>1, <1>2, <1>4, <1>7 DEF PnaInv6, CpuInv
<1>11. \A d \in Cpus : d # c /\ pc[d] # "idle" => cur[d] \in Skbs /\ cur[d] # q
  BY <1>1, <1>2 DEF PnaInv6, CpuInv
<1>12. ScratchInv6'
  <2>1. SUFFICES ASSUME NEW d \in Cpus
                 PROVE  /\ pc'[d] # "idle" => ~RejectedByParser6(rcvd[cur[d]])
                        /\ pc'[d] = "main" => /\ hdrMd'[d] = Parsed6(rcvd[cur[d]])
                                              /\ frame'[cur[d]] = rcvd[cur[d]]
                        /\ pc'[d] = "ct_flow_miss" =>
                             /\ ~MetadataFails(rcvd[cur[d]])
                             /\ hdrMd'[d] = SetMeta6(Parsed6(rcvd[cur[d]]))
                             /\ frame'[cur[d]] = RestoreEtherType(rcvd[cur[d]])
    BY <1>4 DEF ScratchInv6
  <2>2. CASE d = c
    BY <1>2, <1>3, <1>8, <2>2
  <2>3. CASE d # c
    BY <1>1, <1>7, <1>9, <1>11, <2>3 DEF PnaInv6, ScratchInv6
  <2> QED
    BY <2>2, <2>3
<1>13. SkbInv6'
  BY <1>1, <1>3, <1>4, <1>9 DEF PnaInv6, SkbInv6
<1>14. TableOK6'
  BY <1>1, <1>4 DEF TableOK6
<1>15. TableSound6'
  BY <1>1, <1>4, SoundKept6
<1> QED
  BY <1>6, <1>10, <1>12, <1>13, <1>14, <1>15, IndInvParts6 DEF PnaInv6

(***************************************************************************)
(* ct_flow_miss adds at most the flow of its own packet, whatever happened *)
(* to the table since the lookup.                                          *)
(***************************************************************************)
LEMMA FlowMissInv6 ==
  ASSUME IndInv6, NEW c \in Cpus, ct_flow_miss6(c)
  PROVE  IndInv6'
<1>1. PnaInv6 /\ TableOK6 /\ TableSound6
  BY IndInvParts6
<1> DEFINE f == rcvd[cur[c]]
           k == TableKey6(port[cur[c]], hdrMd[c])
<1>2. pc[c] = "ct_flow_miss"
  BY DEF ct_flow_miss6
<1>3. /\ cur[c] \in Skbs /\ loc[cur[c]] = "cpu" /\ f \in Frame6 /\ port[cur[c]] \in Nat
      /\ ~RejectedByParser6(f)
  BY <1>1, <1>2, AtWork6
<1>4. /\ ~MetadataFails(f)
      /\ hdrMd[c] = SetMeta6(Parsed6(f))
      /\ frame[cur[c]] = RestoreEtherType(f)
  BY <1>1, <1>2 DEF PnaInv6, ScratchInv6
<1>5. Finish6(c, RestoreEtherType(f), SetMeta6(Parsed6(f)))
  BY <1>4 DEF ct_flow_miss6
<1>6. PnaInv6' /\ \A s \in Skbs : loc[s] # "new" =>
                     loc'[s] # "new" /\ rcvd'[s] = rcvd[s] /\ port'[s] = port[s]
  BY <1>1, <1>2, <1>4, <1>5, FinishKeeps6
<1>7. k = FlowOf6(port[cur[c]], f)
  BY <1>3, <1>4, ParsedKey6
<1>8. k \in Key6
  BY <1>3, <1>7, FlowIsKey6
<1>9. table' = CreateOnMiss(table, k)
  BY DEF ct_flow_miss6
<1> HIDE DEF k
<1>10. table' = table \/ table' = Put(table, k, [age |-> 0, dynamic |-> TRUE])
  BY <1>9 DEF CreateOnMiss, NewEntry
<1>11. TableOK6' /\ DOMAIN table' \subseteq DOMAIN table \cup {k}
  <2>1. CASE table' = table
    BY <1>1, <2>1 DEF TableOK6
  <2>2. CASE table' = Put(table, k, [age |-> 0, dynamic |-> TRUE])
    <3>1. DOMAIN table' = DOMAIN table \cup {k} /\ table' \in [DOMAIN table \cup {k} -> Entry]
      BY <1>1, <2>2, TableOps DEF TableOK6
    <3> QED
      BY <1>1, <1>8, <3>1 DEF TableOK6
  <2> QED
    BY <1>10, <2>1, <2>2
<1>12. ~Rejected6(f)
  BY <1>3, <1>4 DEF Rejected6
<1>13. TableSound6'
  <2>1. \A x \in DOMAIN table' \ DOMAIN table :
          \E s \in Skbs : loc[s] # "new" /\ ~Rejected6(rcvd[s]) /\ x = FlowOf6(port[s], rcvd[s])
    BY <1>3, <1>7, <1>11, <1>12
  <2> QED
    BY <1>1, <1>6, <2>1, SoundKept6
<1> QED
  BY <1>6, <1>11, <1>13, IndInvParts6

(***************************************************************************)
(* The timers and the control plane change the table only.                 *)
(***************************************************************************)
LEMMA TableStepInv6 ==
  ASSUME IndInv6, UNCHANGED pnaVars, TableOK6',
         DOMAIN table' \subseteq DOMAIN table \cup CtrlKeys6
  PROVE  IndInv6'
<1>1. PnaInv6 /\ TableOK6 /\ TableSound6
  BY IndInvParts6
<1>2. PnaInv6'
  BY <1>1 DEF PnaInv6, PnaOK6, PnaTyped, CpuInv, ScratchInv6, SkbInv6, pnaVars
<1>3. TableSound6'
  BY <1>1, SoundKept6 DEF pnaVars
<1> QED
  BY <1>2, <1>3, IndInvParts6

(***************************************************************************)
(* Time passing changes the ages only, and none beyond the timeout.        *)
(***************************************************************************)
LEMMA TickInv6 ==
  ASSUME IndInv6, Tick
  PROVE  IndInv6'
<1>1. TableOK6
  BY IndInvParts6
<1>2. DOMAIN table' = DOMAIN table
  BY DEF Tick
<1>3. \A k \in DOMAIN table : table'[k] \in Entry
  <2> SUFFICES ASSUME NEW k \in DOMAIN table
               PROVE  table'[k] \in Entry
    OBVIOUS
  <2>1. table'[k] = IF table[k].dynamic /\ table[k].age < IdleTimeout
                      THEN [age |-> table[k].age + 1, dynamic |-> TRUE] ELSE table[k]
    BY DEF Tick
  <2>2. table[k] \in Entry /\ table[k].age \in 0 .. IdleTimeout
    BY <1>1 DEF TableOK6, Entry
  <2>3. table[k].age < IdleTimeout => table[k].age + 1 \in 0 .. IdleTimeout
    BY <2>2, IdleTimeoutAssumption
  <2>4. table[k].age < IdleTimeout => [age |-> table[k].age + 1, dynamic |-> TRUE] \in Entry
    BY <2>3 DEF Entry
  <2> QED
    BY <2>1, <2>2, <2>4
<1>4. TableOK6'
  <2>1. table' = [k \in DOMAIN table |-> table'[k]]
    BY DEF Tick
  <2> QED
    BY <1>1, <1>2, <1>3, <2>1 DEF TableOK6
<1> QED
  BY <1>2, <1>4, TableStepInv6 DEF Tick

(***************************************************************************)
(* Expiry and deletion by the control plane take an entry away.            *)
(***************************************************************************)
LEMMA RemoveInv6 ==
  ASSUME IndInv6, NEW k, Expire(k) \/ CtrlDelete(k)
  PROVE  IndInv6'
<1>1. TableOK6
  BY IndInvParts6
<1>2. table' = Remove(table, k) /\ UNCHANGED pnaVars
  BY DEF Expire, CtrlDelete
<1>3. DOMAIN table' \subseteq DOMAIN table /\ table' \in [DOMAIN table' -> Entry]
  BY <1>1, <1>2, TableOps DEF TableOK6
<1>4. TableOK6'
  BY <1>1, <1>3 DEF TableOK6
<1> QED
  BY <1>2, <1>3, <1>4, TableStepInv6

(***************************************************************************)
(* The control plane enters one of its own keys.                           *)
(***************************************************************************)
LEMMA CtrlCreateInv6 ==
  ASSUME IndInv6, NEW k \in CtrlKeys6, CtrlCreate(k)
  PROVE  IndInv6'
<1>1. TableOK6
  BY IndInvParts6
<1>2. table' = Put(table, k, [age |-> 0, dynamic |-> FALSE]) /\ UNCHANGED pnaVars
  BY DEF CtrlCreate
<1>3. DOMAIN table' = DOMAIN table \cup {k} /\ table' \in [DOMAIN table \cup {k} -> Entry]
  BY <1>1, <1>2, TableOps DEF TableOK6
<1>4. TableOK6'
  BY <1>1, <1>3, CtrlKeysAssumption6 DEF TableOK6
<1> QED
  BY <1>2, <1>3, <1>4, TableStepInv6

(***************************************************************************)
(* Every step keeps the invariant.                                         *)
(***************************************************************************)
LEMMA NextInv6 == IndInv6 /\ [Next6]_vars => IndInv6'
<1> SUFFICES ASSUME IndInv6, [Next6]_vars
             PROVE  IndInv6'
  OBVIOUS
<1>1. ASSUME NEW s \in Skbs, Receive6(s)
      PROVE  IndInv6'
  BY <1>1, ReceiveInv6
<1>2. ASSUME NEW c \in Cpus, NEW s \in Skbs, Parse6(c, s)
      PROVE  IndInv6'
  BY <1>2, ParseInv6
<1>3. ASSUME NEW c \in Cpus, Main6(c)
      PROVE  IndInv6'
  BY <1>3, IngressEarlyInv6, HitInv6, MissInv6, FlowMissInv6 DEF Main6
<1>4. CASE Tick
  BY <1>4, TickInv6
<1>5. ASSUME NEW k \in DOMAIN table, Expire(k) \/ CtrlDelete(k)
      PROVE  IndInv6'
  BY <1>5, RemoveInv6
<1>6. ASSUME NEW k \in CtrlKeys6, CtrlCreate(k)
      PROVE  IndInv6'
  BY <1>6, CtrlCreateInv6
<1>7. CASE UNCHANGED vars
  <2>1. UNCHANGED pnaVars /\ table' = table
    BY <1>7 DEF vars
  <2>2. TableOK6'
    BY <2>1, IndInvParts6 DEF TableOK6
  <2> QED
    BY <2>1, <2>2, TableStepInv6
<1> QED
  BY <1>1, <1>2, <1>3, <1>4, <1>5, <1>6, <1>7 DEF Next6

(***************************************************************************)
(* The inductive invariant holds in every reachable state of               *)
(* flowtracker_ipv6.                                                       *)
(***************************************************************************)
LEMMA Invariant6 == Spec6 => []IndInv6
BY InitInv6, NextInv6, PTL DEF Spec6

-----------------------------------------------------------------------------
(* Theorems *)

(***************************************************************************)
(* Type correctness.                                                       *)
(***************************************************************************)
THEOREM TypeCorrect6 == Spec6 => []TypeOK6
<1>1. IndInv6 => TypeOK6
  BY DEF IndInv6
<1> QED
  BY <1>1, Invariant6, PTL

(***************************************************************************)
(* No entry of ct_flow_table comes from a packet that was never received   *)
(* or is rejected, however CPUs, timers and control plane interleave       *)
(* between the lookup and the creation.                                    *)
(***************************************************************************)
THEOREM TableIsSound6 == Spec6 => []TableSound6
<1>1. IndInv6 => TableSound6
  BY DEF IndInv6
<1> QED
  BY <1>1, Invariant6, PTL

(***************************************************************************)
(* The per-CPU map never serves a CPU another packet's headers.            *)
(***************************************************************************)
THEOREM KeysAreOwnFlows6 == Spec6 => []KeyIsOwnFlow6
<1>1. IndInv6 => KeyIsOwnFlow6
  <2> SUFFICES ASSUME IndInv6, NEW c \in Cpus, pc[c] # "idle"
               PROVE  TableKey6(port[cur[c]], SetMeta6(hdrMd[c])) = FlowOf6(port[cur[c]], rcvd[cur[c]])
    BY DEF KeyIsOwnFlow6
  <2> DEFINE f == rcvd[cur[c]]
  <2>1. PnaInv6
    BY IndInvParts6
  <2>2. f \in Frame6 /\ ~RejectedByParser6(f)
    BY <2>1, AtWork6
  <2>3. TableKey6(port[cur[c]], SetMeta6(Parsed6(f))) = FlowOf6(port[cur[c]], f)
    BY <2>2, ParsedKey6
  <2>4. hdrMd[c] = Parsed6(f) \/ hdrMd[c] = SetMeta6(Parsed6(f))
    BY <2>1 DEF PnaInv6, PnaOK6, PnaTyped, ScratchInv6
  <2>5. TableKey6(port[cur[c]], SetMeta6(SetMeta6(Parsed6(f)))) = TableKey6(port[cur[c]], SetMeta6(Parsed6(f)))
    BY <2>2, ParserResult6, SetMetaFields6
  <2> QED
    BY <2>3, <2>4, <2>5
<1> QED
  BY <1>1, Invariant6, PTL

(***************************************************************************)
(* The deparser never asks bpf_skb_adjust_room for room and never finds    *)
(* the packet too short.                                                   *)
(***************************************************************************)
THEOREM HeadersAlwaysFit6 == Spec6 => []HeadersFit6
<1>1. IndInv6 => HeadersFit6
  <2> SUFFICES ASSUME IndInv6, NEW c \in Cpus, pc[c] # "idle"
               PROVE  /\ OutHeaderLength6(hdrMd[c]) = hdrMd[c].offset
                      /\ hdrMd[c].offset <= frame[cur[c]].len
    BY DEF HeadersFit6
  <2> DEFINE f == rcvd[cur[c]]
  <2>1. PnaInv6
    BY IndInvParts6
  <2>2. f \in Frame6 /\ ~RejectedByParser6(f)
    BY <2>1, AtWork6
  <2>3. CASE pc[c] = "main"
    <3>1. hdrMd[c] = Parsed6(f) /\ frame[cur[c]] = f
      BY <2>1, <2>3, AtWork6
    <3> QED
      BY <2>2, <3>1, ParsedLength6
  <2>4. CASE pc[c] = "ct_flow_miss"
    <3>1. /\ hdrMd[c] = SetMeta6(Parsed6(f)) /\ frame[cur[c]] = RestoreEtherType(f)
          /\ ~MetadataFails(f)
      BY <2>1, <2>4 DEF PnaInv6, ScratchInv6
    <3>2. RestoreEtherType(f).len = f.len
      BY <2>2, <3>1, WriteBack6
    <3> QED
      BY <2>2, <3>1, <3>2, ParsedLength6
  <2> QED
    BY <2>1, <2>3, <2>4 DEF PnaInv6, PnaOK6, PnaTyped
<1> QED
  BY <1>1, Invariant6, PTL

(***************************************************************************)
(* A packet is dropped only if the parser or the metadata check rejects it *)
(* as received.                                                            *)
(***************************************************************************)
THEOREM OnlyRejectedDropped6 == Spec6 => []DropsOnlyRejected6
<1>1. IndInv6 => DropsOnlyRejected6
  BY DEF IndInv6, SkbInv6, DropsOnlyRejected6
<1> QED
  BY <1>1, Invariant6, PTL

(***************************************************************************)
(* The bit fields of the header a CPU has at work, written nibble by       *)
(* nibble over whatever word any packet holds, are the word received.      *)
(***************************************************************************)
THEOREM BitFieldsWritten == Spec6 => []BitFieldsOverwrite
<1>1. IndInv6 => BitFieldsOverwrite
  <2> SUFFICES ASSUME IndInv6, NEW c \in Cpus, NEW n \in Skbs, pc[c] # "idle", hdrMd[c].ipv6.valid
               PROVE  WriteBitFields(frame[n].first, hdrMd[c].ipv6) = rcvd[cur[c]].first
    BY DEF BitFieldsOverwrite
  <2> DEFINE f == rcvd[cur[c]]
  <2>1. PnaInv6
    BY IndInvParts6
  <2>2. f \in Frame6 /\ ~RejectedByParser6(f)
    BY <2>1, AtWork6
  <2>3. frame[n].first \in Bytes4
    <3>1. frame[n] \in Frame6
      BY <2>1 DEF PnaInv6, PnaOK6, PnaTyped
    <3> QED
      BY <3>1 DEF Frame6
  <2>4. hdrMd[c] = Parsed6(f) \/ hdrMd[c] = SetMeta6(Parsed6(f))
    BY <2>1 DEF PnaInv6, PnaOK6, PnaTyped, ScratchInv6
  <2>5. hdrMd[c].ipv6 = Parsed6(f).ipv6
    BY <2>2, <2>4, ParserResult6, SetMetaFields6
  <2>6. Parsed6(f) \in {ZeroHdrMd6, EthMd6(f)} \/ Parsed6(f) \in {Ipv6Md(f), TcpMd6(f), UdpMd6(f)}
    BY <2>2, AcceptedCases6
  <2>7. Parsed6(f).ipv6 = ZeroIpv6 \/ Parsed6(f).ipv6 = Ipv6Of(f)
    BY <2>2, <2>6, MdFields6, ZenonT(60)
  <2>8. ZeroIpv6.valid = FALSE
    BY DEF ZeroIpv6
  <2>9. hdrMd[c].ipv6 = Ipv6Of(f)
    BY <2>5, <2>7, <2>8
  <2> QED
    BY <2>2, <2>3, <2>9, FieldsWritten
<1> QED
  BY <1>1, Invariant6, PTL

(***************************************************************************)
(* The stack receives the packets bit for bit as they came.                *)
(***************************************************************************)
THEOREM DeliveredUnchanged6 == Spec6 => []DeliversUnchanged6
<1>1. IndInv6 => DeliversUnchanged6
  BY DEF IndInv6, SkbInv6, DeliversUnchanged6
<1> QED
  BY <1>1, Invariant6, PTL

-----------------------------------------------------------------------------
(***************************************************************************)
(* The refinement: the IPv6 flow tracker implements Tracker.               *)
(***************************************************************************)

-----------------------------------------------------------------------------
(* PendingInv *)

(***************************************************************************)
(* A CPU that is done with its packet touches no other CPU's packet.       *)
(***************************************************************************)
LEMMA LeavePending6 ==
  ASSUME PnaInv6, PendingInv, NEW c \in Cpus, pc[c] # "idle", NEW l, NEW f, NEW b, NEW md,
         Leave(c, l, f, b, md)
  PROVE  PendingInv'
<1>1. /\ cb' = [cb EXCEPT ![cur[c]] = b]
      /\ pc' = [pc EXCEPT ![c] = "idle"]
      /\ cur' = [cur EXCEPT ![c] = NoSkb]
  BY DEF Leave
<1> SUFFICES ASSUME NEW d \in Cpus, pc'[d] = "ct_flow_miss"
             PROVE  ~cb'[cur'[d]].pass_to_kernel
  BY DEF PendingInv
<1>2. d # c /\ pc[d] = "ct_flow_miss" /\ cur'[d] = cur[d]
  BY <1>1 DEF PnaInv6, PnaOK6, PnaTyped
<1>3. cur[d] \in Skbs /\ cur[d] # cur[c]
  BY <1>2 DEF PnaInv6, CpuInv
<1>4. cb'[cur[d]] = cb[cur[d]]
  BY <1>1, <1>3 DEF PnaInv6, PnaOK6, PnaTyped
<1> QED
  BY <1>2, <1>4 DEF PendingInv

(***************************************************************************)
(* The packets that the main block lets go, on a hit and after             *)
(* ct_flow_miss, are back at their ingress as they came, marked for the    *)
(* kernel.                                                                 *)
(***************************************************************************)
LEMMA MainLeaves6 ==
  ASSUME PnaInv6, NEW c \in Cpus, Hit6(c) \/ ct_flow_miss6(c)
  PROVE  /\ pc[c] # "idle" /\ ~Rejected6(rcvd[cur[c]])
         /\ Leave(c, "ingress", rcvd[cur[c]],
                  [drop |-> FALSE, egress_port |-> 0, pass_to_kernel |-> TRUE],
                  SetMeta6(Parsed6(rcvd[cur[c]])))
<1> DEFINE f == rcvd[cur[c]]
<1>1. CASE Hit6(c)
  <2>1. pc[c] = "main" /\ ~MetadataFails(frame[cur[c]])
    BY <1>1 DEF Hit6, EntersMain
  <2>2. hdrMd[c] = Parsed6(f) /\ frame[cur[c]] = f
    BY <2>1, AtWork6
  <2>3. Finish6(c, RestoreEtherType(f), SetMeta6(Parsed6(f))) /\ ~MetadataFails(f)
    BY <1>1, <2>1, <2>2 DEF Hit6
  <2> QED
    BY <2>1, <2>3, AtWork6, FinishResult6 DEF Rejected6
<1>2. CASE ct_flow_miss6(c)
  <2>1. pc[c] = "ct_flow_miss"
    BY <1>2 DEF ct_flow_miss6
  <2>2. /\ ~MetadataFails(f)
        /\ hdrMd[c] = SetMeta6(Parsed6(f))
        /\ frame[cur[c]] = RestoreEtherType(f)
    BY <2>1 DEF PnaInv6, ScratchInv6
  <2>3. Finish6(c, RestoreEtherType(f), SetMeta6(Parsed6(f)))
    BY <1>2, <2>2 DEF ct_flow_miss6
  <2> QED
    BY <2>1, <2>2, <2>3, AtWork6, FinishResult6 DEF Rejected6
<1> QED
  BY <1>1, <1>2

(***************************************************************************)
(* Every step keeps PendingInv.                                            *)
(***************************************************************************)
LEMMA NextPending6 ==
  ASSUME IndInv6, PendingInv, [Next6]_vars
  PROVE  PendingInv'
<1>1. PnaInv6
  BY IndInvParts6
<1>2. ASSUME NEW s \in Skbs, Receive6(s)
      PROVE  PendingInv'
  BY <1>2 DEF Receive6, Arrive, PendingInv
<1>3. ASSUME NEW c \in Cpus, NEW s \in Skbs, Parse6(c, s)
      PROVE  PendingInv'
  <2> DEFINE r == run_parser6(frame[s], hdrMd[c])
  <2>1. TcParseFunc(c, s, r)
    BY <1>3 DEF Parse6
  <2> HIDE DEF r
  <2>2. /\ cb' = cb
        /\ \/ pc' = pc /\ cur' = cur
           \/ pc' = [pc EXCEPT ![c] = "main"] /\ cur' = [cur EXCEPT ![c] = s]
    BY <2>1 DEF TcParseFunc
  <2> QED
    BY <1>1, <2>2 DEF PendingInv, PnaInv6, PnaOK6, PnaTyped
<1>4. ASSUME NEW c \in Cpus, IngressEarly6(c)
      PROVE  PendingInv'
  <2>1. pc[c] # "idle" /\ \E l \in {"stack", "dropped"} : Leave(c, l, frame[cur[c]], cb[cur[c]], hdrMd[c])
    BY <1>4 DEF IngressEarly6, EarlyReturn, PassToKernel, MetadataShot
  <2> QED
    BY <1>1, <2>1, LeavePending6
<1>5. ASSUME NEW c \in Cpus, Hit6(c) \/ ct_flow_miss6(c)
      PROVE  PendingInv'
  BY <1>1, <1>5, MainLeaves6, LeavePending6
<1>6. ASSUME NEW c \in Cpus, Miss6(c)
      PROVE  PendingInv'
  <2>1. /\ ~cb[cur[c]].pass_to_kernel
        /\ pc' = [pc EXCEPT ![c] = "ct_flow_miss"] /\ cb' = cb /\ cur' = cur
    BY <1>6 DEF Miss6, EntersMain
  <2> QED
    BY <1>1, <2>1 DEF PendingInv, PnaInv6, PnaOK6, PnaTyped
<1>7. CASE UNCHANGED pnaVars
  BY <1>7 DEF pnaVars, PendingInv
<1>8. Tick \/ (\E k : Expire(k) \/ CtrlDelete(k) \/ CtrlCreate(k)) \/ UNCHANGED vars => UNCHANGED pnaVars
  BY DEF Tick, Expire, CtrlDelete, CtrlCreate, vars
<1> QED
  BY <1>2, <1>3, <1>4, <1>5, <1>6, <1>7, <1>8 DEF Next6, Main6
-----------------------------------------------------------------------------
(* The mapping *)

(***************************************************************************)
(* A step that changes no packet in a way that Tracker sees.               *)
(***************************************************************************)
LEMMA SamePkts6 ==
  ASSUME \A s \in Skbs : PktOf6(loc'[s], port'[s], rcvd'[s]) = PktOf6(loc[s], port[s], rcvd[s])
  PROVE  AbstractPkt6' = AbstractPkt6
BY DEF AbstractPkt6

(***************************************************************************)
(* A packet that has been received keeps its flow.                         *)
(***************************************************************************)
LEMMA KeptPkts6 ==
  ASSUME port' = port, rcvd' = rcvd,
         \A s \in Skbs : loc'[s] = "new" <=> loc[s] = "new"
  PROVE  AbstractPkt6' = AbstractPkt6
<1>1. ASSUME NEW s \in Skbs
      PROVE  PktOf6(loc'[s], port'[s], rcvd'[s]) = PktOf6(loc[s], port[s], rcvd[s])
  BY DEF PktOf6
<1> QED
  BY <1>1, SamePkts6

(***************************************************************************)
(* A CPU that lets its packet go to l marked b.                            *)
(***************************************************************************)
LEMMA LeaveMaps6 ==
  ASSUME PnaInv6, NEW c \in Cpus, pc[c] # "idle",
         NEW l \in {"ingress", "stack", "dropped"}, NEW f, NEW b, NEW md,
         Leave(c, l, f, b, md)
  PROVE  /\ AbstractPkt6' = AbstractPkt6
         /\ AbstractFate' = [AbstractFate EXCEPT ![cur[c]] = FateOf(l, b)]
<1>1. cur[c] \in Skbs /\ loc[cur[c]] = "cpu"
  BY AtWork6
<1>2. /\ loc' = [loc EXCEPT ![cur[c]] = l]
      /\ cb' = [cb EXCEPT ![cur[c]] = b]
      /\ port' = port /\ rcvd' = rcvd
  BY DEF Leave
<1>3. loc'[cur[c]] = l /\ cb'[cur[c]] = b
  BY <1>1, <1>2 DEF PnaInv6, PnaOK6, PnaTyped
<1>4. \A s \in Skbs : s # cur[c] => loc'[s] = loc[s] /\ cb'[s] = cb[s]
  BY <1>1, <1>2 DEF PnaInv6, PnaOK6, PnaTyped
<1>5. \A s \in Skbs : loc'[s] = "new" <=> loc[s] = "new"
  BY <1>1, <1>3, <1>4
<1> QED
  BY <1>1, <1>2, <1>3, <1>4, <1>5, KeptPkts6, NewFate

(***************************************************************************)
(* What Tracker sees of a packet at work.                                  *)
(***************************************************************************)
LEMMA PktAtWork6 ==
  ASSUME PnaInv6, NEW c \in Cpus, pc[c] # "idle"
  PROVE  /\ AbstractPkt6[cur[c]] = IF Rejected6(rcvd[cur[c]]) THEN <<"none">>
                                   ELSE <<"flow", FlowOf6(port[cur[c]], rcvd[cur[c]])>>
         /\ AbstractFate[cur[c]] = IF cb[cur[c]].pass_to_kernel THEN "tracked" ELSE "pending"
<1>1. cur[c] \in Skbs /\ loc[cur[c]] = "cpu"
  BY AtWork6
<1> QED
  BY <1>1 DEF AbstractPkt6, AbstractFate, PktOf6, FateOf

(***************************************************************************)
(* Tracker counts its flows the way the table counts its entries.          *)
(***************************************************************************)
LEMMA SameCount6 ==
  ASSUME NEW S
  PROVE  T6!Cardinality(S) = Cardinality(S)
BY DEF Cardinality, T6!Cardinality

-----------------------------------------------------------------------------
(* The steps *)

(***************************************************************************)
(* No packet and no flow at first.                                         *)
(***************************************************************************)
LEMMA InitMaps6 == Init6 => T6!Init
<1> SUFFICES ASSUME Init6
             PROVE  T6!Init
  OBVIOUS
<1>1. \A s \in Skbs : loc[s] = "new" /\ cb[s].pass_to_kernel = FALSE
  BY DEF Init6, PnaInit, ZeroCb
<1>2. AbstractPkt6 = [s \in Skbs |-> <<>>]
  BY <1>1 DEF AbstractPkt6, PktOf6
<1>3. AbstractFate = [s \in Skbs |-> "pending"]
  BY <1>1 DEF AbstractFate, FateOf
<1>4. DOMAIN table = {}
  BY DEF Init6
<1> QED
  BY <1>2, <1>3, <1>4 DEF T6!Init, T6!NotYet

(***************************************************************************)
(* A packet arrives with its flow, or without one.                         *)
(***************************************************************************)
LEMMA ReceiveMaps6 ==
  ASSUME PnaInv6, NEW s \in Skbs, Receive6(s)
  PROVE  T6!Receive(s)
<1>1. PICK p \in Ports, f \in Frames6 : Arrive(s, p, f)
  BY DEF Receive6
<1>2. /\ loc[s] = "new"
      /\ loc' = [loc EXCEPT ![s] = "ingress"]
      /\ port' = [port EXCEPT ![s] = p]
      /\ rcvd' = [rcvd EXCEPT ![s] = f]
      /\ cb' = cb /\ table' = table
  BY <1>1 DEF Receive6, Arrive
<1>3. \A t \in Skbs : t # s => loc'[t] = loc[t] /\ port'[t] = port[t] /\ rcvd'[t] = rcvd[t]
  BY <1>2 DEF PnaInv6, PnaOK6, PnaTyped
<1>4. loc'[s] = "ingress" /\ port'[s] = p /\ rcvd'[s] = f
  BY <1>2 DEF PnaInv6, PnaOK6, PnaTyped
<1>5. FlowOf6(p, f) \in Key6
  BY PortsAssumption, FramesAssumption6, FlowIsKey6
<1>6. AbstractPkt6[s] = <<>>
  BY <1>2 DEF AbstractPkt6, PktOf6
<1>7. AbstractPkt6'[s] = <<"none">> \/ AbstractPkt6'[s] \in {"flow"} \X Key6
  <2>1. AbstractPkt6'[s] = PktOf6("ingress", p, f)
    BY <1>4 DEF AbstractPkt6
  <2> QED
    BY <1>5, <2>1 DEF PktOf6
<1>8. AbstractPkt6' = [AbstractPkt6 EXCEPT ![s] = AbstractPkt6'[s]]
  BY <1>3 DEF AbstractPkt6
<1>9. AbstractFate' = AbstractFate
  <2>1. FateOf(loc'[s], cb'[s]) = FateOf(loc[s], cb[s])
    BY <1>2, <1>4 DEF FateOf
  <2> QED
    BY <1>2, <1>3, <2>1, SameFates
<1> QED
  BY <1>2, <1>6, <1>7, <1>8, <1>9 DEF T6!Receive, T6!NotYet, T6!NoFlow

(***************************************************************************)
(* tc_parse_func drops a packet without a flow, which cannot have been     *)
(* tracked before; any other it takes to a CPU, for the first time or for  *)
(* the second.                                                             *)
(***************************************************************************)
LEMMA ParseMaps6 ==
  ASSUME PnaInv6, NEW c \in Cpus, NEW s \in Skbs, Parse6(c, s)
  PROVE  T6!Discard(s) \/ UNCHANGED T6!vars
<1> DEFINE r == run_parser6(frame[s], hdrMd[c])
<1>1. loc[s] = "ingress" /\ frame[s] = rcvd[s] /\ rcvd[s] \in Frame6
  BY DEF Parse6, TcParseFunc, PnaInv6, PnaOK6, PnaTyped, SkbInv6
<1>2. ~RejectedByParser6(rcvd[s]) => r.ret # TC_ACT_SHOT
  BY <1>1, ParserResult6 DEF TC_ACT_SHOT, Continue
<1>3. TcParseFunc(c, s, r) /\ table' = table
  BY DEF Parse6
<1> HIDE DEF r
<1>4. port' = port /\ cb' = cb /\ rcvd' = rcvd
  BY <1>3 DEF TcParseFunc
<1>5. CASE r.ret = TC_ACT_SHOT
  <2>1. loc' = [loc EXCEPT ![s] = "dropped"]
    BY <1>3, <1>5 DEF TcParseFunc
  <2>2. loc'[s] = "dropped" /\ \A t \in Skbs : t # s => loc'[t] = loc[t]
    BY <2>1 DEF PnaInv6, PnaOK6, PnaTyped
  <2>3. Rejected6(rcvd[s])
    BY <1>2, <1>5 DEF Rejected6
  <2>4. ~cb[s].pass_to_kernel
    BY <2>3 DEF PnaInv6, SkbInv6
  <2>5. AbstractPkt6[s] = <<"none">> /\ AbstractFate[s] = "pending"
    BY <1>1, <2>3, <2>4 DEF AbstractPkt6, AbstractFate, PktOf6, FateOf
  <2>6. AbstractPkt6' = AbstractPkt6
    BY <1>1, <1>4, <2>2, KeptPkts6
  <2>7. FateOf("dropped", cb'[s]) = "dropped"
    BY DEF FateOf
  <2>8. AbstractFate' = [AbstractFate EXCEPT ![s] = "dropped"]
    BY <1>4, <2>2, <2>7, NewFate
  <2> QED
    BY <1>3, <2>5, <2>6, <2>8 DEF T6!Discard, T6!NoFlow
<1>6. CASE r.ret # TC_ACT_SHOT
  <2>1. loc' = [loc EXCEPT ![s] = "cpu"]
    BY <1>3, <1>6 DEF TcParseFunc
  <2>2. loc'[s] = "cpu" /\ \A t \in Skbs : t # s => loc'[t] = loc[t]
    BY <2>1 DEF PnaInv6, PnaOK6, PnaTyped
  <2>3. AbstractPkt6' = AbstractPkt6
    BY <1>1, <1>4, <2>2, KeptPkts6
  <2>4. FateOf("cpu", cb[s]) = FateOf("ingress", cb[s])
    BY DEF FateOf
  <2>5. AbstractFate' = AbstractFate
    BY <1>1, <1>4, <2>2, <2>4, SameFates
  <2> QED
    BY <1>3, <2>3, <2>5 DEF T6!vars
<1> QED
  BY <1>5, <1>6
(***************************************************************************)
(* tc_ingress_func delivers a packet that it finds marked, and drops one   *)
(* that is too short for its metadata.                                     *)
(***************************************************************************)
LEMMA IngressEarlyMaps6 ==
  ASSUME PnaInv6, NEW c \in Cpus, IngressEarly6(c)
  PROVE  T6!Deliver(cur[c]) \/ T6!Discard(cur[c])
<1> DEFINE q == cur[c]
<1>1. pc[c] = "main" /\ table' = table
  BY DEF IngressEarly6, EarlyReturn, PassToKernel, MetadataShot
<1>2. q \in Skbs /\ frame[q] = rcvd[q]
  BY <1>1, AtWork6
<1>3. CASE PassToKernel(c)
  <2>1. cb[q].pass_to_kernel /\ Leave(c, "stack", frame[q], cb[q], hdrMd[c])
    BY <1>3 DEF PassToKernel
  <2>2. AbstractFate[q] = "tracked"
    BY <1>1, <2>1, PktAtWork6
  <2>3. FateOf("stack", cb[q]) = "delivered"
    BY DEF FateOf
  <2>4. AbstractPkt6' = AbstractPkt6 /\ AbstractFate' = [AbstractFate EXCEPT ![q] = FateOf("stack", cb[q])]
    BY <1>1, <2>1, LeaveMaps6
  <2> QED
    BY <1>1, <2>2, <2>3, <2>4 DEF T6!Deliver
<1>4. CASE MetadataShot(c)
  <2>1. /\ ~cb[q].pass_to_kernel /\ MetadataFails(frame[q])
        /\ Leave(c, "dropped", frame[q], cb[q], hdrMd[c])
    BY <1>4 DEF MetadataShot
  <2>2. Rejected6(rcvd[q])
    BY <1>2, <2>1 DEF Rejected6
  <2>3. AbstractPkt6[q] = <<"none">> /\ AbstractFate[q] = "pending"
    BY <1>1, <2>1, <2>2, PktAtWork6
  <2>4. FateOf("dropped", cb[q]) = "dropped"
    BY DEF FateOf
  <2>5. AbstractPkt6' = AbstractPkt6 /\ AbstractFate' = [AbstractFate EXCEPT ![q] = FateOf("dropped", cb[q])]
    BY <1>1, <2>1, LeaveMaps6
  <2> QED
    BY <1>1, <2>3, <2>4, <2>5 DEF T6!Discard, T6!NoFlow
<1> QED
  BY <1>3, <1>4 DEF IngressEarly6, EarlyReturn

(***************************************************************************)
(* A packet that the main block lets go is tracked, if the table has then  *)
(* changed as Tracker says.                                                *)
(***************************************************************************)
LEMMA MainTracks6 ==
  ASSUME PnaInv6, NEW c \in Cpus, Hit6(c) \/ ct_flow_miss6(c), ~cb[cur[c]].pass_to_kernel,
         DOMAIN table' = IF Cardinality(DOMAIN table) >= TEntries THEN DOMAIN table
                         ELSE DOMAIN table \cup {FlowOf6(port[cur[c]], rcvd[cur[c]])}
  PROVE  T6!Track(cur[c])
<1> DEFINE q == cur[c]
           k == FlowOf6(port[q], rcvd[q])
           b == [drop |-> FALSE, egress_port |-> 0, pass_to_kernel |-> TRUE]
<1>1. /\ pc[c] # "idle" /\ ~Rejected6(rcvd[q])
      /\ Leave(c, "ingress", rcvd[q], b, SetMeta6(Parsed6(rcvd[q])))
  BY MainLeaves6
<1>2. AbstractPkt6[q] = <<"flow", k>> /\ AbstractFate[q] = "pending"
  BY <1>1, PktAtWork6
<1>3. FateOf("ingress", b) = "tracked"
  BY DEF FateOf
<1> HIDE DEF b, k
<1>4. AbstractPkt6' = AbstractPkt6 /\ AbstractFate' = [AbstractFate EXCEPT ![q] = FateOf("ingress", b)]
  BY <1>1, LeaveMaps6
<1>5. AbstractPkt6[q] \notin {<<>>, <<"none">>} /\ AbstractPkt6[q][2] = k
  BY <1>2
<1>6. DOMAIN table' = IF Cardinality(DOMAIN table) >= TEntries THEN DOMAIN table ELSE DOMAIN table \cup {k}
  BY DEF k
<1> QED
  BY <1>2, <1>3, <1>4, <1>5, <1>6, SameCount6 DEF T6!Track, T6!NotYet, T6!NoFlow

(***************************************************************************)
(* A flow that is found is in the table: nothing more needs to be entered. *)
(***************************************************************************)
LEMMA HitMaps6 ==
  ASSUME PnaInv6, NEW c \in Cpus, Hit6(c)
  PROVE  T6!Track(cur[c])
<1> DEFINE q == cur[c]
           k == TableKey6(port[q], SetMeta6(hdrMd[c]))
<1>1. pc[c] = "main" /\ ~cb[q].pass_to_kernel
  BY DEF Hit6, EntersMain
<1>2. hdrMd[c] = Parsed6(rcvd[q]) /\ rcvd[q] \in Frame6 /\ ~RejectedByParser6(rcvd[q]) /\ port[q] \in Nat
  BY <1>1, AtWork6
<1>3. k = FlowOf6(port[q], rcvd[q])
  BY <1>2, ParsedKey6
<1>4. k \in DOMAIN table /\ table' = Refresh(table, k)
  BY DEF Hit6, Value
<1> HIDE DEF k
<1>5. DOMAIN table' = DOMAIN table \cup {k}
  BY <1>4 DEF Refresh, Put
<1>6. DOMAIN table' = DOMAIN table
  BY <1>4, <1>5
<1> QED
  BY <1>1, <1>3, <1>5, <1>6, MainTracks6

(***************************************************************************)
(* ct_flow_miss enters the flow, unless the table is full; if the flow has *)
(* been entered since the lookup, by another CPU or by the control plane,  *)
(* the failure that the program ignores makes no difference.               *)
(***************************************************************************)
LEMMA FlowMissMaps6 ==
  ASSUME PnaInv6, PendingInv, NEW c \in Cpus, ct_flow_miss6(c)
  PROVE  T6!Track(cur[c])
<1> DEFINE q == cur[c]
           k == TableKey6(port[q], hdrMd[c])
<1>1. pc[c] = "ct_flow_miss" /\ table' = CreateOnMiss(table, k)
  BY DEF ct_flow_miss6
<1>2. ~cb[q].pass_to_kernel
  BY <1>1 DEF PendingInv
<1>3. hdrMd[c] = SetMeta6(Parsed6(rcvd[q])) /\ rcvd[q] \in Frame6 /\ ~RejectedByParser6(rcvd[q]) /\ port[q] \in Nat
  BY <1>1, AtWork6 DEF PnaInv6, ScratchInv6
<1>4. k = FlowOf6(port[q], rcvd[q])
  BY <1>3, ParsedKey6
<1> HIDE DEF k
<1>5. DOMAIN Put(table, k, NewEntry) = DOMAIN table \cup {k}
  BY DEF Put
<1>6. DOMAIN table' = IF Cardinality(DOMAIN table) >= TEntries THEN DOMAIN table ELSE DOMAIN table \cup {k}
  BY <1>1, <1>5 DEF CreateOnMiss
<1> QED
  BY <1>2, <1>4, <1>6, MainTracks6

(***************************************************************************)
(* The lookup that misses decides nothing yet.                             *)
(***************************************************************************)
LEMMA MissMaps6 ==
  ASSUME PnaInv6, NEW c \in Cpus, Miss6(c)
  PROVE  UNCHANGED T6!vars
<1>1. loc' = loc /\ port' = port /\ cb' = cb /\ rcvd' = rcvd /\ table' = table
  BY DEF Miss6
<1> QED
  BY <1>1 DEF T6!vars, AbstractPkt6, AbstractFate

(***************************************************************************)
(* Timers and control plane forget flows, or enter some of their own.      *)
(***************************************************************************)
LEMMA TableMaps6 ==
  ASSUME \/ Tick
         \/ \E k \in DOMAIN table : Expire(k) \/ CtrlDelete(k)
         \/ \E k \in CtrlKeys6 : CtrlCreate(k)
  PROVE  T6!Forget \/ T6!Configure \/ UNCHANGED T6!vars
<1>1. UNCHANGED pnaVars
  BY DEF Tick, Expire, CtrlDelete, CtrlCreate
<1>2. AbstractPkt6' = AbstractPkt6 /\ AbstractFate' = AbstractFate
  BY <1>1 DEF pnaVars, AbstractPkt6, AbstractFate
<1>3. CASE Tick
  <2>1. DOMAIN table' = DOMAIN table
    BY <1>3 DEF Tick
  <2> QED
    BY <1>2, <2>1 DEF T6!vars
<1>4. ASSUME NEW k \in DOMAIN table, Expire(k) \/ CtrlDelete(k)
      PROVE  T6!Forget
  <2>1. table' = Remove(table, k)
    BY <1>4 DEF Expire, CtrlDelete
  <2>2. DOMAIN table' = DOMAIN table \ {k}
    BY <2>1 DEF Remove
  <2> QED
    BY <1>2, <2>2 DEF T6!Forget
<1>5. ASSUME NEW k \in CtrlKeys6, CtrlCreate(k)
      PROVE  T6!Configure
  <2>1. Cardinality(DOMAIN table) < TEntries /\ table' = Put(table, k, [age |-> 0, dynamic |-> FALSE])
    BY <1>5 DEF CtrlCreate
  <2>2. DOMAIN table' = DOMAIN table \cup {k}
    BY <2>1 DEF Put
  <2> QED
    BY <1>2, <2>1, <2>2, SameCount6 DEF T6!Configure
<1> QED
  BY <1>3, <1>4, <1>5

(***************************************************************************)
(* Every step of the program is a step of Tracker or none.                 *)
(***************************************************************************)
LEMMA NextMaps6 ==
  ASSUME IndInv6, PendingInv, [Next6]_vars
  PROVE  [T6!Next]_(T6!vars)
<1>1. PnaInv6
  BY IndInvParts6
<1>2. ASSUME NEW s \in Skbs, Receive6(s)
      PROVE  T6!Next
  BY <1>1, <1>2, ReceiveMaps6 DEF T6!Next
<1>3. ASSUME NEW c \in Cpus, NEW s \in Skbs, Parse6(c, s)
      PROVE  T6!Next \/ UNCHANGED T6!vars
  BY <1>1, <1>3, ParseMaps6 DEF T6!Next
<1>4. ASSUME NEW c \in Cpus, Main6(c)
      PROVE  T6!Next \/ UNCHANGED T6!vars
  <2>1. pc[c] # "idle"
    BY <1>4 DEF Main6, IngressEarly6, EarlyReturn, PassToKernel, MetadataShot, Hit6, Miss6, EntersMain,
                ct_flow_miss6
  <2>2. cur[c] \in Skbs
    BY <1>1, <2>1, AtWork6
  <2>3. \/ T6!Deliver(cur[c]) \/ T6!Discard(cur[c]) \/ T6!Track(cur[c])
        \/ UNCHANGED T6!vars
    BY <1>1, <1>4, IngressEarlyMaps6, HitMaps6, MissMaps6, FlowMissMaps6 DEF Main6
  <2> QED
    BY <2>2, <2>3 DEF T6!Next
<1>5. CASE \/ Tick
           \/ \E k \in DOMAIN table : Expire(k) \/ CtrlDelete(k)
           \/ \E k \in CtrlKeys6 : CtrlCreate(k)
  BY <1>5, TableMaps6 DEF T6!Next
<1>6. CASE UNCHANGED vars
  BY <1>6 DEF vars, pnaVars, T6!vars, AbstractPkt6, AbstractFate
<1> QED
  BY <1>2, <1>3, <1>4, <1>5, <1>6 DEF Next6

(***************************************************************************)
(* For any number of CPUs and packets, any contents and any table size,    *)
(* flowtracker_ipv6 is a Tracker: although it looks a flow up and enters   *)
(* it in two steps and ignores whether that succeeded, each packet is      *)
(* tracked once, in one step, under its own flow, before it is delivered.  *)
(***************************************************************************)
THEOREM TrackerImplemented6 == Spec6 => ImplementsTracker6
<1>1. Init6 => PendingInv
  BY DEF Init6, PnaInit, PendingInv
<1>2. IndInv6 /\ PendingInv /\ [Next6]_vars => PendingInv'
  BY NextPending6
<1>3. IndInv6 /\ PendingInv /\ [Next6]_vars => [T6!Next]_(T6!vars)
  BY NextMaps6
<1> QED
  BY <1>1, <1>2, <1>3, InitMaps6, Invariant6, PTL DEF Spec6, ImplementsTracker6, T6!Spec
=============================================================================
