-------------------------- MODULE ArpRespondProofs --------------------------
(***************************************************************************)
(* arp_responder: the inductive invariant from which its properties        *)
(* follow, for any number of CPUs, packets and entries of arp_table.       *)
(***************************************************************************)
EXTENDS ArpRespond, PnaProofs

\* The types of the variables, but for the table.
PnaOK == PnaTyped(Frame, HdrMd, {"idle", "main"})

\* A packet whose ARP header is there, but perhaps not what follows it.
HasArp(f) == IsArp(f) /\ ~(f.len < 22)

\* The map after each header.
EthMd(f)  == WithEth(ZeroHdrMd, f)
ArpMd(f)  == WithArp(EthMd(f), f)
Ipv4Md(f) == WithArpIpv4(ArpMd(f), f)

\* What a packet leaves in the map.
Extracted(f) ==
  IF WholeArp(f) THEN Ipv4Md(f)
  ELSE IF HasArp(f) THEN ArpMd(f)
  ELSE IF HasEth(f) THEN EthMd(f)
  ELSE ZeroHdrMd

\* The packets that the parser does not reject.
Accepted(f) == WholeArp(f) => f.oper = <<0, 1>>

\* The address a packet is looked up by, and whether it is answered.
Target(f) == IF WholeArp(f) THEN f.tpa ELSE 0

Answers(t, a) == a \in DOMAIN t /\ t[a] # DropEntry

(***************************************************************************)
(* The headers in a CPU's map are those of its packet as received.         *)
(***************************************************************************)
ScratchInv ==
  \A c \in Cpus : pc[c] # "idle" =>
    Accepted(rcvd[cur[c]]) /\ hdrMd[c] = Extracted(rcvd[cur[c]])

\* A packet received as r on port p that is at l with contents f and metadata
\* b.  Nothing marks it for the kernel, and what was sent for a whole ARP
\* packet is not one that the parser lets through.
SkbOK(l, p, f, b, r) ==
  /\ l \in {"new", "ingress", "cpu"} => f = r /\ b.drop = FALSE /\ b.pass_to_kernel = FALSE
  /\ l # "new" => p # 0
  /\ l # "stack"
  /\ l = "sent" /\ WholeArp(r) => ~Accepted(f)

SkbInv == \A s \in Skbs : SkbOK(loc[s], port[s], frame[s], cb[s], rcvd[s])

TableInv == DOMAIN arp \subseteq Addrs /\ arp \in [DOMAIN arp -> Rmacs \cup {DropEntry}]

IndInv == PnaOK /\ TableInv /\ CpuInv /\ ScratchInv /\ SkbInv

-----------------------------------------------------------------------------
(* The map *)

EthHdr     == [valid : BOOLEAN, dmac : Nat, smac : Nat, etherType : U16]
ArpHdr     == [valid : BOOLEAN, oper : U16]
ArpIpv4Hdr == [valid : BOOLEAN, sha : Nat, spa : Nat, tha : Nat, tpa : Nat]

(***************************************************************************)
(* The fields of a received packet.                                        *)
(***************************************************************************)
LEMMA FrameFields ==
  ASSUME NEW f \in Frame
  PROVE  /\ f.len \in Nat /\ f.md \in Half \cup {NoMd} /\ f.dmac \in Nat /\ f.smac \in Nat
         /\ f.etherType \in Half /\ f.oper \in Half
         /\ f.sha \in Nat /\ f.spa \in Nat /\ f.tha \in Nat /\ f.tpa \in Nat
BY DEF Frame

(***************************************************************************)
(* What the parser asks of lengths, and what it finds in the packet: an    *)
(* etherType of 0x806 is the bytes 8 and 6, an operation of 1 the bytes 0  *)
(* and 1.                                                                  *)
(***************************************************************************)
LEMMA ArpBytes ==
  ASSUME NEW b \in Half
  PROVE  /\ (load_half(b) = ETHERTYPE_ARP) <=> (b = <<8, 6>>)
         /\ (load_half(b) = ARP_REQ) <=> (b = <<0, 1>>)
<1>1. b[1] \in Byte /\ b[2] \in Byte /\ b = <<b[1], b[2]>>
  BY HalfBytes
<1>2. ASSUME NEW x \in Byte, NEW y \in Byte
      PROVE  /\ (x * 256 + y = 2054) <=> (x = 8 /\ y = 6)
             /\ (x * 256 + y = 1) <=> (x = 0 /\ y = 1)
  BY <1>2 DEF Byte
<1>3. /\ (b = <<8, 6>>) <=> (b[1] = 8 /\ b[2] = 6)
      /\ (b = <<0, 1>>) <=> (b[1] = 0 /\ b[2] = 1)
  BY <1>1
<1> QED
  BY <1>1, <1>2, <1>3 DEF load_half, ETHERTYPE_ARP, ARP_REQ

(***************************************************************************)
(* Every step of the parser, and the reply, leaves a well-formed struct    *)
(* hdr_md.                                                                 *)
(***************************************************************************)
LEMMA MdTypes ==
  ASSUME NEW f \in Frame
  PROVE  /\ ZeroHdrMd \in HdrMd /\ EthMd(f) \in HdrMd /\ ArpMd(f) \in HdrMd /\ Ipv4Md(f) \in HdrMd
         /\ Extracted(f) \in HdrMd
         /\ \A md \in HdrMd, m \in Nat : WithReply(md, ARP_REPLY, m) \in HdrMd
<1>1. HdrMd = [eth : EthHdr, arp : ArpHdr, arp_ipv4 : ArpIpv4Hdr, offset : Nat]
  BY DEF HdrMd, EthHdr, ArpHdr, ArpIpv4Hdr
<1>2. ZeroHdrMd \in HdrMd
  BY DEF ZeroHdrMd, HdrMd, U16
<1>3. /\ [valid |-> TRUE, dmac |-> f.dmac, smac |-> f.smac, etherType |-> load_half(f.etherType)] \in EthHdr
      /\ [valid |-> TRUE, oper |-> load_half(f.oper)] \in ArpHdr
      /\ [valid |-> TRUE, sha |-> f.sha, spa |-> f.spa, tha |-> f.tha, tpa |-> f.tpa] \in ArpIpv4Hdr
  BY FrameFields, HalfBytes DEF EthHdr, ArpHdr, ArpIpv4Hdr
<1>4. EthMd(f) \in HdrMd
  BY <1>1, <1>2, <1>3 DEF EthMd, WithEth, EthLen
<1>5. ArpMd(f) \in HdrMd
  BY <1>1, <1>3, <1>4 DEF ArpMd, WithArp, ArpLen
<1>6. Ipv4Md(f) \in HdrMd
  BY <1>1, <1>3, <1>5 DEF Ipv4Md, WithArpIpv4, ArpIpv4Len
<1>7. ASSUME NEW md \in HdrMd, NEW m \in Nat
      PROVE  WithReply(md, ARP_REPLY, m) \in HdrMd
  <2>1. md.eth \in EthHdr /\ md.arp \in ArpHdr /\ md.arp_ipv4 \in ArpIpv4Hdr /\ md.offset \in Nat
    BY <1>1, <1>7
  <2>2. [valid |-> md.eth.valid, dmac |-> md.eth.smac, smac |-> m, etherType |-> md.eth.etherType] \in EthHdr
    BY <1>7, <2>1 DEF EthHdr
  <2>3. [valid |-> md.arp.valid, oper |-> ARP_REPLY] \in ArpHdr
    <3>1. ARP_REPLY \in U16
      BY DEF ARP_REPLY, U16
    <3> QED
      BY <2>1, <3>1 DEF ArpHdr
  <2>4. [valid |-> md.arp_ipv4.valid, sha |-> m, spa |-> md.arp_ipv4.tpa,
         tha |-> md.arp_ipv4.sha, tpa |-> md.arp_ipv4.tpa] \in ArpIpv4Hdr
    BY <1>7, <2>1 DEF ArpIpv4Hdr
  <2> QED
    BY <1>1, <2>1, <2>2, <2>3, <2>4 DEF WithReply
<1> QED
  BY <1>2, <1>4, <1>5, <1>6, <1>7 DEF Extracted

(***************************************************************************)
(* The fields of the four maps.                                            *)
(***************************************************************************)
LEMMA MdFields ==
  ASSUME NEW f \in Frame
  PROVE  /\ ZeroHdrMd.eth.valid = FALSE /\ ZeroHdrMd.arp.valid = FALSE /\ ZeroHdrMd.arp_ipv4.valid = FALSE
         /\ ZeroHdrMd.arp_ipv4.tpa = 0 /\ ZeroHdrMd.offset = 0
         /\ EthMd(f).eth = [valid |-> TRUE, dmac |-> f.dmac, smac |-> f.smac,
                            etherType |-> load_half(f.etherType)]
         /\ EthMd(f).arp = ZeroHdrMd.arp /\ EthMd(f).arp_ipv4 = ZeroHdrMd.arp_ipv4 /\ EthMd(f).offset = 14
         /\ ArpMd(f).eth = EthMd(f).eth /\ ArpMd(f).arp = [valid |-> TRUE, oper |-> load_half(f.oper)]
         /\ ArpMd(f).arp_ipv4 = ZeroHdrMd.arp_ipv4 /\ ArpMd(f).offset = 22
         /\ Ipv4Md(f).eth = EthMd(f).eth /\ Ipv4Md(f).arp = ArpMd(f).arp /\ Ipv4Md(f).offset = 42
         /\ Ipv4Md(f).arp_ipv4 = [valid |-> TRUE, sha |-> f.sha, spa |-> f.spa, tha |-> f.tha, tpa |-> f.tpa]
<1>1. /\ ZeroHdrMd.eth = [valid |-> FALSE, dmac |-> 0, smac |-> 0, etherType |-> 0]
      /\ ZeroHdrMd.arp = [valid |-> FALSE, oper |-> 0]
      /\ ZeroHdrMd.arp_ipv4 = [valid |-> FALSE, sha |-> 0, spa |-> 0, tha |-> 0, tpa |-> 0]
      /\ ZeroHdrMd.offset = 0
  BY DEF ZeroHdrMd
<1>2. /\ EthMd(f).eth = [valid |-> TRUE, dmac |-> f.dmac, smac |-> f.smac,
                         etherType |-> load_half(f.etherType)]
      /\ EthMd(f).arp = ZeroHdrMd.arp /\ EthMd(f).arp_ipv4 = ZeroHdrMd.arp_ipv4 /\ EthMd(f).offset = 14
  BY <1>1 DEF EthMd, WithEth, EthLen
<1>3. /\ ArpMd(f).eth = EthMd(f).eth /\ ArpMd(f).arp = [valid |-> TRUE, oper |-> load_half(f.oper)]
      /\ ArpMd(f).arp_ipv4 = ZeroHdrMd.arp_ipv4 /\ ArpMd(f).offset = 22
  BY <1>2 DEF ArpMd, WithArp, ArpLen
<1>4. /\ Ipv4Md(f).eth = EthMd(f).eth /\ Ipv4Md(f).arp = ArpMd(f).arp /\ Ipv4Md(f).offset = 42
      /\ Ipv4Md(f).arp_ipv4 = [valid |-> TRUE, sha |-> f.sha, spa |-> f.spa, tha |-> f.tha, tpa |-> f.tpa]
  BY <1>3 DEF Ipv4Md, WithArpIpv4, ArpIpv4Len
<1> QED
  BY <1>1, <1>2, <1>3, <1>4

-----------------------------------------------------------------------------
(* The parser *)

(***************************************************************************)
(* When the parser finds a packet too short for its next header.           *)
(***************************************************************************)
LEMMA ExtractCases ==
  ASSUME NEW f \in Frame
  PROVE  /\ TooShort(f, ZeroHdrMd, EthLen) <=> ~HasEth(f)
         /\ TooShort(f, EthMd(f), ArpLen) <=> f.len < 22
         /\ TooShort(f, ArpMd(f), ArpIpv4Len) <=> f.len < 42
         /\ HasEth(f) <=> ~(f.len < 14)
         /\ IsArp(f) <=> HasEth(f) /\ f.etherType = <<8, 6>>
         /\ WholeArp(f) <=> IsArp(f) /\ ~(f.len < 42)
         /\ WholeArp(f) => HasArp(f)
         /\ \A m : /\ Reject(m, PacketTooShort) = Accept(m)
                   /\ Reject(m, NoError) = [ret |-> TC_ACT_SHOT, md |-> m]
                   /\ Accept(m).ret # TC_ACT_SHOT /\ Accept(m).md = m
<1>1. f.len \in Nat
  BY FrameFields
<1>2. ZeroHdrMd.offset = 0 /\ EthMd(f).offset = 14 /\ ArpMd(f).offset = 22
  BY MdFields
<1>3. ZeroHdrMd.offset + EthLen = 14 /\ EthMd(f).offset + ArpLen = 22 /\ ArpMd(f).offset + ArpIpv4Len = 42
  BY <1>2 DEF EthLen, ArpLen, ArpIpv4Len
<1>4. HasEth(f) <=> ~(f.len < 14)
  BY <1>1 DEF HasEth, EthLen
<1>5. /\ TooShort(f, ZeroHdrMd, EthLen) <=> ~HasEth(f)
      /\ TooShort(f, EthMd(f), ArpLen) <=> f.len < 22
      /\ TooShort(f, ArpMd(f), ArpIpv4Len) <=> f.len < 42
  BY <1>3, <1>4 DEF TooShort
<1>6. WholeArp(f) <=> IsArp(f) /\ ~(f.len < 42)
  BY <1>1 DEF WholeArp, EthLen, ArpLen, ArpIpv4Len
<1>7. ~(f.len < 42) => ~(f.len < 22)
  BY <1>1
<1>8. \A m : /\ Reject(m, PacketTooShort) = Accept(m)
             /\ Reject(m, NoError) = [ret |-> TC_ACT_SHOT, md |-> m]
             /\ Accept(m).ret # TC_ACT_SHOT /\ Accept(m).md = m
  BY DEF Reject, Accept, NoError, PacketTooShort, TC_ACT_SHOT, Continue
<1> QED
  BY <1>4, <1>5, <1>6, <1>7, <1>8 DEF IsArp, HasArp

(***************************************************************************)
(* What run_parser makes of a packet, whatever the map held before.        *)
(***************************************************************************)
LEMMA ParserResult ==
  ASSUME NEW f \in Frame, NEW md
  PROVE  /\ run_parser(f, md).md \in HdrMd
         /\ Accepted(f) => run_parser(f, md).ret # TC_ACT_SHOT /\ run_parser(f, md).md = Extracted(f)
         /\ ~Accepted(f) => run_parser(f, md).ret = TC_ACT_SHOT
<1>1. run_parser(f, md) = start(f, ZeroHdrMd)
  BY DEF run_parser, memset
<1>2. /\ EthMd(f) = WithEth(ZeroHdrMd, f) /\ ArpMd(f) = WithArp(EthMd(f), f)
      /\ Ipv4Md(f) = WithArpIpv4(ArpMd(f), f)
  BY DEF EthMd, ArpMd, Ipv4Md
<1>3. ZeroHdrMd \in HdrMd /\ EthMd(f) \in HdrMd /\ ArpMd(f) \in HdrMd /\ Ipv4Md(f) \in HdrMd
  BY MdTypes
<1>4. EthMd(f).eth.etherType = load_half(f.etherType) /\ Ipv4Md(f).arp.oper = load_half(f.oper)
  <2>1. /\ EthMd(f).eth = [valid |-> TRUE, dmac |-> f.dmac, smac |-> f.smac,
                           etherType |-> load_half(f.etherType)]
        /\ Ipv4Md(f).arp = ArpMd(f).arp /\ ArpMd(f).arp = [valid |-> TRUE, oper |-> load_half(f.oper)]
    BY MdFields
  <2> QED
    BY <2>1
<1>5. /\ (EthMd(f).eth.etherType = ETHERTYPE_ARP) <=> (f.etherType = <<8, 6>>)
      /\ (Ipv4Md(f).arp.oper = ARP_REQ) <=> (f.oper = <<0, 1>>)
  <2>1. f.etherType \in Half /\ f.oper \in Half
    BY FrameFields
  <2>2. /\ (load_half(f.etherType) = ETHERTYPE_ARP) <=> (f.etherType = <<8, 6>>)
        /\ (load_half(f.oper) = ARP_REQ) <=> (f.oper = <<0, 1>>)
    BY <2>1, ArpBytes
  <2> QED
    BY <1>4, <2>2
<1>6. CASE ~HasEth(f)
  <2>1. start(f, ZeroHdrMd) = Reject(ZeroHdrMd, PacketTooShort)
    BY <1>6, ExtractCases DEF start
  <2>2. ~WholeArp(f) /\ ~HasArp(f)
    BY <1>6, ExtractCases DEF HasArp
  <2> QED
    BY <1>1, <1>3, <1>6, <2>1, <2>2, ExtractCases DEF Accepted, Extracted
<1>7. CASE HasEth(f) /\ f.etherType # <<8, 6>>
  <2>1. start(f, ZeroHdrMd) = Accept(EthMd(f))
    BY <1>2, <1>5, <1>7, ExtractCases DEF start
  <2>2. ~WholeArp(f) /\ ~HasArp(f)
    BY <1>7, ExtractCases DEF HasArp
  <2> QED
    BY <1>1, <1>3, <1>7, <2>1, <2>2, ExtractCases DEF Accepted, Extracted
<1>8. CASE IsArp(f)
  <2>1. HasEth(f) /\ f.etherType = <<8, 6>>
    BY <1>8, ExtractCases
  <2>2. start(f, ZeroHdrMd) = parse_arp(f, EthMd(f))
    BY <1>2, <1>5, <2>1, ExtractCases DEF start
  <2>3. ~(f.len < 42) => ~(f.len < 22)
    BY FrameFields
  <2>4. CASE f.len < 22
    <3>1. parse_arp(f, EthMd(f)) = Reject(EthMd(f), PacketTooShort)
      BY <1>2, <2>4, <2>3, ExtractCases DEF parse_arp
    <3>2. ~WholeArp(f) /\ ~HasArp(f)
      BY <2>4, ExtractCases DEF HasArp
    <3> QED
      BY <1>1, <1>3, <2>1, <2>2, <3>1, <3>2, ExtractCases DEF Accepted, Extracted
  <2>5. CASE ~(f.len < 22) /\ f.len < 42
    <3>1. parse_arp(f, EthMd(f)) = Reject(ArpMd(f), PacketTooShort)
      BY <1>2, <2>5, ExtractCases DEF parse_arp
    <3>2. ~WholeArp(f) /\ HasArp(f)
      BY <1>8, <2>5, ExtractCases DEF HasArp
    <3> QED
      BY <1>1, <1>3, <2>1, <2>2, <3>1, <3>2, ExtractCases DEF Accepted, Extracted
  <2>6. CASE ~(f.len < 22) /\ ~(f.len < 42)
    <3>1. WholeArp(f)
      BY <1>8, <2>6, ExtractCases
    <3>2. CASE f.oper = <<0, 1>>
      <4>1. parse_arp(f, EthMd(f)) = Accept(Ipv4Md(f))
        BY <1>2, <1>5, <2>6, <3>2, ExtractCases DEF parse_arp
      <4> QED
        BY <1>1, <1>3, <2>2, <3>1, <3>2, <4>1, ExtractCases DEF Accepted, Extracted
    <3>3. CASE f.oper # <<0, 1>>
      <4>1. parse_arp(f, EthMd(f)) = Reject(Ipv4Md(f), NoError)
        BY <1>2, <1>5, <2>6, <3>3, ExtractCases DEF parse_arp
      <4> QED
        BY <1>1, <1>3, <2>2, <3>1, <3>3, <4>1, ExtractCases DEF Accepted
    <3> QED
      BY <3>2, <3>3
  <2> QED
    BY <2>3, <2>4, <2>5, <2>6
<1> QED
  BY <1>6, <1>7, <1>8, ExtractCases

-----------------------------------------------------------------------------
(* The deparser *)

(***************************************************************************)
(* The metadata of an XDP program replaces the etherType only.             *)
(***************************************************************************)
LEMMA Restored ==
  ASSUME NEW f \in Frame
  PROVE  \E e \in Half :
           /\ f.md = NoMd => e = f.etherType
           /\ RestoreEtherType(f) =
                [len |-> f.len, md |-> f.md, dmac |-> f.dmac, smac |-> f.smac, etherType |-> e,
                 oper |-> f.oper, sha |-> f.sha, spa |-> f.spa, tha |-> f.tha, tpa |-> f.tpa]
<1>1. f \in [len : Nat, md : Half \cup {NoMd}, dmac : Nat, smac : Nat, etherType : Half,
             oper : Half, sha : Nat, spa : Nat, tha : Nat, tpa : Nat]
  BY DEF Frame
<1>2. CASE f.md = NoMd
  <2>1. RestoreEtherType(f) = f
    BY <1>2 DEF RestoreEtherType
  <2>2. f.etherType \in Half
    BY <1>1
  <2> WITNESS f.etherType \in Half
  <2> QED
    BY <1>1, <2>1
<1>3. CASE f.md # NoMd
  <2>1. RestoreEtherType(f) = [f EXCEPT !.etherType = f.md]
    BY <1>3 DEF RestoreEtherType
  <2>2. f.md \in Half
    BY <1>1, <1>3
  <2> WITNESS f.md \in Half
  <2> QED
    BY <1>1, <1>3, <2>1
<1> QED
  BY <1>2, <1>3

(***************************************************************************)
(* So the packet the main block works on is as long as the one received.   *)
(***************************************************************************)
LEMMA RestoredFrame ==
  ASSUME NEW f \in Frame
  PROVE  RestoreEtherType(f) \in Frame /\ RestoreEtherType(f).len = f.len
<1>1. PICK e \in Half :
        RestoreEtherType(f) =
          [len |-> f.len, md |-> f.md, dmac |-> f.dmac, smac |-> f.smac, etherType |-> e,
           oper |-> f.oper, sha |-> f.sha, spa |-> f.spa, tha |-> f.tha, tpa |-> f.tpa]
  BY Restored
<1> QED
  BY <1>1, FrameFields DEF Frame

(***************************************************************************)
(* Which headers of a packet are valid in the map, and what is in them.    *)
(***************************************************************************)
LEMMA ExtractedFields ==
  ASSUME NEW f \in Frame
  PROVE  /\ Extracted(f).eth.valid = HasEth(f)
         /\ Extracted(f).arp.valid = HasArp(f)
         /\ Extracted(f).arp_ipv4.valid = WholeArp(f)
         /\ Extracted(f).arp_ipv4.tpa = Target(f)
         /\ HasEth(f) => /\ Extracted(f).eth.smac = f.smac
                         /\ Extracted(f).eth.etherType = load_half(f.etherType)
         /\ WholeArp(f) => Extracted(f).arp_ipv4.sha = f.sha
<1>1. (WholeArp(f) => HasArp(f)) /\ (HasArp(f) => HasEth(f))
  BY ExtractCases DEF HasArp
<1>2. HasEth(f) \in BOOLEAN /\ HasArp(f) \in BOOLEAN /\ WholeArp(f) \in BOOLEAN
  BY DEF HasEth, HasArp, WholeArp
<1>3. CASE WholeArp(f)
  <2>1. Extracted(f) = Ipv4Md(f)
    BY <1>3 DEF Extracted
  <2>2. /\ Ipv4Md(f).eth = [valid |-> TRUE, dmac |-> f.dmac, smac |-> f.smac,
                            etherType |-> load_half(f.etherType)]
        /\ Ipv4Md(f).arp = [valid |-> TRUE, oper |-> load_half(f.oper)]
        /\ Ipv4Md(f).arp_ipv4 = [valid |-> TRUE, sha |-> f.sha, spa |-> f.spa, tha |-> f.tha, tpa |-> f.tpa]
    BY MdFields
  <2> QED
    BY <1>1, <1>2, <1>3, <2>1, <2>2 DEF Target
<1>4. CASE ~WholeArp(f) /\ HasArp(f)
  <2>1. Extracted(f) = ArpMd(f)
    BY <1>4 DEF Extracted
  <2>2. /\ ArpMd(f).eth = [valid |-> TRUE, dmac |-> f.dmac, smac |-> f.smac,
                           etherType |-> load_half(f.etherType)]
        /\ ArpMd(f).arp = [valid |-> TRUE, oper |-> load_half(f.oper)]
        /\ ArpMd(f).arp_ipv4 = ZeroHdrMd.arp_ipv4
        /\ ZeroHdrMd.arp_ipv4.valid = FALSE /\ ZeroHdrMd.arp_ipv4.tpa = 0
    BY MdFields
  <2>3. /\ ArpMd(f).eth.valid = TRUE /\ ArpMd(f).eth.smac = f.smac
        /\ ArpMd(f).eth.etherType = load_half(f.etherType)
        /\ ArpMd(f).arp.valid = TRUE
        /\ ArpMd(f).arp_ipv4.valid = FALSE /\ ArpMd(f).arp_ipv4.tpa = 0
    BY <2>2
  <2> QED
    BY <1>1, <1>2, <1>4, <2>1, <2>3 DEF Target
<1>5. CASE ~WholeArp(f) /\ ~HasArp(f) /\ HasEth(f)
  <2>1. Extracted(f) = EthMd(f)
    BY <1>5 DEF Extracted
  <2>2. /\ EthMd(f).eth = [valid |-> TRUE, dmac |-> f.dmac, smac |-> f.smac,
                           etherType |-> load_half(f.etherType)]
        /\ EthMd(f).arp = ZeroHdrMd.arp /\ ZeroHdrMd.arp.valid = FALSE
        /\ EthMd(f).arp_ipv4 = ZeroHdrMd.arp_ipv4
        /\ ZeroHdrMd.arp_ipv4.valid = FALSE /\ ZeroHdrMd.arp_ipv4.tpa = 0
    BY MdFields
  <2>3. /\ EthMd(f).eth.valid = TRUE /\ EthMd(f).eth.smac = f.smac
        /\ EthMd(f).eth.etherType = load_half(f.etherType)
        /\ EthMd(f).arp.valid = FALSE
        /\ EthMd(f).arp_ipv4.valid = FALSE /\ EthMd(f).arp_ipv4.tpa = 0
    BY <2>2
  <2> QED
    BY <1>2, <1>5, <2>1, <2>3 DEF Target
<1>6. CASE ~WholeArp(f) /\ ~HasArp(f) /\ ~HasEth(f)
  <2>1. Extracted(f) = ZeroHdrMd
    BY <1>6 DEF Extracted
  <2>2. /\ ZeroHdrMd.eth.valid = FALSE /\ ZeroHdrMd.arp.valid = FALSE
        /\ ZeroHdrMd.arp_ipv4.valid = FALSE /\ ZeroHdrMd.arp_ipv4.tpa = 0
    BY MdFields
  <2> QED
    BY <1>2, <1>6, <2>1, <2>2 DEF Target
<1> QED
  BY <1>3, <1>4, <1>5, <1>6

(***************************************************************************)
(* The headers an accepted packet leaves in the map take as many bytes as  *)
(* were parsed, and the packet has them: the deparser need not make room.  *)
(***************************************************************************)
LEMMA OutLength ==
  ASSUME NEW f \in Frame, NEW md,
         md.eth.valid = HasEth(f), md.arp.valid = HasArp(f), md.arp_ipv4.valid = WholeArp(f),
         md.offset = Extracted(f).offset
  PROVE  OutHeaderLength(md) = md.offset /\ md.offset \in Nat /\ md.offset <= f.len
<1>1. f.len \in Nat
  BY FrameFields
<1>2. /\ ZeroHdrMd.offset = 0 /\ EthMd(f).offset = 14 /\ ArpMd(f).offset = 22 /\ Ipv4Md(f).offset = 42
  BY MdFields
<1>3. /\ (WholeArp(f) => HasArp(f)) /\ (HasArp(f) => HasEth(f))
      /\ (HasEth(f) <=> ~(f.len < 14)) /\ (HasArp(f) => ~(f.len < 22)) /\ (WholeArp(f) => ~(f.len < 42))
  BY ExtractCases DEF HasArp
<1>4. CASE WholeArp(f)
  BY <1>1, <1>2, <1>3, <1>4 DEF Extracted, OutHeaderLength, EthLen, ArpLen, ArpIpv4Len
<1>5. CASE ~WholeArp(f) /\ HasArp(f)
  BY <1>1, <1>2, <1>3, <1>5 DEF Extracted, OutHeaderLength, EthLen, ArpLen
<1>6. CASE ~WholeArp(f) /\ ~HasArp(f) /\ HasEth(f)
  BY <1>1, <1>2, <1>3, <1>6 DEF Extracted, OutHeaderLength, EthLen
<1>7. CASE ~WholeArp(f) /\ ~HasArp(f) /\ ~HasEth(f)
  BY <1>1, <1>2, <1>7 DEF Extracted, OutHeaderLength
<1> QED
  BY <1>4, <1>5, <1>6, <1>7

(***************************************************************************)
(* What the deparser comes to when it need not make room: the packet is    *)
(* dropped as its metadata say, or written.                                *)
(***************************************************************************)
LEMMA Deparsed ==
  ASSUME NEW g, NEW md, NEW b, OutHeaderLength(md) = md.offset, md.offset \in Nat,
         g.len \in Nat, md.offset <= g.len
  PROVE  /\ b.drop => Deparse(g, md, b) = {[ret |-> TC_ACT_SHOT, frame |-> g, cb |-> b, md |-> md]}
         /\ ~b.drop => Deparse(g, md, b) = {[ret |-> Continue, frame |-> WriteHeaders(g, md), cb |-> b, md |-> md]}
<1>1. CASE b.drop
  BY <1>1, Zenon DEF Deparse
<1>2. CASE ~b.drop
  <2>1. Emit(g, md, b) = [ret |-> Continue, frame |-> WriteHeaders(g, md), cb |-> b, md |-> md]
    BY DEF Emit
  <2>2. OutHeaderLength(md) - md.offset = 0
    OBVIOUS
  <2>3. adjust_room(g, OutHeaderLength(md) - md.offset) = {[ret |-> Continue, frame |-> g]}
    BY <2>2, Zenon DEF adjust_room
  <2> DEFINE R == [ret |-> Continue, frame |-> g]
             F(r) == IF r.ret = TC_ACT_SHOT
                       THEN [ret |-> TC_ACT_SHOT, frame |-> r.frame, cb |-> b, md |-> md]
                       ELSE Emit(r.frame, md, b)
  <2>4. Deparse(g, md, b) = {F(r) : r \in {R}}
    BY <1>2, <2>3, Zenon DEF Deparse
  <2>5. R.ret # TC_ACT_SHOT /\ R.frame = g
    BY DEF TC_ACT_SHOT, Continue
  <2>6. F(R) = Emit(g, md, b)
    <3> HIDE DEF R
    <3> QED
      BY <2>5, Zenon
  <2> HIDE DEF R, F
  <2>7. {F(r) : r \in {R}} = {F(R)}
    OBVIOUS
  <2> QED
    BY <1>2, <2>1, <2>4, <2>6, <2>7
<1> QED
  BY <1>1, <1>2

(***************************************************************************)
(* The reply, written over the packet that the main block works on, is the *)
(* answer to the packet received.                                          *)
(***************************************************************************)
LEMMA Written ==
  ASSUME NEW f \in Frame, ~MetadataFails(f), NEW m \in Nat
  PROVE  WriteHeaders(RestoreEtherType(f), WithReply(Extracted(f), ARP_REPLY, m)) = Answer(f, m)
<1>1. PICK e \in Half :
        /\ f.md = NoMd => e = f.etherType
        /\ RestoreEtherType(f) =
             [len |-> f.len, md |-> f.md, dmac |-> f.dmac, smac |-> f.smac, etherType |-> e,
              oper |-> f.oper, sha |-> f.sha, spa |-> f.spa, tha |-> f.tha, tpa |-> f.tpa]
  BY Restored
<1>2. ~HasEth(f) => e = f.etherType
  BY <1>1, ExtractCases DEF MetadataFails
<1> DEFINE g == RestoreEtherType(f)
           x == Extracted(f)
           md == WithReply(x, ARP_REPLY, m)
<1>3. /\ g.len = f.len /\ g.md = f.md /\ g.dmac = f.dmac /\ g.smac = f.smac /\ g.etherType = e
      /\ g.oper = f.oper /\ g.sha = f.sha /\ g.spa = f.spa /\ g.tha = f.tha /\ g.tpa = f.tpa
  BY <1>1
<1>4. emit_half(load_half(f.etherType)) = f.etherType
  BY FrameFields, FieldRoundTrip
<1>5. emit_half(ARP_REPLY) = <<0, 2>>
  BY DEF emit_half, HostBytes, htons, ARP_REPLY
<1>6. /\ md.eth.valid = x.eth.valid /\ md.eth.dmac = x.eth.smac /\ md.eth.smac = m
      /\ md.eth.etherType = x.eth.etherType
      /\ md.arp.valid = x.arp.valid /\ md.arp.oper = ARP_REPLY
      /\ md.arp_ipv4.valid = x.arp_ipv4.valid /\ md.arp_ipv4.sha = m
      /\ md.arp_ipv4.spa = x.arp_ipv4.tpa /\ md.arp_ipv4.tha = x.arp_ipv4.sha
      /\ md.arp_ipv4.tpa = x.arp_ipv4.tpa
  BY DEF WithReply
<1>7. /\ x.eth.valid = HasEth(f) /\ x.arp.valid = HasArp(f) /\ x.arp_ipv4.valid = WholeArp(f)
      /\ x.arp_ipv4.tpa = Target(f)
      /\ HasEth(f) => x.eth.smac = f.smac /\ x.eth.etherType = load_half(f.etherType)
      /\ WholeArp(f) => x.arp_ipv4.sha = f.sha
  BY ExtractedFields
<1>8. HasArp(f) <=> IsArp(f) /\ f.len >= EthLen + ArpLen
  <2>1. f.len \in Nat
    BY FrameFields
  <2>2. f.len >= EthLen + ArpLen <=> ~(f.len < 22)
    BY <2>1 DEF EthLen, ArpLen
  <2> QED
    BY <2>2 DEF HasArp
<1> HIDE DEF g, x, md
<1>9. /\ (IF md.eth.valid THEN md.eth.dmac ELSE g.dmac) = (IF HasEth(f) THEN f.smac ELSE f.dmac)
      /\ (IF md.eth.valid THEN md.eth.smac ELSE g.smac) = (IF HasEth(f) THEN m ELSE f.smac)
      /\ (IF md.eth.valid THEN emit_half(md.eth.etherType) ELSE g.etherType) = f.etherType
  BY <1>2, <1>3, <1>4, <1>6, <1>7
<1>10. (IF md.arp.valid THEN emit_half(md.arp.oper) ELSE g.oper)
         = (IF IsArp(f) /\ f.len >= EthLen + ArpLen THEN <<0, 2>> ELSE f.oper)
  BY <1>3, <1>5, <1>6, <1>7, <1>8
<1>11. /\ (IF md.arp_ipv4.valid THEN md.arp_ipv4.sha ELSE g.sha) = (IF WholeArp(f) THEN m ELSE f.sha)
       /\ (IF md.arp_ipv4.valid THEN md.arp_ipv4.spa ELSE g.spa) = (IF WholeArp(f) THEN f.tpa ELSE f.spa)
       /\ (IF md.arp_ipv4.valid THEN md.arp_ipv4.tha ELSE g.tha) = (IF WholeArp(f) THEN f.sha ELSE f.tha)
       /\ (IF md.arp_ipv4.valid THEN md.arp_ipv4.tpa ELSE g.tpa) = f.tpa
  BY <1>3, <1>6, <1>7 DEF Target
<1>12. WriteHeaders(g, md) = Answer(f, m)
  BY <1>3, <1>9, <1>10, <1>11, Zenon DEF WriteHeaders, Answer
<1> QED
  BY <1>12 DEF g, md, x

(***************************************************************************)
(* An answer is a packet, and an answer to a whole ARP packet is one that  *)
(* the parser does not let through.                                        *)
(***************************************************************************)
LEMMA AnswerRejected ==
  ASSUME NEW f \in Frame, NEW m \in Nat
  PROVE  /\ Answer(f, m) \in Frame
         /\ WholeArp(f) => ~Accepted(Answer(f, m))
<1> DEFINE a == Answer(f, m)
<1>1. a \in Frame
  <2>1. <<0, 2>> \in Half
    BY DEF Half, Byte
  <2> QED
    BY <2>1, FrameFields DEF Answer, Frame
<1>2. a.len = f.len /\ a.etherType = f.etherType /\ (WholeArp(f) => a.oper = <<0, 2>>)
  <2>1. WholeArp(f) => IsArp(f) /\ f.len >= EthLen + ArpLen
    BY FrameFields, ExtractCases DEF EthLen, ArpLen
  <2> QED
    BY <2>1 DEF Answer
<1> HIDE DEF a
<1>3. WholeArp(f) => WholeArp(a)
  BY <1>2 DEF WholeArp, IsArp, HasEth
<1>4. <<0, 2>> # <<0, 1>>
  OBVIOUS
<1> QED
  BY <1>1, <1>2, <1>3, <1>4 DEF Accepted, a

-----------------------------------------------------------------------------
(* The steps *)

(***************************************************************************)
(* What a CPU that has a packet at work knows of it.                       *)
(***************************************************************************)
LEMMA AtWork ==
  ASSUME IndInv, NEW c \in Cpus, pc[c] # "idle"
  PROVE  /\ cur[c] \in Skbs /\ loc[cur[c]] = "cpu"
         /\ rcvd[cur[c]] \in Frame /\ frame[cur[c]] = rcvd[cur[c]]
         /\ port[cur[c]] \in Nat /\ port[cur[c]] # 0
         /\ cb[cur[c]] \in Cb /\ cb[cur[c]].drop = FALSE /\ cb[cur[c]].pass_to_kernel = FALSE
         /\ Accepted(rcvd[cur[c]]) /\ hdrMd[c] = Extracted(rcvd[cur[c]]) /\ hdrMd[c] \in HdrMd
<1>1. cur[c] \in Skbs /\ loc[cur[c]] = "cpu"
  BY DEF IndInv, CpuInv
<1>2. rcvd[cur[c]] \in Frame /\ cb[cur[c]] \in Cb /\ hdrMd[c] \in HdrMd /\ port[cur[c]] \in Nat
  BY <1>1 DEF IndInv, PnaOK, PnaTyped
<1>3. /\ frame[cur[c]] = rcvd[cur[c]] /\ port[cur[c]] # 0
      /\ cb[cur[c]].drop = FALSE /\ cb[cur[c]].pass_to_kernel = FALSE
  BY <1>1 DEF IndInv, SkbInv, SkbOK
<1> QED
  BY <1>1, <1>2, <1>3 DEF IndInv, ScratchInv

(***************************************************************************)
(* Where process() and what follows take a packet whose headers the table  *)
(* has not made fewer or more.                                             *)
(***************************************************************************)
LEMMA DeparseLeaves ==
  ASSUME NEW c, NEW f \in Frame, NEW md, NEW b,
         md.eth.valid = Extracted(f).eth.valid, md.arp.valid = Extracted(f).arp.valid,
         md.arp_ipv4.valid = Extracted(f).arp_ipv4.valid, md.offset = Extracted(f).offset,
         \E r \in Deparse(RestoreEtherType(f), md, b) : Return(c, r)
  PROVE  /\ b.drop => Leave(c, "dropped", RestoreEtherType(f), b, md)
         /\ ~b.drop /\ b.egress_port # 0 =>
              Leave(c, "sent", WriteHeaders(RestoreEtherType(f), md), b, md)
<1> DEFINE g == RestoreEtherType(f)
<1>1. OutHeaderLength(md) = md.offset /\ md.offset \in Nat /\ md.offset <= f.len
  <2>1. /\ Extracted(f).eth.valid = HasEth(f) /\ Extracted(f).arp.valid = HasArp(f)
        /\ Extracted(f).arp_ipv4.valid = WholeArp(f)
    BY ExtractedFields
  <2> QED
    BY <2>1, OutLength
<1>2. g.len \in Nat /\ g.len = f.len
  BY RestoredFrame, FrameFields
<1> HIDE DEF g
<1>3. /\ b.drop => Deparse(g, md, b) = {[ret |-> TC_ACT_SHOT, frame |-> g, cb |-> b, md |-> md]}
      /\ ~b.drop => Deparse(g, md, b) = {[ret |-> Continue, frame |-> WriteHeaders(g, md), cb |-> b, md |-> md]}
  BY <1>1, <1>2, Deparsed
<1>4. \E r \in Deparse(g, md, b) : Return(c, r)
  BY DEF g
<1>5. b.drop => Return(c, [ret |-> TC_ACT_SHOT, frame |-> g, cb |-> b, md |-> md])
  BY <1>3, <1>4, Zenon
<1>6. ~b.drop => Return(c, [ret |-> Continue, frame |-> WriteHeaders(g, md), cb |-> b, md |-> md])
  BY <1>3, <1>4, Zenon
<1> QED
  BY <1>5, <1>6, ReturnLeaves, Zenon DEF g

(***************************************************************************)
(* The main block: an entry for the address of the packet at work answers  *)
(* it by the port it came from; otherwise it is dropped.                   *)
(***************************************************************************)
LEMMA ProcessStep ==
  ASSUME IndInv, NEW c \in Cpus, Process(c)
  PROVE  LET f == rcvd[cur[c]]
             b == cb[cur[c]]
             m == arp[Target(f)]
         IN /\ pc[c] # "idle"
            /\ Answers(arp, Target(f)) =>
                 /\ m \in Nat
                 /\ \E md \in HdrMd : Leave(c, "sent", Answer(f, m), send_to_port(b, port[cur[c]]), md)
            /\ ~Answers(arp, Target(f)) =>
                 Leave(c, "dropped", RestoreEtherType(f), drop_packet(b), hdrMd[c])
<1> DEFINE f == rcvd[cur[c]]
           b == cb[cur[c]]
           p == port[cur[c]]
           m == arp[Target(f)]
           r == apply_arp_table(arp, p, hdrMd[c], b)
<1>1. pc[c] # "idle" /\ ~MetadataFails(frame[cur[c]])
  BY DEF Process, EntersMain
<1>2. /\ f \in Frame /\ frame[cur[c]] = f /\ b \in Cb /\ b.drop = FALSE
      /\ p \in Nat /\ p # 0
      /\ hdrMd[c] = Extracted(f) /\ hdrMd[c] \in HdrMd
  BY <1>1, AtWork
<1>3. hdrMd[c].arp_ipv4.tpa = Target(f)
  BY <1>2, ExtractedFields
<1>4. \E x \in Deparse(RestoreEtherType(f), r.md, r.cb) : Return(c, x)
  BY <1>2, Zenon DEF Process, process
<1>5. ~MetadataFails(f)
  BY <1>1, <1>2
<1>6. CASE Answers(arp, Target(f))
  <2> DEFINE n == WithReply(Extracted(f), ARP_REPLY, m)
             b1 == send_to_port(b, p)
  <2>1. m \in Nat
    BY <1>6, RmacsAssumption DEF IndInv, TableInv, Answers, ArpEntry, DropEntry
  <2>2. r = [md |-> n, cb |-> b1]
    BY <1>2, <1>3, <1>6, Zenon DEF apply_arp_table, arp_reply, Answers
  <2>3. b1.drop = FALSE /\ b1.egress_port = p
    BY <1>2, CbTypes
  <2>4. n \in HdrMd
    BY <1>2, <2>1, MdTypes
  <2>5. /\ n.eth.valid = Extracted(f).eth.valid /\ n.arp.valid = Extracted(f).arp.valid
        /\ n.arp_ipv4.valid = Extracted(f).arp_ipv4.valid /\ n.offset = Extracted(f).offset
    BY DEF WithReply
  <2>6. WriteHeaders(RestoreEtherType(f), n) = Answer(f, m)
    <3> HIDE DEF m, f
    <3> QED
      BY <1>2, <1>5, <2>1, Written
  <2> HIDE DEF f, p, b1, n, m
  <2>7. r.md = n /\ r.cb = b1
    BY <2>2
  <2> HIDE DEF r
  <2>8. \E x \in Deparse(RestoreEtherType(f), n, b1) : Return(c, x)
    BY <1>4, <2>7
  <2>9. Leave(c, "sent", Answer(f, m), b1, n)
    BY <1>2, <2>3, <2>5, <2>6, <2>8, DeparseLeaves
  <2>10. \E md \in HdrMd : Leave(c, "sent", Answer(f, m), b1, md)
    BY <2>4, <2>9
  <2> QED
    BY <1>1, <1>6, <2>1, <2>10, Zenon DEF b1, m, p, f
<1>7. CASE ~Answers(arp, Target(f))
  <2> DEFINE b1 == drop_packet(b)
  <2>1. r = [md |-> Extracted(f), cb |-> b1]
    BY <1>2, <1>3, <1>7, Zenon DEF apply_arp_table, Answers
  <2>2. b1.drop = TRUE
    BY DEF drop_packet
  <2> HIDE DEF f, b, b1
  <2>3. r.md = Extracted(f) /\ r.cb = b1
    BY <2>1
  <2> HIDE DEF r
  <2>4. \E x \in Deparse(RestoreEtherType(f), Extracted(f), b1) : Return(c, x)
    BY <1>4, <2>3
  <2>5. Leave(c, "dropped", RestoreEtherType(f), b1, Extracted(f))
    BY <1>2, <2>2, <2>4, DeparseLeaves
  <2> QED
    BY <1>1, <1>2, <1>7, <2>5, Zenon DEF f, b, b1
<1> QED
  BY <1>6, <1>7

(***************************************************************************)
(* A CPU that lets go of its packet keeps the invariant, if the packet it  *)
(* leaves behind is in order.                                              *)
(***************************************************************************)
LEMMA LeaveInv ==
  ASSUME IndInv, NEW c \in Cpus, pc[c] # "idle", NEW l \in {"ingress", "stack", "sent", "dropped"},
         NEW f \in Frame, NEW b \in Cb, NEW md \in HdrMd, Leave(c, l, f, b, md),
         SkbOK(l, port[cur[c]], f, b, rcvd[cur[c]]), arp' = arp
  PROVE  IndInv'
<1> USE DEF IndInv
<1>1. /\ PnaOK' /\ CpuInv'
      /\ cur[c] \in Skbs
      /\ loc'[cur[c]] = l /\ frame'[cur[c]] = f /\ cb'[cur[c]] = b
      /\ port'[cur[c]] = port[cur[c]] /\ rcvd'[cur[c]] = rcvd[cur[c]]
      /\ pc'[c] = "idle"
      /\ \A t \in Skbs : t # cur[c] => SameSkb(t)
      /\ \A d \in Cpus : d # c => SameCpu(d) /\ (pc[d] # "idle" => cur[d] # cur[c])
  BY LeaveStep DEF PnaOK
<1>2. SkbInv'
  <2> SUFFICES ASSUME NEW s \in Skbs
               PROVE  SkbOK(loc'[s], port'[s], frame'[s], cb'[s], rcvd'[s])
    BY DEF SkbInv
  <2>1. CASE s = cur[c]
    BY <1>1, <2>1
  <2>2. CASE s # cur[c]
    BY <1>1, <2>2 DEF SameSkb, SkbInv
  <2> QED
    BY <2>1, <2>2
<1>3. ScratchInv'
  <2> SUFFICES ASSUME NEW d \in Cpus, pc'[d] # "idle"
               PROVE  Accepted(rcvd'[cur'[d]]) /\ hdrMd'[d] = Extracted(rcvd'[cur'[d]])
    BY DEF ScratchInv
  <2>1. d # c /\ SameCpu(d) /\ pc[d] # "idle"
    BY <1>1 DEF SameCpu
  <2>2. cur[d] \in Skbs /\ cur[d] # cur[c]
    BY <1>1, <2>1 DEF CpuInv
  <2>3. rcvd'[cur'[d]] = rcvd[cur[d]]
    BY <1>1, <2>1, <2>2 DEF SameCpu, SameSkb
  <2> QED
    BY <2>1, <2>3 DEF SameCpu, ScratchInv
<1>4. TableInv'
  BY DEF TableInv
<1> QED
  BY <1>1, <1>2, <1>3, <1>4

(***************************************************************************)
(* A packet that arrives.                                                  *)
(***************************************************************************)
LEMMA ReceiveInv ==
  ASSUME IndInv, NEW s \in Skbs, Receive(s)
  PROVE  IndInv'
<1> USE DEF IndInv
<1>1. PICK p \in Ports, f \in Frames : Arrive(s, p, f)
  BY DEF Receive
<1>2. p \in Nat /\ p # 0 /\ f \in Frame
  BY PortsAssumption, FramesAssumption
<1>3. /\ PnaOK' /\ CpuInv'
      /\ loc[s] = "new" /\ loc'[s] = "ingress" /\ port'[s] = p
      /\ frame'[s] = f /\ rcvd'[s] = f /\ cb'[s] = cb[s]
      /\ \A t \in Skbs : t # s => SameSkb(t)
      /\ \A c \in Cpus : SameCpu(c) /\ (pc[c] # "idle" => cur[c] # s)
  BY <1>1, <1>2, ArriveStep DEF PnaOK
<1>4. SkbInv'
  <2>1. SkbOK(loc'[s], port'[s], frame'[s], cb'[s], rcvd'[s])
    BY <1>2, <1>3 DEF SkbInv, SkbOK
  <2>2. \A t \in Skbs : t # s => SkbOK(loc'[t], port'[t], frame'[t], cb'[t], rcvd'[t])
    BY <1>3 DEF SkbInv, SameSkb
  <2> QED
    BY <2>1, <2>2 DEF SkbInv
<1>5. ScratchInv'
  <2>1. ASSUME NEW c \in Cpus, pc'[c] # "idle"
        PROVE  rcvd'[cur'[c]] = rcvd[cur[c]] /\ pc[c] # "idle"
    <3>1. pc[c] # "idle" /\ cur'[c] = cur[c] /\ cur[c] # s
      BY <1>3, <2>1 DEF SameCpu
    <3>2. cur[c] \in Skbs
      BY <3>1 DEF CpuInv
    <3> QED
      BY <1>3, <3>1, <3>2 DEF SameSkb
  <2> QED
    BY <1>3, <2>1 DEF ScratchInv, SameCpu
<1>6. TableInv'
  BY DEF Receive, TableInv
<1> QED
  BY <1>3, <1>4, <1>5, <1>6

(***************************************************************************)
(* A packet that is parsed.                                                *)
(***************************************************************************)
LEMMA ParseInv ==
  ASSUME IndInv, NEW c \in Cpus, NEW s \in Skbs, Parse(c, s)
  PROVE  IndInv'
<1> USE DEF IndInv
<1> DEFINE r == run_parser(frame[s], hdrMd[c])
<1>1. TcParseFunc(c, s, r)
  BY DEF Parse
<1>2. frame[s] \in Frame
  BY DEF PnaOK, PnaTyped
<1>3. /\ r.md \in HdrMd
      /\ Accepted(frame[s]) => r.ret # TC_ACT_SHOT /\ r.md = Extracted(frame[s])
      /\ ~Accepted(frame[s]) => r.ret = TC_ACT_SHOT
  BY <1>2, ParserResult
<1> HIDE DEF r
<1>4. /\ PnaOK' /\ CpuInv'
      /\ pc[c] = "idle" /\ loc[s] = "ingress"
      /\ port'[s] = port[s] /\ frame'[s] = frame[s] /\ rcvd'[s] = rcvd[s] /\ cb'[s] = cb[s]
      /\ r.ret = TC_ACT_SHOT => loc'[s] = "dropped" /\ pc'[c] = "idle"
      /\ r.ret # TC_ACT_SHOT => /\ loc'[s] = "cpu" /\ pc'[c] = "main"
                                /\ cur'[c] = s /\ hdrMd'[c] = r.md
      /\ \A t \in Skbs : t # s => SameSkb(t)
      /\ \A d \in Cpus : d # c => SameCpu(d) /\ (pc[d] # "idle" => cur[d] # s)
  BY <1>1, <1>3, ParseStep DEF PnaOK
<1>5. frame[s] = rcvd[s] /\ port[s] # 0 /\ cb[s].drop = FALSE /\ cb[s].pass_to_kernel = FALSE
  BY <1>4 DEF SkbInv, SkbOK
<1>6. SkbInv'
  <2>1. SkbOK(loc'[s], port'[s], frame'[s], cb'[s], rcvd'[s])
    BY <1>4, <1>5 DEF SkbOK
  <2>2. \A t \in Skbs : t # s => SkbOK(loc'[t], port'[t], frame'[t], cb'[t], rcvd'[t])
    BY <1>4 DEF SkbInv, SameSkb
  <2> QED
    BY <2>1, <2>2 DEF SkbInv
<1>7. ScratchInv'
  <2> SUFFICES ASSUME NEW d \in Cpus, pc'[d] # "idle"
               PROVE  Accepted(rcvd'[cur'[d]]) /\ hdrMd'[d] = Extracted(rcvd'[cur'[d]])
    BY DEF ScratchInv
  <2>1. CASE d = c
    BY <1>3, <1>4, <1>5, <2>1
  <2>2. CASE d # c
    <3>1. SameCpu(d) /\ pc[d] # "idle" /\ cur[d] # s
      BY <1>4, <2>2 DEF SameCpu
    <3>2. cur[d] \in Skbs
      BY <3>1 DEF CpuInv
    <3>3. rcvd'[cur'[d]] = rcvd[cur[d]]
      BY <1>4, <3>1, <3>2 DEF SameCpu, SameSkb
    <3> QED
      BY <3>1, <3>3 DEF SameCpu, ScratchInv
  <2> QED
    BY <2>1, <2>2
<1>8. TableInv'
  BY DEF Parse, TableInv
<1> QED
  BY <1>4, <1>6, <1>7, <1>8

(***************************************************************************)
(* The main block, and its early returns, the first of which (a packet     *)
(* marked for the kernel) is never taken.                                  *)
(***************************************************************************)
LEMMA MainInv ==
  ASSUME IndInv, NEW c \in Cpus, Main(c)
  PROVE  IndInv'
<1> DEFINE f == rcvd[cur[c]]
           b == cb[cur[c]]
           p == port[cur[c]]
<1>1. pc[c] # "idle" /\ arp' = arp
  BY DEF Main, IngressEarly, EarlyReturn, PassToKernel, MetadataShot, Process, EntersMain
<1>2. /\ f \in Frame /\ frame[cur[c]] = f /\ hdrMd[c] \in HdrMd
      /\ b \in Cb /\ b.pass_to_kernel = FALSE
      /\ p \in Nat /\ p # 0
  BY <1>1, AtWork
<1>3. CASE IngressEarly(c)
  <2>1. Leave(c, "dropped", f, b, hdrMd[c])
    BY <1>2, <1>3 DEF IngressEarly, EarlyReturn, PassToKernel, MetadataShot
  <2>2. SkbOK("dropped", p, f, b, f)
    BY <1>2 DEF SkbOK
  <2> QED
    BY <1>1, <1>2, <2>1, <2>2, LeaveInv
<1>4. CASE Process(c)
  <2> DEFINE m == arp[Target(f)]
             w == Answer(f, m)
  <2>1. CASE Answers(arp, Target(f))
    <3>1. /\ m \in Nat
          /\ \E md \in HdrMd : Leave(c, "sent", w, send_to_port(b, p), md)
      BY <1>4, <2>1, ProcessStep, Zenon
    <3>2. send_to_port(b, p) \in Cb
      BY <1>2, CbTypes
    <3>3. w \in Frame /\ (WholeArp(f) => ~Accepted(w))
      <4> HIDE DEF m, f
      <4> QED
        BY <1>2, <3>1, AnswerRejected
    <3>4. SkbOK("sent", p, w, send_to_port(b, p), f)
      BY <1>2, <3>3 DEF SkbOK
    <3> HIDE DEF w
    <3> QED
      BY <1>1, <3>1, <3>2, <3>3, <3>4, LeaveInv
  <2>2. CASE ~Answers(arp, Target(f))
    <3>1. Leave(c, "dropped", RestoreEtherType(f), drop_packet(b), hdrMd[c])
      BY <1>4, <2>2, ProcessStep
    <3>2. drop_packet(b) \in Cb /\ RestoreEtherType(f) \in Frame
      BY <1>2, CbTypes, RestoredFrame
    <3>3. SkbOK("dropped", p, RestoreEtherType(f), drop_packet(b), f)
      BY <1>2 DEF SkbOK
    <3> QED
      BY <1>1, <1>2, <3>1, <3>2, <3>3, LeaveInv
  <2> QED
    BY <2>1, <2>2
<1> QED
  BY <1>3, <1>4 DEF Main

(***************************************************************************)
(* The control plane changes arp_table only, and as it may be.             *)
(***************************************************************************)
LEMMA CtrlInv ==
  ASSUME IndInv, (\E a \in Addrs : CtrlPlane(a)) \/ UNCHANGED vars
  PROVE  IndInv' /\ UNCHANGED pnaVars
<1>1. UNCHANGED pnaVars
  BY DEF CtrlPlane, vars
<1>2. TableInv'
  BY DEF CtrlPlane, vars, TableInv, IndInv
<1> QED
  BY <1>1, <1>2 DEF pnaVars, IndInv, PnaOK, PnaTyped, CpuInv, ScratchInv, SkbInv

-----------------------------------------------------------------------------
(* The theorems *)

(***************************************************************************)
(* The inductive invariant holds in every reachable state.                 *)
(***************************************************************************)
THEOREM Invariance == Spec => []IndInv
<1>1. Init => IndInv
  <2> SUFFICES ASSUME Init
               PROVE  IndInv
    OBVIOUS
  <2>1. NoFrame \in Frame
    <3>1. <<0, 0>> \in Half
      BY DEF Half, Byte
    <3> QED
      BY <3>1 DEF NoFrame, Frame, NoMd
  <2>2. ZeroHdrMd \in HdrMd
    BY <2>1, MdTypes
  <2>3. /\ PnaOK /\ CpuInv
        /\ loc = [s \in Skbs |-> "new"] /\ cb = [s \in Skbs |-> ZeroCb] /\ pc = [c \in Cpus |-> "idle"]
    BY <2>1, <2>2, InitStep DEF Init, PnaOK
  <2>4. \A s \in Skbs : frame[s] = rcvd[s]
    BY DEF Init, PnaInit
  <2>5. ScratchInv
    BY <2>3 DEF ScratchInv
  <2>6. SkbInv
    BY <2>3, <2>4 DEF SkbInv, SkbOK, ZeroCb
  <2>7. TableInv
    BY DEF Init, TableInv
  <2> QED
    BY <2>3, <2>5, <2>6, <2>7 DEF IndInv
<1>2. IndInv /\ [Next]_vars => IndInv'
  BY ReceiveInv, ParseInv, MainInv, CtrlInv DEF Next
<1> QED
  BY <1>1, <1>2, PTL DEF Spec

(***************************************************************************)
(* The variables of the pipeline and its table have their types.           *)
(***************************************************************************)
THEOREM TypeCorrect == Spec => []TypeOK
<1>1. IndInv => TypeOK
  BY DEF IndInv, PnaOK, PnaTyped, TableInv, TypeOK
<1> QED
  BY <1>1, Invariance, PTL

(***************************************************************************)
(* A reply is rejected by the parser of a second responder.                *)
(***************************************************************************)
THEOREM NoEndlessReplies == Spec => []RepliesNotAnswered
<1>1. IndInv => RepliesNotAnswered
  <2> SUFFICES ASSUME IndInv, NEW s \in Skbs, loc[s] = "sent", WholeArp(rcvd[s])
               PROVE  run_parser(frame[s], ZeroHdrMd).ret = TC_ACT_SHOT
    BY DEF RepliesNotAnswered
  <2>1. frame[s] \in Frame /\ ~Accepted(frame[s])
    BY DEF IndInv, PnaOK, PnaTyped, SkbInv, SkbOK
  <2> QED
    BY <2>1, ParserResult
<1> QED
  BY <1>1, Invariance, PTL

(***************************************************************************)
(* A step that sends a packet answers it by the entry of its own address.  *)
(***************************************************************************)
LEMMA SendStep ==
  ASSUME IndInv, Next, NEW s \in Skbs, loc[s] # "sent", loc'[s] = "sent"
  PROVE  LET a == IF WholeArp(rcvd[s]) THEN rcvd[s].tpa ELSE 0
         IN /\ a \in DOMAIN arp /\ arp[a] # DropEntry
            /\ WholeArp(rcvd[s]) => rcvd[s].oper = <<0, 1>>
            /\ cb'[s].egress_port = port[s]
            /\ frame'[s] = Answer(rcvd[s], arp[a])
<1>1. ASSUME NEW c \in Cpus, pc[c] # "idle", NEW l, NEW g, NEW b, NEW md, Leave(c, l, g, b, md)
      PROVE  s = cur[c] /\ l = "sent" /\ frame'[s] = g /\ cb'[s] = b
  <2>1. /\ loc' = [loc EXCEPT ![cur[c]] = l] /\ frame' = [frame EXCEPT ![cur[c]] = g]
        /\ cb' = [cb EXCEPT ![cur[c]] = b]
    BY <1>1 DEF Leave
  <2> QED
    BY <2>1 DEF IndInv, PnaOK, PnaTyped
<1>2. ASSUME NEW t \in Skbs, Receive(t)
      PROVE  FALSE
  <2>1. loc' = [loc EXCEPT ![t] = "ingress"]
    BY <1>2 DEF Receive, Arrive
  <2> QED
    BY <2>1 DEF IndInv, PnaOK, PnaTyped
<1>3. ASSUME NEW c \in Cpus, NEW t \in Skbs, Parse(c, t)
      PROVE  FALSE
  <2>1. loc' = [loc EXCEPT ![t] = "dropped"] \/ loc' = [loc EXCEPT ![t] = "cpu"]
    BY <1>3 DEF Parse, TcParseFunc
  <2> QED
    BY <2>1 DEF IndInv, PnaOK, PnaTyped
<1>4. ASSUME NEW c \in Cpus, IngressEarly(c)
      PROVE  FALSE
  <2>1. /\ pc[c] # "idle"
        /\ \E l \in {"stack", "dropped"} : Leave(c, l, frame[cur[c]], cb[cur[c]], hdrMd[c])
    BY <1>4 DEF IngressEarly, EarlyReturn, PassToKernel, MetadataShot
  <2> QED
    BY <1>1, <2>1
<1>5. ASSUME \E a \in Addrs : CtrlPlane(a)
      PROVE  FALSE
  BY <1>5, CtrlInv DEF pnaVars
<1>6. PICK c \in Cpus : Process(c)
  BY <1>2, <1>3, <1>4, <1>5 DEF Next, Main
<1> DEFINE f == rcvd[cur[c]]
           m == arp[Target(f)]
           w == Answer(f, m)
           b == send_to_port(cb[cur[c]], port[cur[c]])
<1>7. /\ pc[c] # "idle"
      /\ Answers(arp, Target(f)) => \E md \in HdrMd : Leave(c, "sent", w, b, md)
      /\ ~Answers(arp, Target(f)) =>
           Leave(c, "dropped", RestoreEtherType(f), drop_packet(cb[cur[c]]), hdrMd[c])
  BY <1>6, ProcessStep, Zenon
<1>8. Answers(arp, Target(f))
  BY <1>1, <1>7
<1>9. b.egress_port = port[cur[c]]
  BY DEF send_to_port
<1>10. Accepted(f)
  BY <1>7, AtWork
<1> HIDE DEF w, b
<1>11. s = cur[c] /\ frame'[s] = w /\ cb'[s] = b
  BY <1>1, <1>7, <1>8
<1> QED
  BY <1>8, <1>9, <1>10, <1>11, Zenon DEF Answers, Target, Accepted, w

(***************************************************************************)
(* However CPUs and control plane interleave, what is sent is the answer   *)
(* to the packet received, by the entry that its own address has at that   *)
(* moment, on the port it came from.                                       *)
(***************************************************************************)
THEOREM AnsweredByEntry == Spec => AnsweredByOwnEntry
<1> DEFINE A == \A s \in Skbs : loc[s] # "sent" /\ loc'[s] = "sent" =>
                  LET a == IF WholeArp(rcvd[s]) THEN rcvd[s].tpa ELSE 0
                  IN /\ a \in DOMAIN arp /\ arp[a] # DropEntry
                     /\ WholeArp(rcvd[s]) => rcvd[s].oper = <<0, 1>>
                     /\ cb'[s].egress_port = port[s]
                     /\ frame'[s] = Answer(rcvd[s], arp[a])
<1>1. IndInv /\ [Next]_vars => [A]_vars
  BY SendStep, Zenon
<1> QED
  BY <1>1, Invariance, PTL DEF Spec, AnsweredByOwnEntry

(***************************************************************************)
(* What a step makes of an ARP packet that a CPU is at work on.            *)
(***************************************************************************)
LEMMA FollowStep ==
  ASSUME IndInv, Next, NEW s \in Skbs, loc[s] = "cpu", IsArp(rcvd[s])
  PROVE  LET a == IF WholeArp(rcvd[s]) THEN rcvd[s].tpa ELSE 0
         IN loc'[s] \in {"cpu", IF a \in DOMAIN arp /\ arp[a] # DropEntry THEN "sent" ELSE "dropped"}
<1> DEFINE a == Target(rcvd[s])
           v == IF a \in DOMAIN arp /\ arp[a] # DropEntry THEN "sent" ELSE "dropped"
<1>1. ASSUME NEW c \in Cpus, NEW l, NEW g, NEW b, NEW md, Leave(c, l, g, b, md)
      PROVE  (s = cur[c] /\ loc'[s] = l) \/ loc'[s] = "cpu"
  <2>1. loc' = [loc EXCEPT ![cur[c]] = l]
    BY <1>1 DEF Leave
  <2> QED
    BY <2>1 DEF IndInv, PnaOK, PnaTyped
<1>2. ASSUME NEW t \in Skbs, Receive(t)
      PROVE  loc'[s] = "cpu"
  <2>1. loc[t] = "new" /\ loc' = [loc EXCEPT ![t] = "ingress"]
    BY <1>2 DEF Receive, Arrive
  <2> QED
    BY <2>1 DEF IndInv, PnaOK, PnaTyped
<1>3. ASSUME NEW c \in Cpus, NEW t \in Skbs, Parse(c, t)
      PROVE  loc'[s] = "cpu"
  <2>1. loc[t] = "ingress" /\ (loc' = [loc EXCEPT ![t] = "dropped"] \/ loc' = [loc EXCEPT ![t] = "cpu"])
    BY <1>3 DEF Parse, TcParseFunc
  <2> QED
    BY <2>1 DEF IndInv, PnaOK, PnaTyped
<1>4. ASSUME \E x \in Addrs : CtrlPlane(x)
      PROVE  loc'[s] = "cpu"
  BY <1>4, CtrlInv DEF pnaVars
<1>5. ASSUME NEW c \in Cpus, IngressEarly(c)
      PROVE  loc'[s] = "cpu"
  <2>1. pc[c] # "idle" /\ (PassToKernel(c) \/ MetadataShot(c))
    BY <1>5 DEF IngressEarly, EarlyReturn, PassToKernel, MetadataShot
  <2>2. /\ frame[cur[c]] = rcvd[cur[c]] /\ cb[cur[c]].pass_to_kernel = FALSE
        /\ rcvd[cur[c]] \in Frame
    BY <2>1, AtWork
  <2>3. MetadataFails(rcvd[cur[c]]) /\ Leave(c, "dropped", frame[cur[c]], cb[cur[c]], hdrMd[c])
    BY <2>1, <2>2 DEF PassToKernel, MetadataShot
  <2>4. ~IsArp(rcvd[cur[c]])
    <3>1. rcvd[cur[c]].len \in Nat
      BY <2>2, FrameFields
    <3> QED
      BY <2>3, <3>1 DEF MetadataFails, IsArp, HasEth, EthLen
  <2> QED
    BY <1>1, <2>3, <2>4
<1>6. ASSUME NEW c \in Cpus, Process(c)
      PROVE  loc'[s] \in {"cpu", v}
  <2> DEFINE f == rcvd[cur[c]]
             w == Answer(f, arp[Target(f)])
             b == send_to_port(cb[cur[c]], port[cur[c]])
  <2>1. /\ Answers(arp, Target(f)) => \E md \in HdrMd : Leave(c, "sent", w, b, md)
        /\ ~Answers(arp, Target(f)) =>
             Leave(c, "dropped", RestoreEtherType(f), drop_packet(cb[cur[c]]), hdrMd[c])
    BY <1>6, ProcessStep, Zenon
  <2> HIDE DEF w, b
  <2>2. CASE Answers(arp, Target(f))
    BY <1>1, <2>1, <2>2 DEF Answers
  <2>3. CASE ~Answers(arp, Target(f))
    BY <1>1, <2>1, <2>3 DEF Answers
  <2> QED
    BY <2>2, <2>3
<1>7. loc'[s] \in {"cpu", v}
  BY <1>2, <1>3, <1>4, <1>5, <1>6 DEF Next, Main
<1> QED
  BY <1>7 DEF Target

(***************************************************************************)
(* However CPUs and control plane interleave, an ARP packet that is not    *)
(* rejected is answered if the address it asks for has an entry at that    *)
(* moment and dropped if not; none comes to the stack.                     *)
(***************************************************************************)
THEOREM ArpAnsweredOrDropped == Spec => ArpFollowsTable
<1> DEFINE A == \A s \in Skbs : loc[s] = "cpu" /\ IsArp(rcvd[s]) =>
                  LET a == IF WholeArp(rcvd[s]) THEN rcvd[s].tpa ELSE 0
                  IN loc'[s] \in {"cpu", IF a \in DOMAIN arp /\ arp[a] # DropEntry THEN "sent" ELSE "dropped"}
<1>1. IndInv /\ [Next]_vars => [A]_vars
  BY FollowStep, Zenon
<1> QED
  BY <1>1, Invariance, PTL DEF Spec, ArpFollowsTable
=============================================================================
