--------------------------- MODULE RoutingProofs ----------------------------
(***************************************************************************)
(* routing: what the deparser does to the IPv4 header, the inductive       *)
(* invariant from which its safety properties follow, and the refinement   *)
(* of Router.                                                              *)
(***************************************************************************)
EXTENDS Routing, PnaProofs, WellFoundedInduction

(***************************************************************************)
(* The word of ttl and protocol is a 16-bit value.                         *)
(***************************************************************************)
LEMMA TtlWordRange ==
  ASSUME NEW ttl \in Byte, NEW proto \in Byte
  PROVE  TtlWord(ttl, proto) \in U16 /\ (ttl > 0 => TtlWord(ttl, proto) > 0)
<1>1. ttl * 256 + proto \in U16
  BY JoinBytes
<1>2. ttl > 0 => ttl * 256 + proto > 0
  BY DEF Byte
<1> QED
  BY <1>1, <1>2 DEF TtlWord

(***************************************************************************)
(* ip_ttl_dec of a packet that is routed takes one from the ttl, without   *)
(* wrapping, and leaves a checksum that is right exactly if the one        *)
(* received was, whatever the other words of the header are.               *)
(***************************************************************************)
THEOREM TtlDecKeepsChecksum ==
  ASSUME NEW md \in IpHdrMd, IsRoutable(md), NEW rest \in U16
  PROVE  /\ ip_ttl_dec(md).ip.ttl = md.ip.ttl - 1
         /\ ip_ttl_dec(md).ip.chk \in U16
         /\ ValidChecksum(rest, TtlWord(ip_ttl_dec(md).ip.ttl, ip_ttl_dec(md).ip.proto),
                          ip_ttl_dec(md).ip.chk)
            <=> ValidChecksum(rest, TtlWord(md.ip.ttl, md.ip.proto), md.ip.chk)
<1> DEFINE ttl == md.ip.ttl
           proto == md.ip.proto
           chk == md.ip.chk
           m == TtlWord(ttl, proto)
           n == TtlWord(ttl - 1, proto)
<1>1. ttl \in Byte /\ proto \in Byte /\ chk \in U16 /\ ttl > 1
  BY DEF IpHdrMd, IsRoutable
<1>2. ttl \in Int /\ 1 < ttl /\ ttl <= 255
  BY <1>1 DEF Byte
<1>3. (ttl + 255) % 256 = ttl - 1
  BY <1>2, Z3
<1>4. ttl - 1 \in Byte /\ ttl - 1 > 0
  BY <1>2 DEF Byte
<1>5. m \in U16 /\ m > 0 /\ n \in U16 /\ n > 0
  BY <1>1, <1>2, <1>4, TtlWordRange
<1>6. /\ ip_ttl_dec(md).ip.ttl = ttl - 1
      /\ ip_ttl_dec(md).ip.proto = proto
      /\ ip_ttl_dec(md).ip.chk = Updated(chk, m, n)
  BY <1>3 DEF ip_ttl_dec, DecTtl, Updated
<1> HIDE DEF m, n
<1>7. Updated(chk, m, n) \in U16
  BY <1>1, <1>5, UpdatedValue
<1>8. ValidChecksum(rest, n, Updated(chk, m, n)) <=> ValidChecksum(rest, m, chk)
  BY <1>1, <1>5, UpdateKeepsValidity
<1> QED
  BY <1>6, <1>7, <1>8 DEF m, n

-----------------------------------------------------------------------------
(* The lookups *)

(***************************************************************************)
(* Among prefixes there is a longest one.                                  *)
(***************************************************************************)
LEMMA LongestExists ==
  ASSUME NEW M, M \subseteq Prefixes, M # {}
  PROVE  \E p \in M : \A q \in M : q.len <= p.len
<1> DEFINE T == {32 - p.len : p \in M}
<1>1. \A p \in M : p.len \in Int /\ p.len <= 32
  BY PrefixesAssumption DEF Prefix
<1>2. T \subseteq Nat /\ T # {}
  BY <1>1
<1> HIDE DEF T
<1>3. PICK x \in T : \A y \in T : ~(<<y, x>> \in OpToRel(<, Nat))
  BY <1>2, NatLessThanWellFounded, WFMin
<1>4. \A y \in T : ~(y < x)
  BY <1>2, <1>3 DEF OpToRel
<1>5. PICK p \in M : x = 32 - p.len
  BY <1>3 DEF T
<1>6. \A q \in M : ~(32 - q.len < 32 - p.len)
  BY <1>4, <1>5 DEF T
<1> QED
  BY <1>1, <1>5, <1>6

(***************************************************************************)
(* fib_table has an index of its own for an address, or the default.       *)
(***************************************************************************)
LEMMA FibIndex ==
  ASSUME NEW t, DOMAIN t \subseteq Prefixes, t \in [DOMAIN t -> Indices], NEW a
  PROVE  /\ fib_lookup(t, a) \in Nat
         /\ LET covers == {p \in DOMAIN t : a \in p.addrs}
                longest == {p \in covers : \A q \in covers : q.len <= p.len}
            IN fib_lookup(t, a) \in IF covers = {} THEN {0} ELSE {t[p] : p \in longest}
<1> DEFINE M == {p \in DOMAIN t : a \in p.addrs}
           L == {p \in M : \A q \in M : q.len <= p.len}
           best == CHOOSE p \in M : \A q \in M : q.len <= p.len
<1>1. CASE M = {}
  BY <1>1 DEF fib_lookup
<1>2. CASE M # {}
  <2>1. \E p \in M : \A q \in M : q.len <= p.len
    BY <1>2, LongestExists
  <2>2. best \in M /\ \A q \in M : q.len <= best.len
    BY <2>1
  <2>3. fib_lookup(t, a) = t[best]
    BY <1>2 DEF fib_lookup
  <2> HIDE DEF best
  <2>4. best \in DOMAIN t /\ best \in L
    BY <2>2
  <2>5. t[best] \in Nat
    BY <2>4, IndicesAssumption
  <2> QED
    BY <1>2, <2>3, <2>4, <2>5
<1> QED
  BY <1>1, <1>2

(***************************************************************************)
(* nh_table sends the packet, or drops it.                                 *)
(***************************************************************************)
LEMMA NhCases ==
  ASSUME NEW t, NEW i, NEW md, NEW b
  PROVE  /\ i \in DOMAIN t /\ t[i] # DropEntry =>
              /\ nh_lookup(t, i, md, b).md = WithMacs(md, md.eth.smac, t[i].dmac)
              /\ nh_lookup(t, i, md, b).cb = send_to_port(b, t[i].port)
         /\ ~(i \in DOMAIN t /\ t[i] # DropEntry) =>
              nh_lookup(t, i, md, b).md = md /\ nh_lookup(t, i, md, b).cb = drop_packet(b)
BY DEF nh_lookup

-----------------------------------------------------------------------------
(* The parser and the packets that are to be routed *)

(***************************************************************************)
(* What run_parser makes of a packet, whatever the map held before.        *)
(***************************************************************************)
LEMMA ParserResult ==
  ASSUME NEW f \in IpFrame, NEW md
  PROVE  /\ run_parser(f, md).md \in IpHdrMd
         /\ IpAccepted(f) => run_parser(f, md).ret # TC_ACT_SHOT /\ run_parser(f, md).md = IpExtracted(f)
         /\ ~IpAccepted(f) => run_parser(f, md).ret = TC_ACT_SHOT
<1>1. run_parser(f, md) = start(f, ZeroIpHdrMd)
  BY DEF run_parser, memset
<1>2. IpEthMd(f) = ExtractEth(ZeroIpHdrMd, f) /\ IpIpv4Md(f) = ExtractIpv4(IpEthMd(f), f)
  BY DEF IpEthMd, IpIpv4Md
<1>3. ZeroIpHdrMd \in IpHdrMd /\ IpEthMd(f) \in IpHdrMd /\ IpIpv4Md(f) \in IpHdrMd
  BY IpMdTypes
<1>4. CASE f.len < 14
  <2>1. start(f, ZeroIpHdrMd) = Accept(ZeroIpHdrMd) /\ IpExtracted(f) = ZeroIpHdrMd
    BY <1>4, IpExtractCases, IpWhichMd DEF start
  <2> QED
    BY <1>1, <1>3, <1>4, <2>1, IpExtractCases DEF IpAccepted
<1>5. CASE ~(f.len < 14) /\ f.etherType # <<8, 0>>
  <2>1. start(f, ZeroIpHdrMd) = Reject(IpEthMd(f), NoError)
    BY <1>2, <1>5, IpExtractCases DEF start
  <2>2. Reject(IpEthMd(f), NoError) = [ret |-> TC_ACT_SHOT, md |-> IpEthMd(f)]
    BY IpExtractCases
  <2> QED
    BY <1>1, <1>3, <1>5, <2>1, <2>2 DEF IpAccepted
<1>6. CASE ~(f.len < 14) /\ f.etherType = <<8, 0>>
  <2>1. start(f, ZeroIpHdrMd) = parse_ipv4(f, IpEthMd(f))
    BY <1>2, <1>6, IpExtractCases DEF start
  <2>2. parse_ipv4(f, IpEthMd(f)) = Accept(IpExtracted(f))
    BY <1>2, <1>6, IpExtractCases, IpWhichMd DEF parse_ipv4
  <2>3. IpExtracted(f) \in IpHdrMd
    BY IpMdTypes
  <2> QED
    BY <1>1, <1>6, <2>1, <2>2, <2>3, IpExtractCases DEF IpAccepted
<1> QED
  BY <1>4, <1>5, <1>6

(***************************************************************************)
(* The main block takes the packets that are to be routed, and no others,  *)
(* to its tables.                                                          *)
(***************************************************************************)
LEMMA RoutableMd ==
  ASSUME NEW f \in IpFrame, IpAccepted(f)
  PROVE  /\ IsRoutable(IpExtracted(f)) <=> Routable(f)
         /\ Routable(f) => IpExtracted(f) = IpIpv4Md(f) /\ ~MetadataFails(f)
<1>1. f.len \in Nat
  BY IpFrameFields
<1>2. Routable(f) <=> ~(f.len < 34) /\ f.etherType = <<8, 0>> /\ f.ttl > 1
  BY IpExtractCases DEF Routable
<1>3. ~(f.len < 34) => ~(f.len < 14)
  BY <1>1
<1>4. /\ ZeroIpHdrMd.ip.valid = FALSE /\ IpEthMd(f).ip = ZeroIpHdrMd.ip
      /\ IpIpv4Md(f).ip.valid = TRUE /\ IpIpv4Md(f).ip.ttl = f.ttl
  BY IpMdFields
<1>5. IsRoutable(IpExtracted(f)) <=> IpExtracted(f) = IpIpv4Md(f) /\ ~(f.len < 34) /\ f.ttl > 1
  BY <1>4, IpWhichMd DEF IsRoutable
<1> QED
  BY <1>2, <1>3, <1>5, IpWhichMd DEF IpAccepted, MetadataFails

(***************************************************************************)
(* ip_ttl_dec leaves a well-formed map, with the same headers.             *)
(***************************************************************************)
LEMMA TtlDecType ==
  ASSUME NEW md \in IpHdrMd
  PROVE  /\ ip_ttl_dec(md) \in IpHdrMd
         /\ ip_ttl_dec(md).eth = md.eth /\ ip_ttl_dec(md).offset = md.offset
         /\ ip_ttl_dec(md).ip.valid = md.ip.valid /\ ip_ttl_dec(md).ip.proto = md.ip.proto
         /\ ip_ttl_dec(md).ip.src = md.ip.src /\ ip_ttl_dec(md).ip.dst = md.ip.dst
<1> DEFINE ttl == DecTtl(md.ip.ttl)
           u == Updated(md.ip.chk, TtlWord(md.ip.ttl, md.ip.proto), TtlWord(ttl, md.ip.proto))
           ip == [valid |-> md.ip.valid, ttl |-> ttl, proto |-> md.ip.proto, chk |-> u,
                  src |-> md.ip.src, dst |-> md.ip.dst]
<1>1. IpHdrMd = [eth : IpEthHdr, ip : IpIpv4Hdr, offset : Nat]
  BY DEF IpHdrMd, IpEthHdr, IpIpv4Hdr
<1>2. /\ md.ip.valid \in BOOLEAN /\ md.ip.ttl \in Byte /\ md.ip.proto \in Byte /\ md.ip.chk \in U16
      /\ md.ip.src \in Nat /\ md.ip.dst \in Nat /\ md.eth \in IpEthHdr /\ md.offset \in Nat
  BY <1>1 DEF IpIpv4Hdr
<1>3. ttl \in Byte
  <2>1. md.ip.ttl \in Int
    BY <1>2 DEF Byte
  <2>2. (md.ip.ttl + 255) % 256 \in Int /\ 0 <= (md.ip.ttl + 255) % 256 /\ (md.ip.ttl + 255) % 256 <= 255
    BY <2>1, Z3
  <2> QED
    BY <2>2 DEF DecTtl, Byte
<1>4. ip_ttl_dec(md) = [eth |-> md.eth, offset |-> md.offset, ip |-> ip]
  BY Zenon DEF ip_ttl_dec, Updated
<1> HIDE DEF ttl
<1>5. u \in U16
  BY <1>2, <1>3, TtlWordRange, UpdatedValue
<1> HIDE DEF u
<1>6. ip \in IpIpv4Hdr
  BY <1>2, <1>3, <1>5 DEF IpIpv4Hdr
<1>7. /\ ip.valid = md.ip.valid /\ ip.proto = md.ip.proto
      /\ ip.src = md.ip.src /\ ip.dst = md.ip.dst
  OBVIOUS
<1> HIDE DEF ip
<1> QED
  BY <1>1, <1>2, <1>4, <1>6, <1>7

-----------------------------------------------------------------------------
(* The inductive invariant *)

(***************************************************************************)
(* A CPU's map and its packet belong together: the headers in the map are  *)
(* those of the packet as received, which waits for nh_table only if it is *)
(* to be routed.                                                           *)
(***************************************************************************)
ScratchInv ==
  \A c \in Cpus : pc[c] # "idle" =>
    /\ IpAccepted(rcvd[cur[c]])
    /\ hdrMd[c] = IpExtracted(rcvd[cur[c]])
    /\ pc[c] = "main" => frame[cur[c]] = rcvd[cur[c]]
    /\ pc[c] = "nh_table" => /\ Routable(rcvd[cur[c]])
                             /\ frame[cur[c]] = RestoreEtherType(rcvd[cur[c]])

\* What holds of a packet that was received as r and sent as f with metadata b.
SentOK(f, b, r) ==
  /\ Routable(r)
  /\ \E n \in NextHops \ {DropEntry} :
       /\ b.egress_port = n.port
       /\ f = [r EXCEPT !.dmac = n.dmac, !.ttl = @ - 1, !.chk = f.chk]
  /\ ChecksumRight(f) <=> ChecksumRight(r)

SkbOK(l, f, b, r) ==
  /\ l = "ingress" => f = r
  /\ l # "stack" /\ ~b.pass_to_kernel
  /\ l = "sent" => SentOK(f, b, r)

SkbInv == \A s \in Skbs : SkbOK(loc[s], frame[s], cb[s], rcvd[s])

TableInv ==
  /\ DOMAIN fib \subseteq Prefixes /\ fib \in [DOMAIN fib -> Indices]
  /\ DOMAIN nh \subseteq Indices /\ nh \in [DOMAIN nh -> NextHops]
  /\ nhIndex \in [Cpus -> Nat]

IndInv == IpPnaOK /\ TableInv /\ CpuInv /\ ScratchInv /\ SkbInv

-----------------------------------------------------------------------------
(* The packets that leave *)

(***************************************************************************)
(* What the deparser writes for a packet that is routed to next hop n: the *)
(* received packet with the MAC address of n and its ttl one less, and a   *)
(* checksum that is right exactly if the received one was.                 *)
(***************************************************************************)
LEMMA RoutedWrite ==
  ASSUME NEW f \in IpFrame, Routable(f), NEW n \in NextHops \ {DropEntry},
         NEW b, b.egress_port = n.port
  PROVE  LET w == WriteIpHeaders(RestoreEtherType(f), ip_ttl_dec(WithMacs(IpIpv4Md(f), f.smac, n.dmac)))
         IN w \in IpFrame /\ w.dmac = n.dmac /\ SentOK(w, b, f)
<1> DEFINE g == RestoreEtherType(f)
           m0 == WithMacs(IpIpv4Md(f), f.smac, n.dmac)
           m == ip_ttl_dec(m0)
           w == WriteIpHeaders(g, m)
           F == [len : Nat, md : Half \cup {NoMd}, dmac : Nat, smac : Nat, etherType : Half,
                 ttl : Byte, proto : Byte, chk : Half, sum : U16, src : Nat, dst : Nat]
           W(dmac, ttl, chk) ==
             [len |-> f.len, md |-> f.md, dmac |-> dmac, smac |-> f.smac, etherType |-> f.etherType,
              ttl |-> ttl, proto |-> f.proto, chk |-> chk, sum |-> f.sum, src |-> f.src, dst |-> f.dst]
<1>1. f \in F /\ f.ttl > 1
  BY DEF IpFrame, Routable
<1>2. n.dmac \in Nat
  BY NextHopsAssumption DEF NhEntry
<1>3. /\ m0 \in IpHdrMd
      /\ m0.eth.valid = TRUE /\ m0.eth.dmac = n.dmac /\ m0.eth.smac = f.smac
      /\ m0.eth.etherType = load_half(f.etherType)
      /\ m0.ip.valid = TRUE /\ m0.ip.ttl = f.ttl /\ m0.ip.proto = f.proto
      /\ m0.ip.chk = load_half(f.chk) /\ m0.ip.src = f.src /\ m0.ip.dst = f.dst
  <2>1. m0 \in IpHdrMd
    BY <1>2, IpMdTypes, IpFrameFields
  <2>2. /\ m0.eth.valid = IpIpv4Md(f).eth.valid /\ m0.eth.dmac = n.dmac /\ m0.eth.smac = f.smac
        /\ m0.eth.etherType = IpIpv4Md(f).eth.etherType /\ m0.ip = IpIpv4Md(f).ip
    BY DEF WithMacs
  <2>3. /\ IpIpv4Md(f).eth = IpEthMd(f).eth /\ IpEthMd(f).eth.valid = TRUE
        /\ IpEthMd(f).eth.etherType = load_half(f.etherType)
    BY IpMdFields
  <2>4. /\ IpIpv4Md(f).ip.valid = TRUE /\ IpIpv4Md(f).ip.ttl = f.ttl /\ IpIpv4Md(f).ip.proto = f.proto
        /\ IpIpv4Md(f).ip.chk = load_half(f.chk)
        /\ IpIpv4Md(f).ip.src = f.src /\ IpIpv4Md(f).ip.dst = f.dst
    BY IpMdFields
  <2> HIDE DEF m0
  <2> QED
    BY <2>1, <2>2, <2>3, <2>4
<1> HIDE DEF m0
<1>4. IsRoutable(m0)
  BY <1>1, <1>3 DEF IsRoutable
<1>5. /\ m.ip.ttl = f.ttl - 1 /\ m.ip.chk \in U16
      /\ ValidChecksum(f.sum, TtlWord(f.ttl - 1, f.proto), m.ip.chk)
         <=> ValidChecksum(f.sum, TtlWord(f.ttl, f.proto), load_half(f.chk))
  <2>1. f.sum \in U16
    BY IpFrameFields
  <2>2. m.ip.proto = f.proto
    BY <1>3, TtlDecType
  <2> QED
    BY <1>3, <1>4, <2>1, <2>2, TtlDecKeepsChecksum
<1>6. /\ m.eth.valid = TRUE /\ m.eth.dmac = n.dmac /\ m.eth.smac = f.smac
      /\ m.eth.etherType = load_half(f.etherType)
      /\ m.ip.valid = TRUE /\ m.ip.proto = f.proto /\ m.ip.src = f.src /\ m.ip.dst = f.dst
  <2>1. /\ m.eth = m0.eth /\ m.ip.valid = m0.ip.valid /\ m.ip.proto = m0.ip.proto
        /\ m.ip.src = m0.ip.src /\ m.ip.dst = m0.ip.dst
    BY <1>3, TtlDecType
  <2> HIDE DEF m
  <2> QED
    BY <1>3, <2>1
<1> DEFINE u == emit_half(m.ip.chk)
<1>7. u \in Half /\ load_half(u) = m.ip.chk
  BY <1>5, ValueRoundTrip
<1>8. emit_half(load_half(f.etherType)) = f.etherType
  BY IpFrameFields, FieldRoundTrip
<1>9. g.len = f.len /\ g.md = f.md /\ g.sum = f.sum
  BY IpRestored
<1> HIDE DEF m, g
<1>10. w = W(n.dmac, f.ttl - 1, u)
  BY <1>5, <1>6, <1>8, <1>9 DEF WriteIpHeaders
<1> HIDE DEF u, w
<1>11. f.ttl - 1 \in Byte
  BY <1>1 DEF Byte
<1>12. w \in F
  BY <1>1, <1>2, <1>7, <1>10, <1>11
<1>13. w.dmac = n.dmac /\ w.chk = u /\ w.ttl = f.ttl - 1 /\ w.proto = f.proto /\ w.sum = f.sum
  BY <1>10
<1>14. w = [f EXCEPT !.dmac = n.dmac, !.ttl = @ - 1, !.chk = w.chk]
  <2> DEFINE h1 == [f EXCEPT !.dmac = n.dmac]
  <2>1. h1 = W(n.dmac, f.ttl, f.chk) /\ h1 \in F
    BY <1>1, <1>2
  <2> DEFINE h2 == [h1 EXCEPT !.ttl = @ - 1]
  <2>2. h1.ttl = f.ttl
    BY <2>1
  <2> HIDE DEF h1, F
  <2>3. h2 = W(n.dmac, f.ttl - 1, f.chk) /\ h2 \in F
    BY <1>11, <2>1, <2>2 DEF F
  <2> DEFINE h3 == [h2 EXCEPT !.chk = w.chk]
  <2> HIDE DEF h2
  <2>4. h3 = W(n.dmac, f.ttl - 1, u)
    BY <1>7, <1>13, <2>3 DEF F
  <2> HIDE DEF W
  <2>5. h3 = [f EXCEPT !.dmac = n.dmac, !.ttl = @ - 1, !.chk = w.chk]
    BY DEF h1, h2
  <2> QED
    BY <1>10, <2>4, <2>5
<1>15. ChecksumRight(w) <=> ChecksumRight(f)
  BY <1>5, <1>7, <1>13 DEF ChecksumRight
<1>16. SentOK(w, b, f)
  <2>1. \E k \in NextHops \ {DropEntry} :
          /\ b.egress_port = k.port
          /\ w = [f EXCEPT !.dmac = k.dmac, !.ttl = @ - 1, !.chk = w.chk]
    BY <1>14, Zenon
  <2> QED
    BY <1>15, <2>1, Zenon DEF SentOK
<1>17. w \in IpFrame
  BY <1>12 DEF IpFrame
<1> QED
  BY <1>13, <1>16, <1>17, Zenon DEF w, m, m0, g

-----------------------------------------------------------------------------
(* The steps *)

(***************************************************************************)
(* What a CPU that has a packet at work knows of it.                       *)
(***************************************************************************)
LEMMA AtWork ==
  ASSUME IndInv, NEW c \in Cpus, pc[c] # "idle"
  PROVE  /\ cur[c] \in Skbs /\ loc[cur[c]] = "cpu"
         /\ rcvd[cur[c]] \in IpFrame /\ cb[cur[c]] \in Cb /\ ~cb[cur[c]].pass_to_kernel
         /\ IpAccepted(rcvd[cur[c]]) /\ hdrMd[c] = IpExtracted(rcvd[cur[c]]) /\ hdrMd[c] \in IpHdrMd
         /\ pc[c] = "main" => frame[cur[c]] = rcvd[cur[c]]
         /\ pc[c] = "nh_table" => /\ Routable(rcvd[cur[c]])
                                  /\ frame[cur[c]] = RestoreEtherType(rcvd[cur[c]])
<1>1. cur[c] \in Skbs /\ loc[cur[c]] = "cpu"
  BY DEF IndInv, CpuInv
<1>2. rcvd[cur[c]] \in IpFrame /\ cb[cur[c]] \in Cb /\ hdrMd[c] \in IpHdrMd
  BY <1>1 DEF IndInv, IpPnaOK, PnaTyped
<1>3. ~cb[cur[c]].pass_to_kernel
  BY <1>1 DEF IndInv, SkbInv, SkbOK
<1> QED
  BY <1>1, <1>2, <1>3 DEF IndInv, ScratchInv

(***************************************************************************)
(* The early returns of tc_ingress_func: a packet is dropped whose XDP     *)
(* metadata cannot be restored, which is none that is to be routed.        *)
(***************************************************************************)
LEMMA EarlyStep ==
  ASSUME IndInv, NEW c \in Cpus, IngressEarly(c)
  PROVE  /\ pc[c] = "main" /\ ~Routable(rcvd[cur[c]])
         /\ Leave(c, "dropped", rcvd[cur[c]], cb[cur[c]], hdrMd[c])
<1>1. pc[c] = "main"
  BY DEF IngressEarly, EarlyReturn, PassToKernel, MetadataShot
<1>2. /\ ~cb[cur[c]].pass_to_kernel /\ frame[cur[c]] = rcvd[cur[c]]
      /\ rcvd[cur[c]] \in IpFrame /\ IpAccepted(rcvd[cur[c]])
  BY <1>1, AtWork
<1>3. MetadataFails(rcvd[cur[c]]) /\ Leave(c, "dropped", rcvd[cur[c]], cb[cur[c]], hdrMd[c])
  BY <1>2 DEF IngressEarly, EarlyReturn, PassToKernel, MetadataShot
<1> QED
  BY <1>1, <1>2, <1>3, RoutableMd

(***************************************************************************)
(* Discard drops a packet that is not to be routed.                        *)
(***************************************************************************)
LEMMA DiscardStep ==
  ASSUME IndInv, NEW c \in Cpus, Discard(c)
  PROVE  /\ pc[c] = "main" /\ ~Routable(rcvd[cur[c]])
         /\ Leave(c, "dropped", RestoreEtherType(rcvd[cur[c]]), drop_packet(cb[cur[c]]), ip_ttl_dec(hdrMd[c]))
<1> DEFINE f == rcvd[cur[c]]
           b == drop_packet(cb[cur[c]])
           md == ip_ttl_dec(hdrMd[c])
<1>1. pc[c] = "main" /\ ~IsRoutable(hdrMd[c])
  BY DEF Discard, EntersMain
<1>2. /\ frame[cur[c]] = f /\ f \in IpFrame /\ IpAccepted(f) /\ cb[cur[c]] \in Cb
      /\ hdrMd[c] = IpExtracted(f) /\ hdrMd[c] \in IpHdrMd
  BY <1>1, AtWork
<1>3. ~Routable(f)
  BY <1>1, <1>2, RoutableMd
<1>4. \E r \in DeparseIp(RestoreEtherType(f), md, b) : Return(c, r)
  BY <1>2 DEF Discard, Finish
<1>5. b.drop = TRUE
  BY <1>2 DEF drop_packet
<1>6. md.eth = hdrMd[c].eth /\ md.ip.valid = hdrMd[c].ip.valid /\ md.offset = hdrMd[c].offset
  BY <1>2, TtlDecType
<1> HIDE DEF f, b, md
<1>7. Leave(c, "dropped", RestoreEtherType(f), b, md)
  BY <1>2, <1>4, <1>5, <1>6, IpDeparseLeaves
<1> QED
  BY <1>1, <1>3, <1>7 DEF f, b, md

(***************************************************************************)
(* The next hop of a packet, of which the control plane may have made      *)
(* another one since the index was looked up, takes it out of its port; or *)
(* there is none, and the packet is dropped.                               *)
(***************************************************************************)
LEMMA NhStep ==
  ASSUME IndInv, NEW c \in Cpus, ApplyNh(c)
  PROVE  LET i == nhIndex[c]
             f == rcvd[cur[c]]
             b == cb[cur[c]]
         IN /\ pc[c] = "nh_table" /\ Routable(f)
            /\ i \in DOMAIN nh /\ nh[i] # DropEntry =>
                 /\ nh[i] \in NextHops \ {DropEntry}
                 /\ \E w \in IpFrame, md \in IpHdrMd :
                      /\ w.dmac = nh[i].dmac
                      /\ SentOK(w, send_to_port(b, nh[i].port), f)
                      /\ Leave(c, "sent", w, send_to_port(b, nh[i].port), md)
            /\ ~(i \in DOMAIN nh /\ nh[i] # DropEntry) =>
                 Leave(c, "dropped", RestoreEtherType(f), drop_packet(b), ip_ttl_dec(hdrMd[c]))
<1> DEFINE i == nhIndex[c]
           f == rcvd[cur[c]]
           b == cb[cur[c]]
           r == nh_lookup(nh, i, hdrMd[c], b)
           md == ip_ttl_dec(r.md)
<1>1. pc[c] = "nh_table"
  BY DEF ApplyNh
<1>2. /\ frame[cur[c]] = RestoreEtherType(f) /\ f \in IpFrame /\ Routable(f) /\ b \in Cb /\ IpAccepted(f)
      /\ hdrMd[c] = IpExtracted(f) /\ hdrMd[c] \in IpHdrMd
  BY <1>1, AtWork
<1>3. \E x \in DeparseIp(RestoreEtherType(f), md, r.cb) : Return(c, x)
  BY <1>2, Zenon DEF ApplyNh, Finish
<1>4. CASE i \in DOMAIN nh /\ nh[i] # DropEntry
  <2> DEFINE n == nh[i]
             b1 == send_to_port(b, n.port)
             m0 == WithMacs(hdrMd[c], hdrMd[c].eth.smac, n.dmac)
  <2>1. n \in NextHops \ {DropEntry}
    BY <1>4 DEF IndInv, TableInv
  <2>2. n.dmac \in Nat /\ n.port \in Nat /\ n.port # 0
    BY <2>1, NextHopsAssumption DEF NhEntry
  <2>3. r.md = m0 /\ r.cb = b1
    BY <1>4, NhCases
  <2>4. b1 \in Cb /\ b1.drop = FALSE /\ b1.egress_port = n.port
    BY <1>2, <2>2, CbTypes
  <2>5. IpExtracted(f) = IpIpv4Md(f) /\ ~MetadataFails(f)
    BY <1>2, RoutableMd
  <2>6. hdrMd[c].eth.smac = f.smac
    <3>1. IpIpv4Md(f).eth = IpEthMd(f).eth /\ IpEthMd(f).eth.smac = f.smac
      BY <1>2, IpMdFields
    <3> QED
      BY <1>2, <2>5, <3>1
  <2>7. m0 = WithMacs(IpIpv4Md(f), f.smac, n.dmac)
    BY <1>2, <2>5, <2>6
  <2>8. m0 \in IpHdrMd /\ f.smac \in Nat
    BY <1>2, <2>2, <2>7, IpFrameFields, IpMdTypes
  <2>9. m0.eth.valid = hdrMd[c].eth.valid /\ m0.ip = hdrMd[c].ip /\ m0.offset = hdrMd[c].offset
    BY DEF WithMacs
  <2>10. md = ip_ttl_dec(m0)
    BY <2>3
  <2> HIDE DEF r, m0, b1, n, f
  <2>11. /\ md \in IpHdrMd /\ md.eth = m0.eth /\ md.ip.valid = m0.ip.valid /\ md.offset = m0.offset
    BY <2>8, <2>10, TtlDecType
  <2>12. /\ md.eth.valid = IpExtracted(f).eth.valid /\ md.ip.valid = IpExtracted(f).ip.valid
         /\ md.offset = IpExtracted(f).offset
    BY <1>2, <2>9, <2>11
  <2> DEFINE w == WriteIpHeaders(RestoreEtherType(f), md)
  <2> HIDE DEF md
  <2>13. Leave(c, "sent", w, b1, md)
    BY <1>2, <1>3, <2>2, <2>3, <2>4, <2>12, IpDeparseLeaves
  <2>14. w \in IpFrame /\ w.dmac = n.dmac /\ SentOK(w, b1, f)
    BY <1>2, <2>1, <2>4, <2>7, <2>10, RoutedWrite
  <2> QED
    BY <1>1, <1>2, <1>4, <2>1, <2>11, <2>13, <2>14, Zenon DEF n, b1, f
<1>5. CASE ~(i \in DOMAIN nh /\ nh[i] # DropEntry)
  <2>1. r.md = hdrMd[c] /\ r.cb = drop_packet(b)
    BY <1>5, NhCases
  <2>2. drop_packet(b).drop = TRUE
    BY DEF drop_packet
  <2> HIDE DEF r
  <2>3. md = ip_ttl_dec(hdrMd[c])
    BY <2>1
  <2> HIDE DEF md
  <2>4. md.eth = hdrMd[c].eth /\ md.ip.valid = hdrMd[c].ip.valid /\ md.offset = hdrMd[c].offset
    BY <1>2, <2>3, TtlDecType
  <2>5. Leave(c, "dropped", RestoreEtherType(f), drop_packet(b), md)
    <3> HIDE DEF f
    <3> QED
      BY <1>2, <1>3, <2>1, <2>2, <2>4, IpDeparseLeaves
  <2> QED
    BY <1>1, <1>2, <1>5, <2>3, <2>5
<1> QED
  BY <1>4, <1>5

(***************************************************************************)
(* A CPU that lets go of its packet keeps what concerns packets and CPUs,  *)
(* if the packet it leaves behind is in order.                             *)
(***************************************************************************)
LEMMA LeaveInv ==
  ASSUME IndInv, NEW c \in Cpus, pc[c] # "idle", NEW l \in {"sent", "dropped"},
         NEW f \in IpFrame, NEW b \in Cb, NEW md \in IpHdrMd, Leave(c, l, f, b, md),
         SkbOK(l, f, b, rcvd[cur[c]])
  PROVE  IpPnaOK' /\ CpuInv' /\ ScratchInv' /\ SkbInv'
<1> USE DEF IndInv
<1>1. l \in {"ingress", "stack", "sent", "dropped"}
  OBVIOUS
<1>2. /\ IpPnaOK' /\ CpuInv'
      /\ cur[c] \in Skbs
      /\ loc'[cur[c]] = l /\ frame'[cur[c]] = f /\ cb'[cur[c]] = b /\ rcvd'[cur[c]] = rcvd[cur[c]]
      /\ pc'[c] = "idle"
      /\ \A t \in Skbs : t # cur[c] => SameSkb(t)
      /\ \A d \in Cpus : d # c => SameCpu(d) /\ (pc[d] # "idle" => cur[d] # cur[c])
  BY <1>1, LeaveStep DEF IpPnaOK
<1>3. SkbInv'
  <2> SUFFICES ASSUME NEW s \in Skbs
               PROVE  SkbOK(loc'[s], frame'[s], cb'[s], rcvd'[s])
    BY DEF SkbInv
  <2>1. CASE s = cur[c]
    BY <1>2, <2>1
  <2>2. CASE s # cur[c]
    BY <1>2, <2>2 DEF SameSkb, SkbInv
  <2> QED
    BY <2>1, <2>2
<1>4. ScratchInv'
  <2> SUFFICES ASSUME NEW d \in Cpus, pc'[d] # "idle"
               PROVE  /\ IpAccepted(rcvd'[cur'[d]])
                      /\ hdrMd'[d] = IpExtracted(rcvd'[cur'[d]])
                      /\ pc'[d] = "main" => frame'[cur'[d]] = rcvd'[cur'[d]]
                      /\ pc'[d] = "nh_table" => /\ Routable(rcvd'[cur'[d]])
                                                /\ frame'[cur'[d]] = RestoreEtherType(rcvd'[cur'[d]])
    BY DEF ScratchInv
  <2>1. d # c /\ SameCpu(d) /\ pc[d] # "idle"
    BY <1>2 DEF SameCpu
  <2>2. cur[d] \in Skbs /\ cur[d] # cur[c]
    BY <1>2, <2>1 DEF CpuInv
  <2>3. rcvd'[cur'[d]] = rcvd[cur[d]] /\ frame'[cur'[d]] = frame[cur[d]]
    BY <1>2, <2>1, <2>2 DEF SameCpu, SameSkb
  <2> QED
    BY <2>1, <2>3 DEF SameCpu, ScratchInv
<1> QED
  BY <1>2, <1>3, <1>4

(***************************************************************************)
(* A packet that arrives.                                                  *)
(***************************************************************************)
LEMMA ReceiveInv ==
  ASSUME IndInv, NEW s \in Skbs, Receive(s)
  PROVE  IndInv'
<1> USE DEF IndInv
<1>1. PICK p \in Ports, f \in Frames : Arrive(s, p, f)
  BY DEF Receive
<1>2. p \in Nat /\ f \in IpFrame
  BY PortsAssumption, FramesAssumption
<1>3. /\ IpPnaOK' /\ CpuInv'
      /\ loc[s] = "new" /\ loc'[s] = "ingress" /\ frame'[s] = f /\ rcvd'[s] = f /\ cb'[s] = cb[s]
      /\ \A t \in Skbs : t # s => SameSkb(t)
      /\ \A c \in Cpus : SameCpu(c) /\ (pc[c] # "idle" => cur[c] # s)
  BY <1>1, <1>2, ArriveStep DEF IpPnaOK
<1>4. SkbInv'
  <2>1. SkbOK(loc'[s], frame'[s], cb'[s], rcvd'[s])
    BY <1>3 DEF SkbInv, SkbOK
  <2>2. \A t \in Skbs : t # s => SkbOK(loc'[t], frame'[t], cb'[t], rcvd'[t])
    BY <1>3 DEF SkbInv, SameSkb
  <2> QED
    BY <2>1, <2>2 DEF SkbInv
<1>5. ScratchInv'
  <2>1. ASSUME NEW c \in Cpus, pc'[c] # "idle"
        PROVE  rcvd'[cur'[c]] = rcvd[cur[c]] /\ frame'[cur'[c]] = frame[cur[c]] /\ pc[c] # "idle"
    <3>1. pc[c] # "idle" /\ cur'[c] = cur[c] /\ cur[c] # s
      BY <1>3, <2>1 DEF SameCpu
    <3>2. cur[c] \in Skbs
      BY <3>1 DEF CpuInv
    <3> QED
      BY <1>3, <3>1, <3>2 DEF SameSkb
  <2> QED
    BY <1>3, <2>1 DEF ScratchInv, SameCpu
<1>6. TableInv'
  BY DEF Receive, TableInv
<1> QED
  BY <1>3, <1>4, <1>5, <1>6

(***************************************************************************)
(* A packet that is parsed.                                                *)
(***************************************************************************)
LEMMA ParseInv ==
  ASSUME IndInv, NEW c \in Cpus, NEW s \in Skbs, Parse(c, s)
  PROVE  IndInv'
<1> USE DEF IndInv
<1> DEFINE r == run_parser(frame[s], hdrMd[c])
<1>1. TcParseFunc(c, s, r)
  BY DEF Parse
<1>2. frame[s] \in IpFrame
  BY DEF IpPnaOK, PnaTyped
<1>3. /\ r.md \in IpHdrMd
      /\ IpAccepted(frame[s]) => r.ret # TC_ACT_SHOT /\ r.md = IpExtracted(frame[s])
      /\ ~IpAccepted(frame[s]) => r.ret = TC_ACT_SHOT
  BY <1>2, ParserResult
<1> HIDE DEF r
<1>4. /\ IpPnaOK' /\ CpuInv'
      /\ pc[c] = "idle" /\ loc[s] = "ingress"
      /\ frame'[s] = frame[s] /\ rcvd'[s] = rcvd[s] /\ cb'[s] = cb[s]
      /\ r.ret = TC_ACT_SHOT => loc'[s] = "dropped" /\ pc'[c] = "idle"
      /\ r.ret # TC_ACT_SHOT => /\ loc'[s] = "cpu" /\ pc'[c] = "main"
                                /\ cur'[c] = s /\ hdrMd'[c] = r.md
      /\ \A t \in Skbs : t # s => SameSkb(t)
      /\ \A d \in Cpus : d # c => SameCpu(d) /\ (pc[d] # "idle" => cur[d] # s)
  BY <1>1, <1>3, ParseStep DEF IpPnaOK
<1>5. frame[s] = rcvd[s] /\ loc'[s] \in {"dropped", "cpu"}
  BY <1>4 DEF SkbInv, SkbOK
<1>6. SkbInv'
  <2>1. SkbOK(loc'[s], frame'[s], cb'[s], rcvd'[s])
    BY <1>4, <1>5 DEF SkbInv, SkbOK
  <2>2. \A t \in Skbs : t # s => SkbOK(loc'[t], frame'[t], cb'[t], rcvd'[t])
    BY <1>4 DEF SkbInv, SameSkb
  <2> QED
    BY <2>1, <2>2 DEF SkbInv
<1>7. ScratchInv'
  <2> SUFFICES ASSUME NEW d \in Cpus, pc'[d] # "idle"
               PROVE  /\ IpAccepted(rcvd'[cur'[d]])
                      /\ hdrMd'[d] = IpExtracted(rcvd'[cur'[d]])
                      /\ pc'[d] = "main" => frame'[cur'[d]] = rcvd'[cur'[d]]
                      /\ pc'[d] = "nh_table" => /\ Routable(rcvd'[cur'[d]])
                                                /\ frame'[cur'[d]] = RestoreEtherType(rcvd'[cur'[d]])
    BY DEF ScratchInv
  <2>1. CASE d = c
    BY <1>3, <1>4, <1>5, <2>1
  <2>2. CASE d # c
    <3>1. SameCpu(d) /\ pc[d] # "idle" /\ cur[d] # s
      BY <1>4, <2>2 DEF SameCpu
    <3>2. cur[d] \in Skbs
      BY <3>1 DEF CpuInv
    <3>3. rcvd'[cur'[d]] = rcvd[cur[d]] /\ frame'[cur'[d]] = frame[cur[d]]
      BY <1>4, <3>1, <3>2 DEF SameCpu, SameSkb
    <3> QED
      BY <3>1, <3>3 DEF SameCpu, ScratchInv
  <2> QED
    BY <2>1, <2>2
<1>8. TableInv'
  BY DEF Parse, TableInv
<1> QED
  BY <1>4, <1>6, <1>7, <1>8

(***************************************************************************)
(* fib_table.apply(): the packet is the CPU's still.                       *)
(***************************************************************************)
LEMMA FibInv ==
  ASSUME IndInv, NEW c \in Cpus, ApplyFib(c)
  PROVE  IndInv' /\ loc' = loc /\ cb' = cb /\ rcvd' = rcvd /\ cur' = cur
<1> USE DEF IndInv
<1> DEFINE q == cur[c]
<1>1. pc[c] = "main" /\ IsRoutable(hdrMd[c])
  BY DEF ApplyFib, EntersMain
<1>2. /\ nhIndex' = [nhIndex EXCEPT ![c] = fib_lookup(fib, hdrMd[c].ip.dst)]
      /\ pc' = [pc EXCEPT ![c] = "nh_table"]
      /\ frame' = [frame EXCEPT ![q] = RestoreEtherType(frame[q])]
      /\ loc' = loc /\ port' = port /\ cb' = cb /\ cur' = cur /\ hdrMd' = hdrMd /\ rcvd' = rcvd
      /\ fib' = fib /\ nh' = nh
  BY DEF ApplyFib
<1>3. /\ q \in Skbs /\ loc[q] = "cpu" /\ rcvd[q] \in IpFrame /\ frame[q] = rcvd[q]
      /\ IpAccepted(rcvd[q]) /\ hdrMd[c] = IpExtracted(rcvd[q])
  BY <1>1, AtWork
<1>4. Routable(rcvd[q])
  BY <1>1, <1>3, RoutableMd
<1>5. RestoreEtherType(frame[q]) \in IpFrame
  BY <1>3, IpRestoredFrame
<1>6. IpPnaOK'
  BY <1>2, <1>3, <1>5 DEF IpPnaOK, PnaTyped
<1>7. TableInv'
  <2>1. fib_lookup(fib, hdrMd[c].ip.dst) \in Nat
    BY FibIndex DEF TableInv
  <2> QED
    BY <1>2, <2>1 DEF TableInv
<1>8. CpuInv'
  BY <1>1, <1>2 DEF CpuInv, IpPnaOK, PnaTyped
<1>9. \A t \in Skbs : t # q => frame'[t] = frame[t]
  BY <1>2, <1>3 DEF IpPnaOK, PnaTyped
<1>10. frame'[q] = RestoreEtherType(rcvd[q])
  BY <1>2, <1>3 DEF IpPnaOK, PnaTyped
<1>11. ScratchInv'
  <2> SUFFICES ASSUME NEW d \in Cpus, pc'[d] # "idle"
               PROVE  /\ IpAccepted(rcvd[cur[d]])
                      /\ hdrMd[d] = IpExtracted(rcvd[cur[d]])
                      /\ pc'[d] = "main" => frame'[cur[d]] = rcvd[cur[d]]
                      /\ pc'[d] = "nh_table" => /\ Routable(rcvd[cur[d]])
                                                /\ frame'[cur[d]] = RestoreEtherType(rcvd[cur[d]])
    BY <1>2 DEF ScratchInv
  <2>1. CASE d = c
    BY <1>2, <1>3, <1>4, <1>10, <2>1 DEF IpPnaOK, PnaTyped
  <2>2. CASE d # c
    <3>1. pc'[d] = pc[d] /\ pc[d] # "idle"
      BY <1>2, <2>2 DEF IpPnaOK, PnaTyped
    <3>2. cur[d] \in Skbs /\ cur[d] # q
      BY <1>1, <2>2, <3>1 DEF CpuInv
    <3> QED
      BY <1>9, <3>1, <3>2 DEF ScratchInv
  <2> QED
    BY <2>1, <2>2
<1>12. SkbInv'
  <2>1. \A t \in Skbs : t # q => SkbOK(loc[t], frame'[t], cb[t], rcvd[t])
    BY <1>9 DEF SkbInv
  <2>2. SkbOK(loc[q], frame'[q], cb[q], rcvd[q])
    BY <1>3 DEF SkbInv, SkbOK
  <2> QED
    BY <1>2, <2>1, <2>2 DEF SkbInv
<1> QED
  BY <1>2, <1>6, <1>7, <1>8, <1>11, <1>12

(***************************************************************************)
(* The control plane changes tables only, and as they may be.              *)
(***************************************************************************)
LEMMA CtrlInv ==
  ASSUME IndInv, (\E p \in Prefixes : CtrlFib(p)) \/ (\E i \in Indices : CtrlNh(i)) \/ UNCHANGED vars
  PROVE  IndInv' /\ UNCHANGED pnaVars
<1>1. UNCHANGED pnaVars
  BY DEF CtrlFib, CtrlNh, vars
<1>2. TableInv'
  <2>1. ASSUME NEW p \in Prefixes, CtrlFib(p)
        PROVE  TableInv'
    BY <2>1 DEF CtrlFib, TableInv, IndInv
  <2>2. ASSUME NEW i \in Indices, CtrlNh(i)
        PROVE  TableInv'
    BY <2>2 DEF CtrlNh, TableInv, IndInv
  <2>3. CASE UNCHANGED vars
    BY <2>3 DEF vars, TableInv, IndInv
  <2> QED
    BY <2>1, <2>2, <2>3
<1> QED
  BY <1>1, <1>2 DEF pnaVars, IndInv, IpPnaOK, PnaTyped, CpuInv, ScratchInv, SkbInv

(***************************************************************************)
(* A packet that is dropped or sent is in order.                           *)
(***************************************************************************)
LEMMA MainInv ==
  ASSUME IndInv, NEW c \in Cpus, IngressEarly(c) \/ Discard(c) \/ ApplyNh(c)
  PROVE  IndInv'
<1> DEFINE f == rcvd[cur[c]]
           b == cb[cur[c]]
<1>1. TableInv'
  <2>1. fib' = fib /\ nh' = nh /\ nhIndex' \in {nhIndex, [nhIndex EXCEPT ![c] = 0]}
    BY DEF IngressEarly, Discard, ApplyNh
  <2> QED
    BY <2>1 DEF TableInv, IndInv
<1>2. pc[c] # "idle"
  BY EarlyStep, DiscardStep, NhStep
<1>3. f \in IpFrame /\ b \in Cb /\ ~b.pass_to_kernel /\ hdrMd[c] \in IpHdrMd
  BY <1>2, AtWork
<1>4. ip_ttl_dec(hdrMd[c]) \in IpHdrMd /\ RestoreEtherType(f) \in IpFrame
  BY <1>3, TtlDecType, IpRestoredFrame
<1>5. drop_packet(b) \in Cb /\ ~drop_packet(b).pass_to_kernel
  BY <1>3, CbTypes
<1>6. ASSUME NEW g, NEW a, ~a.pass_to_kernel
      PROVE  SkbOK("dropped", g, a, f)
  BY <1>6 DEF SkbOK
<1> HIDE DEF f, b
<1>7. CASE IngressEarly(c)
  <2>1. Leave(c, "dropped", f, b, hdrMd[c])
    BY <1>7, EarlyStep DEF f, b
  <2> QED
    BY <1>1, <1>2, <1>3, <1>6, <2>1, LeaveInv DEF f, IndInv
<1>8. CASE Discard(c)
  <2>1. Leave(c, "dropped", RestoreEtherType(f), drop_packet(b), ip_ttl_dec(hdrMd[c]))
    BY <1>8, DiscardStep DEF f, b
  <2> QED
    BY <1>1, <1>2, <1>4, <1>5, <1>6, <2>1, LeaveInv DEF f, IndInv
<1>9. CASE ApplyNh(c)
  <2>1. CASE ~(nhIndex[c] \in DOMAIN nh /\ nh[nhIndex[c]] # DropEntry)
    <3>1. Leave(c, "dropped", RestoreEtherType(f), drop_packet(b), ip_ttl_dec(hdrMd[c]))
      BY <1>9, <2>1, NhStep DEF f, b
    <3> QED
      BY <1>1, <1>2, <1>4, <1>5, <1>6, <3>1, LeaveInv DEF f, IndInv
  <2>2. CASE nhIndex[c] \in DOMAIN nh /\ nh[nhIndex[c]] # DropEntry
    <3> DEFINE n == nh[nhIndex[c]]
               a == send_to_port(b, n.port)
    <3>1. n \in NextHops \ {DropEntry} /\ \E w \in IpFrame, md \in IpHdrMd : SentOK(w, a, f) /\ Leave(c, "sent", w, a, md)
      BY <1>9, <2>2, NhStep, Zenon DEF f, b
    <3>2. PICK w \in IpFrame, md \in IpHdrMd : SentOK(w, a, f) /\ Leave(c, "sent", w, a, md)
      BY <3>1
    <3>3. n.port \in Nat
      BY <3>1, NextHopsAssumption DEF NhEntry
    <3>4. a \in Cb /\ ~a.pass_to_kernel
      BY <1>3, <3>3, CbTypes
    <3> HIDE DEF a, n
    <3>5. SkbOK("sent", w, a, f)
      BY <3>2, <3>4 DEF SkbOK
    <3> QED
      BY <1>1, <1>2, <3>2, <3>4, <3>5, LeaveInv DEF f, IndInv
  <2> QED
    BY <2>1, <2>2
<1> QED
  BY <1>7, <1>8, <1>9

-----------------------------------------------------------------------------
(* The theorems *)

(***************************************************************************)
(* The initial state.                                                      *)
(***************************************************************************)
LEMMA InitInv ==
  ASSUME Init
  PROVE  IndInv
<1>1. /\ IpPnaOK /\ CpuInv
      /\ loc = [s \in Skbs |-> "new"] /\ cb = [s \in Skbs |-> ZeroCb] /\ pc = [c \in Cpus |-> "idle"]
  BY IpInit DEF Init
<1>2. ~ZeroCb.pass_to_kernel
  BY DEF ZeroCb
<1>3. ScratchInv
  BY <1>1 DEF ScratchInv
<1>4. SkbInv
  BY <1>1, <1>2 DEF SkbInv, SkbOK
<1>5. TableInv
  BY DEF Init, TableInv
<1> QED
  BY <1>1, <1>3, <1>4, <1>5 DEF IndInv

(***************************************************************************)
(* Every step keeps the invariant.                                         *)
(***************************************************************************)
LEMMA NextInv ==
  ASSUME IndInv, [Next]_vars
  PROVE  IndInv'
<1>1. CASE \E s \in Skbs : Receive(s)
  BY <1>1, ReceiveInv
<1>2. CASE \E c \in Cpus, s \in Skbs : Parse(c, s)
  BY <1>2, ParseInv
<1>3. CASE \E c \in Cpus : Main(c)
  BY <1>3, MainInv, FibInv DEF Main
<1>4. CASE (\E p \in Prefixes : CtrlFib(p)) \/ (\E i \in Indices : CtrlNh(i)) \/ UNCHANGED vars
  BY <1>4, CtrlInv
<1> QED
  BY <1>1, <1>2, <1>3, <1>4 DEF Next

(***************************************************************************)
(* The inductive invariant holds in every reachable state.                 *)
(***************************************************************************)
THEOREM Invariance == Spec => []IndInv
<1>1. Init => IndInv
  BY InitInv
<1>2. IndInv /\ [Next]_vars => IndInv'
  BY NextInv
<1> QED
  BY <1>1, <1>2, PTL DEF Spec

(***************************************************************************)
(* The variables of the pipeline and of its tables have their types.       *)
(***************************************************************************)
THEOREM TypeCorrect == Spec => []TypeOK
<1>1. IndInv => TypeOK
  BY DEF IndInv, IpPnaOK, PnaTyped, TableInv, TypeOK
<1> QED
  BY <1>1, Invariance, PTL

(***************************************************************************)
(* However CPUs and control plane interleave, a packet that leaves was to  *)
(* be routed and differs from what was received in ttl, checksum and the   *)
(* MAC address of the one next hop whose port it leaves by.                *)
(***************************************************************************)
THEOREM SentPacketsAreRouted == Spec => []SentIsRouted
<1>1. IndInv => SentIsRouted
  BY Zenon DEF IndInv, SkbInv, SkbOK, SentOK, SentIsRouted
<1> QED
  BY <1>1, Invariance, PTL

(***************************************************************************)
(* The checksum of a packet that leaves is right exactly if the one it was *)
(* received with was.                                                      *)
(***************************************************************************)
THEOREM ChecksumsFollow == Spec => []ChecksumFollows
<1>1. IndInv => ChecksumFollows
  BY Zenon DEF IndInv, SkbInv, SkbOK, SentOK, ChecksumFollows
<1> QED
  BY <1>1, Invariance, PTL

(***************************************************************************)
(* No packet reaches the kernel's stack or is marked for it.               *)
(***************************************************************************)
THEOREM NoneReachStack == Spec => []NoneToStack
<1>1. IndInv => NoneToStack
  BY Zenon DEF IndInv, SkbInv, SkbOK, NoneToStack
<1> QED
  BY <1>1, Invariance, PTL

(***************************************************************************)
(* A packet that is to be routed is dropped only by nh_table.              *)
(***************************************************************************)
LEMMA DropStep ==
  ASSUME IndInv, Next, NEW c \in Cpus, cur[c] # NoSkb, Routable(rcvd[cur[c]]), loc'[cur[c]] = "dropped"
  PROVE  /\ pc[c] = "nh_table"
         /\ nhIndex[c] \in DOMAIN nh => nh[nhIndex[c]] = DropEntry
<1>1. pc[c] # "idle" /\ cur[c] \in Skbs /\ loc[cur[c]] = "cpu"
  BY DEF IndInv, CpuInv
<1>2. ASSUME NEW d \in Cpus, pc[d] # "idle", NEW l, NEW g, NEW b, NEW md, Leave(d, l, g, b, md)
      PROVE  d = c /\ l = "dropped"
  <2>1. loc' = [loc EXCEPT ![cur[d]] = l]
    BY <1>2 DEF Leave
  <2>2. cur[d] = cur[c] /\ l = "dropped"
    BY <1>1, <2>1 DEF IndInv, IpPnaOK, PnaTyped
  <2> QED
    BY <1>1, <1>2, <2>2 DEF IndInv, CpuInv
<1>3. ASSUME NEW s \in Skbs, Receive(s)
      PROVE  FALSE
  <2>1. loc[s] = "new" /\ loc' = [loc EXCEPT ![s] = "ingress"]
    BY <1>3 DEF Receive, Arrive
  <2> QED
    BY <1>1, <2>1 DEF IndInv, IpPnaOK, PnaTyped
<1>4. ASSUME NEW d \in Cpus, NEW s \in Skbs, Parse(d, s)
      PROVE  FALSE
  <2>1. loc[s] = "ingress" /\ \E l : loc' = [loc EXCEPT ![s] = l]
    BY <1>4 DEF Parse, TcParseFunc
  <2> QED
    BY <1>1, <2>1 DEF IndInv, IpPnaOK, PnaTyped
<1>5. ASSUME NEW d \in Cpus, IngressEarly(d)
      PROVE  FALSE
  <2>1. /\ pc[d] # "idle" /\ ~Routable(rcvd[cur[d]])
        /\ Leave(d, "dropped", rcvd[cur[d]], cb[cur[d]], hdrMd[d])
    BY <1>5, EarlyStep
  <2> QED
    BY <1>2, <2>1
<1>6. ASSUME NEW d \in Cpus, Discard(d)
      PROVE  FALSE
  <2>1. /\ pc[d] # "idle" /\ ~Routable(rcvd[cur[d]])
        /\ Leave(d, "dropped", RestoreEtherType(rcvd[cur[d]]), drop_packet(cb[cur[d]]), ip_ttl_dec(hdrMd[d]))
    BY <1>6, DiscardStep
  <2> QED
    BY <1>2, <2>1
<1>7. ASSUME NEW d \in Cpus, ApplyFib(d)
      PROVE  FALSE
  BY <1>1, <1>7, FibInv
<1>8. ASSUME NEW d \in Cpus, ApplyNh(d)
      PROVE  d = c /\ pc[d] = "nh_table" /\ ~(nhIndex[d] \in DOMAIN nh /\ nh[nhIndex[d]] # DropEntry)
  <2>1. pc[d] = "nh_table"
    BY <1>8, NhStep
  <2>2. CASE nhIndex[d] \in DOMAIN nh /\ nh[nhIndex[d]] # DropEntry
    <3>1. \E w, b, md : Leave(d, "sent", w, b, md)
      BY <1>8, <2>2, NhStep, Zenon
    <3> QED
      BY <1>2, <2>1, <3>1
  <2>3. CASE ~(nhIndex[d] \in DOMAIN nh /\ nh[nhIndex[d]] # DropEntry)
    <3>1. \E w, b, md : Leave(d, "dropped", w, b, md)
      BY <1>8, <2>3, NhStep, Zenon
    <3> QED
      BY <1>2, <2>1, <2>3, <3>1
  <2> QED
    BY <2>2, <2>3
<1>9. ASSUME (\E p \in Prefixes : CtrlFib(p)) \/ (\E i \in Indices : CtrlNh(i))
      PROVE  FALSE
  BY <1>1, <1>9, CtrlInv DEF pnaVars
<1>10. \E d \in Cpus : ApplyNh(d)
  BY <1>3, <1>4, <1>5, <1>6, <1>7, <1>9 DEF Next, Main
<1> QED
  BY <1>8, <1>10

(***************************************************************************)
(* Only a missing next hop, or one that says drop, loses a packet that is  *)
(* to be routed: neither the parser nor another CPU nor the deparser does. *)
(***************************************************************************)
THEOREM OnlyUnroutedDropped == Spec => DropsOnlyUnrouted
<1> DEFINE A == \A c \in Cpus :
                  cur[c] # NoSkb /\ Routable(rcvd[cur[c]]) /\ loc'[cur[c]] = "dropped" =>
                    /\ pc[c] = "nh_table"
                    /\ nhIndex[c] \in DOMAIN nh => nh[nhIndex[c]] = DropEntry
<1>1. IndInv /\ [Next]_vars => [A]_vars
  BY DropStep
<1> QED
  BY <1>1, Invariance, PTL DEF Spec, DropsOnlyUnrouted

-----------------------------------------------------------------------------
(* The refinement *)

(***************************************************************************)
(* The fate of a packet, by where it is, and its index, which only the CPU *)
(* between its two lookups has.                                            *)
(***************************************************************************)
LEMMA FateCases ==
  ASSUME IndInv, NEW s \in Skbs
  PROVE  /\ loc[s] \in {"new", "ingress", "cpu"} => FateOf(s) = <<>>
         /\ \A c \in Cpus : pc[c] = "nh_table" /\ cur[c] = s => RouteOf(s) = nhIndex[c]
         /\ (\A c \in Cpus : pc[c] = "nh_table" => cur[c] # s) => RouteOf(s) = -1
<1>1. loc[s] \in {"new", "ingress", "cpu"} => FateOf(s) = <<>>
  BY DEF FateOf
<1>2. ASSUME NEW c \in Cpus, pc[c] = "nh_table", cur[c] = s
      PROVE  RouteOf(s) = nhIndex[c]
  <2>1. Held(s) = {c}
    BY <1>2 DEF IndInv, CpuInv, Held
  <2>2. (CHOOSE d \in {c} : TRUE) = c
    OBVIOUS
  <2>3. RouteOf(s) = nhIndex[CHOOSE d \in Held(s) : TRUE]
    BY <2>1 DEF RouteOf
  <2> QED
    BY <2>1, <2>2, <2>3
<1>3. ASSUME \A c \in Cpus : pc[c] = "nh_table" => cur[c] # s
      PROVE  RouteOf(s) = -1
  <2>1. Held(s) = {}
    BY <1>3 DEF Held
  <2> QED
    BY <2>1 DEF RouteOf
<1> QED
  BY <1>1, <1>2, <1>3

(***************************************************************************)
(* The fate of a packet and its index after a step, by where the step      *)
(* takes it.                                                               *)
(***************************************************************************)
LEMMA FateAfter ==
  ASSUME IndInv', NEW s \in Skbs
  PROVE  /\ loc'[s] = "dropped" => FateOf(s)' = <<0, 0>>
         /\ loc'[s] = "sent" => FateOf(s)' = <<frame'[s].dmac, cb'[s].egress_port>>
         /\ loc'[s] \in {"ingress", "cpu"} => FateOf(s)' = <<>>
         /\ \A c \in Cpus : pc'[c] = "nh_table" /\ cur'[c] = s => RouteOf(s)' = nhIndex'[c]
         /\ (\A c \in Cpus : pc'[c] = "nh_table" => cur'[c] # s) => RouteOf(s)' = -1
<1>1. /\ loc'[s] = "dropped" => FateOf(s)' = <<0, 0>>
      /\ loc'[s] = "sent" => FateOf(s)' = <<frame'[s].dmac, cb'[s].egress_port>>
      /\ loc'[s] \in {"ingress", "cpu"} => FateOf(s)' = <<>>
  BY DEF FateOf
<1>2. ASSUME NEW c \in Cpus, pc'[c] = "nh_table", cur'[c] = s
      PROVE  RouteOf(s)' = nhIndex'[c]
  <2>1. Held(s)' = {c}
    BY <1>2 DEF IndInv, CpuInv, Held
  <2>2. (CHOOSE d \in {c} : TRUE) = c
    OBVIOUS
  <2>3. RouteOf(s)' = nhIndex'[CHOOSE d \in Held(s)' : TRUE]
    BY <2>1 DEF RouteOf
  <2> QED
    BY <2>1, <2>2, <2>3
<1>3. ASSUME \A c \in Cpus : pc'[c] = "nh_table" => cur'[c] # s
      PROVE  RouteOf(s)' = -1
  <2>1. Held(s)' = {}
    BY <1>3 DEF Held
  <2> QED
    BY <2>1 DEF RouteOf
<1> QED
  BY <1>1, <1>2, <1>3

(***************************************************************************)
(* A packet that a step leaves alone, and whose CPU it leaves alone, keeps *)
(* its fate and its index, whatever becomes of the tables.                 *)
(***************************************************************************)
LEMMA FateKept ==
  ASSUME NEW s \in Skbs, SameSkb(s),
         \A d \in Cpus : pc'[d] = "nh_table" /\ cur'[d] = s <=> pc[d] = "nh_table" /\ cur[d] = s,
         \A d \in Cpus : pc[d] = "nh_table" /\ cur[d] = s => nhIndex'[d] = nhIndex[d]
  PROVE  FateOf(s)' = FateOf(s) /\ RouteOf(s)' = RouteOf(s)
<1>1. Held(s)' = Held(s)
  BY DEF Held
<1>2. FateOf(s)' = FateOf(s)
  BY DEF FateOf, SameSkb
<1>3. CASE Held(s) = {}
  BY <1>1, <1>2, <1>3 DEF RouteOf
<1>4. CASE Held(s) # {}
  <2> DEFINE h == CHOOSE d \in Held(s) : TRUE
  <2>1. h \in Held(s)
    BY <1>4
  <2>2. nhIndex'[h] = nhIndex[h]
    BY <2>1 DEF Held
  <2>3. RouteOf(s) = nhIndex[h] /\ RouteOf(s)' = nhIndex'[h]
    BY <1>1, <1>4 DEF RouteOf
  <2> QED
    BY <1>2, <2>2, <2>3
<1> QED
  BY <1>3, <1>4

(***************************************************************************)
(* The packets as Router sees them: a packet never changes once it has     *)
(* been received.                                                          *)
(***************************************************************************)
LEMMA PktsKept ==
  ASSUME \A s \in Skbs : rcvd'[s] = rcvd[s] /\ (loc'[s] = "new" <=> loc[s] = "new")
  PROVE  AbstractPkt' = AbstractPkt
BY Zenon DEF AbstractPkt

(***************************************************************************)
(* What Router knows of a packet that has been received.                   *)
(***************************************************************************)
LEMMA PktOf ==
  ASSUME NEW q \in Skbs, loc[q] # "new"
  PROVE  /\ AbstractPkt[q] # <<>>
         /\ AbstractPkt[q][1] = Routable(rcvd[q])
         /\ AbstractPkt[q][2] = rcvd[q].dst
<1>1. AbstractPkt[q] = <<Routable(rcvd[q]), rcvd[q].dst>>
  BY DEF AbstractPkt
<1> QED
  BY <1>1

(***************************************************************************)
(* The fates and indices, when those of one packet, or of none, change.    *)
(***************************************************************************)
LEMMA FatesButOne ==
  ASSUME NEW q \in Skbs,
         \A s \in Skbs : s # q => FateOf(s)' = FateOf(s) /\ RouteOf(s)' = RouteOf(s)
  PROVE  /\ AbstractFate' = [AbstractFate EXCEPT ![q] = FateOf(q)']
         /\ FateOf(q)' = FateOf(q) => AbstractFate' = AbstractFate
         /\ AbstractFate[q] = FateOf(q)
         /\ AbstractRoute' = [AbstractRoute EXCEPT ![q] = RouteOf(q)']
         /\ RouteOf(q)' = RouteOf(q) => AbstractRoute' = AbstractRoute
         /\ AbstractRoute[q] = RouteOf(q)
BY DEF AbstractFate, AbstractRoute

(***************************************************************************)
(* A step that drops a packet that is not to be routed is a Refuse of      *)
(* Router.                                                                 *)
(***************************************************************************)
LEMMA RefuseStep ==
  ASSUME NEW q \in Skbs, loc[q] # "new", ~Routable(rcvd[q]),
         FateOf(q) = <<>>, FateOf(q)' = <<0, 0>>, RouteOf(q)' = RouteOf(q),
         \A s \in Skbs : s # q => FateOf(s)' = FateOf(s) /\ RouteOf(s)' = RouteOf(s),
         AbstractPkt' = AbstractPkt, fib' = fib, nh' = nh
  PROVE  Abstract!Refuse(q)
<1>1. AbstractPkt[q] # <<>> /\ ~AbstractPkt[q][1]
  BY PktOf
<1>2. /\ AbstractFate' = [AbstractFate EXCEPT ![q] = <<0, 0>>]
      /\ AbstractFate[q] = <<>> /\ AbstractRoute' = AbstractRoute
  BY FatesButOne
<1> QED
  BY <1>1, <1>2 DEF Abstract!Refuse, Abstract!Pending, Abstract!Dropped

(***************************************************************************)
(* A CPU that lets go of its packet changes the fate and the index of no   *)
(* other; the packet itself has no index any more.                         *)
(***************************************************************************)
LEMMA LeaveFates ==
  ASSUME IndInv, IndInv', NEW c \in Cpus, NEW q, q = cur[c], pc[c] # "idle",
         NEW l \in {"sent", "dropped"},
         NEW f \in IpFrame, NEW b \in Cb, NEW md \in IpHdrMd, Leave(c, l, f, b, md),
         \A d \in Cpus : d # c => nhIndex'[d] = nhIndex[d]
  PROVE  /\ q \in Skbs /\ loc[q] = "cpu"
         /\ loc'[q] = l /\ frame'[q] = f /\ cb'[q] = b
         /\ AbstractPkt' = AbstractPkt
         /\ RouteOf(q)' = -1
         /\ \A s \in Skbs : s # q => FateOf(s)' = FateOf(s) /\ RouteOf(s)' = RouteOf(s)
<1>1. l \in {"ingress", "stack", "sent", "dropped"} /\ IpPnaOK /\ CpuInv
  BY DEF IndInv
<1>2. /\ q \in Skbs /\ loc[q] = "cpu"
      /\ loc'[q] = l /\ frame'[q] = f /\ cb'[q] = b /\ rcvd'[q] = rcvd[q]
      /\ pc'[c] = "idle"
      /\ \A t \in Skbs : t # q => SameSkb(t)
      /\ \A d \in Cpus : d # c => SameCpu(d) /\ (pc[d] # "idle" => cur[d] # q)
  BY <1>1, LeaveStep DEF IpPnaOK
<1>3. AbstractPkt' = AbstractPkt
  <2>1. \A s \in Skbs : rcvd'[s] = rcvd[s] /\ (loc'[s] = "new" <=> loc[s] = "new")
    BY <1>2 DEF SameSkb
  <2> QED
    BY <2>1, PktsKept
<1>4. ASSUME NEW s \in Skbs, s # q
      PROVE  FateOf(s)' = FateOf(s) /\ RouteOf(s)' = RouteOf(s)
  <2>1. \A d \in Cpus : pc'[d] = "nh_table" /\ cur'[d] = s <=> pc[d] = "nh_table" /\ cur[d] = s
    BY <1>2, <1>4 DEF SameCpu
  <2>2. \A d \in Cpus : pc[d] = "nh_table" /\ cur[d] = s => nhIndex'[d] = nhIndex[d]
    BY <1>4
  <2>3. SameSkb(s)
    BY <1>2, <1>4
  <2> QED
    BY <2>1, <2>2, <2>3, FateKept
<1>5. RouteOf(q)' = -1
  <2>1. \A d \in Cpus : pc'[d] = "nh_table" => cur'[d] # q
    BY <1>2 DEF SameCpu
  <2> QED
    BY <1>2, <2>1, FateAfter
<1> QED
  BY <1>2, <1>3, <1>4, <1>5

(***************************************************************************)
(* Receive is Router's Receive.                                            *)
(***************************************************************************)
LEMMA ReceiveMaps ==
  ASSUME IndInv, IndInv', NEW s \in Skbs, Receive(s)
  PROVE  Abstract!Receive(s)
<1>1. PICK p \in Ports, f \in Frames : Arrive(s, p, f)
  BY DEF Receive
<1>2. p \in Nat /\ f \in IpFrame /\ IpPnaOK /\ CpuInv
  BY PortsAssumption, FramesAssumption DEF IndInv
<1>3. /\ loc[s] = "new" /\ loc'[s] = "ingress" /\ rcvd'[s] = f
      /\ \A t \in Skbs : t # s => SameSkb(t)
      /\ \A c \in Cpus : SameCpu(c) /\ (pc[c] # "idle" => cur[c] # s)
  BY <1>1, <1>2, ArriveStep DEF IpPnaOK
<1>4. fib' = fib /\ nh' = nh /\ nhIndex' = nhIndex
  BY DEF Receive
<1>5. AbstractPkt[s] = <<>> /\ AbstractPkt'[s] = <<Routable(f), f.dst>>
  <2>1. AbstractPkt[s] = <<>>
    BY <1>3 DEF AbstractPkt
  <2>2. AbstractPkt'[s] = <<Routable(rcvd'[s]), rcvd'[s].dst>>
    BY <1>3 DEF AbstractPkt
  <2> QED
    BY <1>3, <2>1, <2>2
<1>6. <<Routable(f), f.dst>> \in BOOLEAN \X Nat
  <2>1. f.dst \in Nat
    BY <1>2, IpFrameFields
  <2>2. Routable(f) \in BOOLEAN
    BY DEF Routable, Complete, HasIpv4Type
  <2> QED
    BY <2>1, <2>2
<1>7. AbstractPkt' = [AbstractPkt EXCEPT ![s] = AbstractPkt'[s]]
  <2>1. \A t \in Skbs : t # s => loc'[t] = loc[t] /\ rcvd'[t] = rcvd[t]
    BY <1>3 DEF SameSkb
  <2>2. ASSUME NEW t \in Skbs, t # s
        PROVE  AbstractPkt'[t] = AbstractPkt[t]
    BY <2>1, <2>2, Zenon DEF AbstractPkt
  <2>3. DOMAIN AbstractPkt = Skbs /\ DOMAIN AbstractPkt' = Skbs
    BY DEF AbstractPkt
  <2>4. AbstractPkt' = [t \in Skbs |-> AbstractPkt'[t]] /\ AbstractPkt = [t \in Skbs |-> AbstractPkt[t]]
    BY DEF AbstractPkt
  <2> QED
    BY <2>2, <2>3, <2>4
<1>8. FateOf(s) = <<>> /\ FateOf(s)' = <<>>
  BY <1>3, FateCases, FateAfter
<1>9. RouteOf(s) = -1 /\ RouteOf(s)' = -1
  BY <1>3, FateCases, FateAfter DEF SameCpu
<1>10. \A t \in Skbs : t # s => FateOf(t)' = FateOf(t) /\ RouteOf(t)' = RouteOf(t)
  BY <1>3, <1>4, FateKept DEF SameCpu
<1>11. AbstractFate' = AbstractFate /\ AbstractRoute' = AbstractRoute
  BY <1>8, <1>9, <1>10, FatesButOne
<1> QED
  BY <1>4, <1>5, <1>6, <1>7, <1>11, Zenon DEF Abstract!Receive

(***************************************************************************)
(* A packet that the parser rejects is refused; one that it accepts is     *)
(* undecided still.                                                        *)
(***************************************************************************)
LEMMA ParseMaps ==
  ASSUME IndInv, IndInv', NEW c \in Cpus, NEW s \in Skbs, Parse(c, s)
  PROVE  Abstract!Refuse(s) \/ UNCHANGED Abstract!vars
<1> DEFINE r == run_parser(frame[s], hdrMd[c])
<1>1. TcParseFunc(c, s, r) /\ fib' = fib /\ nh' = nh /\ nhIndex' = nhIndex /\ IpPnaOK /\ CpuInv
  BY DEF Parse, IndInv
<1>2. frame[s] \in IpFrame
  BY <1>1 DEF IpPnaOK, PnaTyped
<1>3. /\ r.md \in IpHdrMd
      /\ IpAccepted(frame[s]) => r.ret # TC_ACT_SHOT
      /\ ~IpAccepted(frame[s]) => r.ret = TC_ACT_SHOT
  BY <1>2, ParserResult
<1> HIDE DEF r
<1>4. /\ pc[c] = "idle" /\ loc[s] = "ingress" /\ rcvd'[s] = rcvd[s]
      /\ r.ret = TC_ACT_SHOT => loc'[s] = "dropped" /\ pc'[c] = "idle"
      /\ r.ret # TC_ACT_SHOT => loc'[s] = "cpu" /\ pc'[c] = "main" /\ cur'[c] = s
      /\ \A t \in Skbs : t # s => SameSkb(t)
      /\ \A d \in Cpus : d # c => SameCpu(d) /\ (pc[d] # "idle" => cur[d] # s)
  BY <1>1, <1>3, ParseStep DEF IpPnaOK
<1>5. FateOf(s) = <<>> /\ frame[s] = rcvd[s]
  BY <1>4, FateCases DEF IndInv, SkbInv, SkbOK
<1>6. RouteOf(s) = -1 /\ RouteOf(s)' = -1
  <2>1. \A d \in Cpus : pc[d] = "nh_table" => cur[d] # s
    BY <1>4
  <2>2. \A d \in Cpus : pc'[d] = "nh_table" => cur'[d] # s
    BY <1>4 DEF SameCpu
  <2> QED
    BY <2>1, <2>2, FateCases, FateAfter
<1>7. AbstractPkt' = AbstractPkt
  <2>1. \A t \in Skbs : rcvd'[t] = rcvd[t] /\ (loc'[t] = "new" <=> loc[t] = "new")
    BY <1>3, <1>4 DEF SameSkb
  <2> QED
    BY <2>1, PktsKept
<1>8. ASSUME NEW t \in Skbs, t # s
      PROVE  FateOf(t)' = FateOf(t) /\ RouteOf(t)' = RouteOf(t)
  <2>1. \A d \in Cpus : pc'[d] = "nh_table" /\ cur'[d] = t <=> pc[d] = "nh_table" /\ cur[d] = t
    BY <1>4, <1>8 DEF SameCpu
  <2>2. \A d \in Cpus : pc[d] = "nh_table" /\ cur[d] = t => nhIndex'[d] = nhIndex[d]
    BY <1>1
  <2>3. SameSkb(t)
    BY <1>4, <1>8
  <2> QED
    BY <2>1, <2>2, <2>3, FateKept
<1>9. CASE IpAccepted(frame[s])
  <2>1. FateOf(s)' = <<>>
    BY <1>3, <1>4, <1>9, FateAfter
  <2>2. AbstractFate' = AbstractFate /\ AbstractRoute' = AbstractRoute
    BY <1>5, <1>6, <1>8, <2>1, FatesButOne
  <2> QED
    BY <1>1, <1>7, <2>2 DEF Abstract!vars
<1>10. CASE ~IpAccepted(frame[s])
  <2>1. FateOf(s)' = <<0, 0>>
    BY <1>3, <1>4, <1>10, FateAfter
  <2>2. ~Routable(rcvd[s])
    BY <1>5, <1>10 DEF IpAccepted, Routable, Complete, HasIpv4Type
  <2> QED
    BY <1>1, <1>4, <1>5, <1>7, <1>8, <1>6, <2>1, <2>2, RefuseStep
<1> QED
  BY <1>9, <1>10

(***************************************************************************)
(* The packets the main block drops before its tables are refused.         *)
(***************************************************************************)
LEMMA DropMaps ==
  ASSUME IndInv, IndInv', NEW c \in Cpus, NEW q, q = cur[c], IngressEarly(c) \/ Discard(c)
  PROVE  Abstract!Refuse(q)
<1>1. pc[c] = "main" /\ ~Routable(rcvd[q]) /\ fib' = fib /\ nh' = nh /\ nhIndex' = nhIndex
  BY EarlyStep, DiscardStep DEF IngressEarly, Discard
<1>2. rcvd[q] \in IpFrame /\ cb[q] \in Cb /\ hdrMd[c] \in IpHdrMd
  BY <1>1, AtWork
<1>3. \E f \in IpFrame, b \in Cb, md \in IpHdrMd : Leave(c, "dropped", f, b, md)
  BY <1>2, EarlyStep, DiscardStep, TtlDecType, IpRestoredFrame, CbTypes
<1>4. /\ q \in Skbs /\ loc[q] = "cpu" /\ loc'[q] = "dropped" /\ AbstractPkt' = AbstractPkt
      /\ RouteOf(q)' = -1
      /\ \A s \in Skbs : s # q => FateOf(s)' = FateOf(s) /\ RouteOf(s)' = RouteOf(s)
  BY <1>1, <1>3, LeaveFates
<1>5. FateOf(q) = <<>> /\ FateOf(q)' = <<0, 0>>
  BY <1>4, FateCases, FateAfter
<1>6. RouteOf(q) = -1
  <2>1. \A d \in Cpus : pc[d] = "nh_table" => cur[d] # q
    BY <1>1, <1>4 DEF IndInv, CpuInv
  <2> QED
    BY <1>4, <2>1, FateCases
<1> QED
  BY <1>1, <1>4, <1>5, <1>6, RefuseStep

(***************************************************************************)
(* The lookup in fib_table is Router's Resolve.                            *)
(***************************************************************************)
LEMMA FibMaps ==
  ASSUME IndInv, IndInv', NEW c \in Cpus, NEW q, q = cur[c], ApplyFib(c)
  PROVE  Abstract!Resolve(q)
<1> DEFINE i == fib_lookup(fib, rcvd[q].dst)
<1>1. /\ pc[c] = "main" /\ IsRoutable(hdrMd[c])
      /\ nhIndex' = [nhIndex EXCEPT ![c] = fib_lookup(fib, hdrMd[c].ip.dst)]
      /\ pc' = [pc EXCEPT ![c] = "nh_table"] /\ fib' = fib /\ nh' = nh
      /\ frame' = [frame EXCEPT ![q] = RestoreEtherType(frame[q])]
      /\ loc' = loc /\ port' = port /\ cb' = cb /\ cur' = cur /\ rcvd' = rcvd
  BY DEF ApplyFib, EntersMain
<1>2. /\ q \in Skbs /\ loc[q] = "cpu" /\ rcvd[q] \in IpFrame
      /\ IpAccepted(rcvd[q]) /\ hdrMd[c] = IpExtracted(rcvd[q])
  BY <1>1, AtWork
<1>3. Routable(rcvd[q]) /\ hdrMd[c].ip.dst = rcvd[q].dst
  <2>1. Routable(rcvd[q]) /\ hdrMd[c] = IpIpv4Md(rcvd[q])
    BY <1>1, <1>2, RoutableMd
  <2>2. IpIpv4Md(rcvd[q]).ip.dst = rcvd[q].dst
    BY <1>2, IpMdFields
  <2> QED
    BY <2>1, <2>2
<1>4. FateOf(q) = <<>> /\ FateOf(q)' = <<>>
  BY <1>1, <1>2, FateCases, FateAfter
<1>5. RouteOf(q) = -1
  <2>1. \A d \in Cpus : pc[d] = "nh_table" => cur[d] # q
    BY <1>1, <1>2 DEF IndInv, CpuInv
  <2> QED
    BY <1>2, <2>1, FateCases
<1>6. RouteOf(q)' = i
  <2>1. pc'[c] = "nh_table" /\ nhIndex'[c] = i /\ cur'[c] = q
    BY <1>1, <1>2, <1>3 DEF IndInv, IpPnaOK, PnaTyped, TableInv
  <2> QED
    BY <1>2, <2>1, FateAfter
<1>7. i \in Abstract!IndexFor(rcvd[q].dst)
  BY FibIndex DEF IndInv, TableInv, Abstract!IndexFor
<1>8. AbstractPkt' = AbstractPkt
  BY <1>1, PktsKept
<1>9. ASSUME NEW s \in Skbs, s # q
      PROVE  FateOf(s)' = FateOf(s) /\ RouteOf(s)' = RouteOf(s)
  <2>1. \A d \in Cpus : pc'[d] = "nh_table" /\ cur'[d] = s <=> pc[d] = "nh_table" /\ cur[d] = s
    BY <1>1, <1>9 DEF IndInv, IpPnaOK, PnaTyped
  <2>2. \A d \in Cpus : pc[d] = "nh_table" /\ cur[d] = s => nhIndex'[d] = nhIndex[d]
    BY <1>1, <1>9 DEF IndInv, TableInv
  <2>3. SameSkb(s)
    BY <1>1, <1>9 DEF SameSkb, IndInv, IpPnaOK, PnaTyped
  <2> QED
    BY <2>1, <2>2, <2>3, FateKept
<1> HIDE DEF i
<1>10. /\ AbstractFate[q] = <<>> /\ AbstractFate' = AbstractFate
       /\ AbstractRoute[q] = -1 /\ AbstractRoute' = [AbstractRoute EXCEPT ![q] = i]
  BY <1>2, <1>4, <1>5, <1>6, <1>9, FatesButOne
<1>11. AbstractPkt[q] # <<>> /\ AbstractPkt[q][1] /\ AbstractPkt[q][2] = rcvd[q].dst
  BY <1>2, <1>3, PktOf
<1>12. \E j \in Abstract!IndexFor(AbstractPkt[q][2]) : AbstractRoute' = [AbstractRoute EXCEPT ![q] = j]
  BY <1>7, <1>10, <1>11, Zenon
<1> QED
  BY <1>1, <1>8, <1>10, <1>11, <1>12, Zenon DEF Abstract!Resolve, Abstract!Pending, Abstract!NoRoute

(***************************************************************************)
(* The lookup in nh_table is Router's Forward.                             *)
(***************************************************************************)
LEMMA NhMaps ==
  ASSUME IndInv, IndInv', NEW c \in Cpus, NEW q, q = cur[c], ApplyNh(c)
  PROVE  Abstract!Forward(q)
<1> DEFINE i == nhIndex[c]
           b == cb[q]
<1>1. /\ pc[c] = "nh_table" /\ fib' = fib /\ nh' = nh
      /\ nhIndex' = [nhIndex EXCEPT ![c] = 0]
  BY DEF ApplyNh
<1>2. (\A d \in Cpus : d # c => nhIndex'[d] = nhIndex[d]) /\ i \in Nat
  BY <1>1 DEF IndInv, TableInv
<1>3. q \in Skbs /\ rcvd[q] \in IpFrame /\ b \in Cb /\ hdrMd[c] \in IpHdrMd
  BY <1>1, AtWork
<1>4. RouteOf(q) = i
  BY <1>1, <1>3, FateCases
<1>5. ASSUME NEW l \in {"sent", "dropped"}, NEW f \in IpFrame, NEW a \in Cb, NEW md \in IpHdrMd,
             Leave(c, l, f, a, md),
             l = "sent" => <<f.dmac, a.egress_port>> = Abstract!Hop(i),
             l = "dropped" => <<0, 0>> = Abstract!Hop(i)
      PROVE  Abstract!Forward(q)
  <2>1. /\ loc'[q] = l /\ frame'[q] = f /\ cb'[q] = a /\ AbstractPkt' = AbstractPkt
        /\ RouteOf(q)' = -1
        /\ \A s \in Skbs : s # q => FateOf(s)' = FateOf(s) /\ RouteOf(s)' = RouteOf(s)
    BY <1>1, <1>2, <1>5, LeaveFates
  <2>2. FateOf(q)' = Abstract!Hop(i)
    BY <1>3, <1>5, <2>1, FateAfter
  <2> HIDE DEF i
  <2>3. /\ AbstractFate' = [AbstractFate EXCEPT ![q] = Abstract!Hop(i)]
        /\ AbstractRoute[q] = i /\ AbstractRoute' = [AbstractRoute EXCEPT ![q] = -1]
    BY <1>3, <1>4, <2>1, <2>2, FatesButOne
  <2>4. i # -1
    BY <1>2
  <2> QED
    BY <1>1, <2>1, <2>3, <2>4, Zenon DEF Abstract!Forward, Abstract!NoRoute
<1>6. CASE i \in DOMAIN nh /\ nh[i] # DropEntry
  <2> DEFINE n == nh[i]
             a == send_to_port(b, n.port)
  <2>1. n \in NextHops \ {DropEntry} /\ \E w \in IpFrame, md \in IpHdrMd : w.dmac = n.dmac /\ Leave(c, "sent", w, a, md)
    BY <1>6, NhStep, Zenon
  <2>2. PICK w \in IpFrame, md \in IpHdrMd : w.dmac = n.dmac /\ Leave(c, "sent", w, a, md)
    BY <2>1
  <2>3. n.port \in Nat
    BY <2>1, NextHopsAssumption DEF NhEntry
  <2>4. a \in Cb /\ a.egress_port = n.port
    BY <1>3, <2>3, CbTypes
  <2>5. Abstract!Hop(i) = <<n.dmac, n.port>>
    BY <1>6 DEF Abstract!Hop
  <2> HIDE DEF a, n, i
  <2>6. <<w.dmac, a.egress_port>> = Abstract!Hop(i)
    BY <2>2, <2>4, <2>5
  <2> QED
    BY <1>5, <2>2, <2>4, <2>6
<1>7. CASE ~(i \in DOMAIN nh /\ nh[i] # DropEntry)
  <2>1. Leave(c, "dropped", RestoreEtherType(rcvd[q]), drop_packet(b), ip_ttl_dec(hdrMd[c]))
    BY <1>7, NhStep
  <2>2. Abstract!Hop(i) = <<0, 0>>
    BY <1>7 DEF Abstract!Hop, Abstract!Dropped, DropEntry
  <2>3. RestoreEtherType(rcvd[q]) \in IpFrame /\ drop_packet(b) \in Cb /\ ip_ttl_dec(hdrMd[c]) \in IpHdrMd
    BY <1>3, IpRestoredFrame, CbTypes, TtlDecType
  <2> QED
    BY <1>5, <2>1, <2>2, <2>3
<1> QED
  BY <1>6, <1>7

(***************************************************************************)
(* The control plane configures the router, packets between their lookups  *)
(* or not: it changes no index that a CPU holds.                           *)
(***************************************************************************)
LEMMA CtrlMaps ==
  ASSUME IndInv, IndInv',
         (\E p \in Prefixes : CtrlFib(p)) \/ (\E i \in Indices : CtrlNh(i)) \/ UNCHANGED vars
  PROVE  Abstract!Configure
<1>1. UNCHANGED pnaVars
  BY CtrlInv
<1>2. /\ loc' = loc /\ port' = port /\ frame' = frame /\ cb' = cb
      /\ pc' = pc /\ cur' = cur /\ rcvd' = rcvd
  BY <1>1 DEF pnaVars
<1>3. nhIndex' = nhIndex
  BY DEF CtrlFib, CtrlNh, vars
<1>4. AbstractPkt' = AbstractPkt
  BY <1>2, PktsKept
<1>5. ASSUME NEW s \in Skbs
      PROVE  FateOf(s)' = FateOf(s) /\ RouteOf(s)' = RouteOf(s)
  <2>1. SameSkb(s)
    BY <1>2 DEF SameSkb
  <2> QED
    BY <1>2, <1>3, <2>1, FateKept
<1>6. AbstractFate' = AbstractFate /\ AbstractRoute' = AbstractRoute
  BY <1>5, Zenon DEF AbstractFate, AbstractRoute
<1>7. /\ DOMAIN fib' \subseteq Prefixes /\ \A p \in DOMAIN fib' : fib'[p] \in Indices
      /\ DOMAIN nh' \subseteq Indices /\ \A i \in DOMAIN nh' : nh'[i] \in NextHops
  BY DEF IndInv, TableInv
<1> QED
  BY <1>4, <1>6, <1>7 DEF Abstract!Configure

(***************************************************************************)
(* Every step of the program is a step of Router, or none.                 *)
(***************************************************************************)
LEMMA NextMaps ==
  ASSUME IndInv, IndInv', [Next]_vars
  PROVE  [Abstract!Next]_(Abstract!vars)
<1>1. CASE \E s \in Skbs : Receive(s)
  BY <1>1, ReceiveMaps DEF Abstract!Next
<1>2. CASE \E c \in Cpus, s \in Skbs : Parse(c, s)
  BY <1>2, ParseMaps DEF Abstract!Next
<1>3. ASSUME NEW c \in Cpus, Main(c)
      PROVE  [Abstract!Next]_(Abstract!vars)
  <2> DEFINE q == cur[c]
  <2>1. pc[c] # "idle"
    BY <1>3, EarlyStep, DiscardStep, NhStep DEF Main, ApplyFib, EntersMain
  <2>2. q \in Skbs
    BY <2>1, AtWork
  <2>3. CASE IngressEarly(c) \/ Discard(c)
    BY <2>2, <2>3, DropMaps DEF Abstract!Next
  <2>4. CASE ApplyFib(c)
    BY <2>2, <2>4, FibMaps DEF Abstract!Next
  <2>5. CASE ApplyNh(c)
    BY <2>2, <2>5, NhMaps DEF Abstract!Next
  <2> QED
    BY <1>3, <2>3, <2>4, <2>5 DEF Main
<1>4. CASE (\E p \in Prefixes : CtrlFib(p)) \/ (\E i \in Indices : CtrlNh(i)) \/ UNCHANGED vars
  BY <1>4, CtrlMaps DEF Abstract!Next
<1> QED
  BY <1>1, <1>2, <1>3, <1>4 DEF Next

(***************************************************************************)
(* The program implements Router, whatever the control plane does, and     *)
(* when: it may replace or delete the next hop, or the route, of a packet  *)
(* that is between its two lookups on any CPU.                             *)
(***************************************************************************)
THEOREM RouterImplemented == Spec => ImplementsRouter
<1>1. Init => Abstract!Init
  <2> SUFFICES ASSUME Init
               PROVE  Abstract!Init
    OBVIOUS
  <2>1. (\A s \in Skbs : loc[s] = "new") /\ \A c \in Cpus : pc[c] = "idle"
    BY DEF Init, PnaInit
  <2>2. AbstractPkt = [s \in Skbs |-> <<>>]
    BY <2>1, Zenon DEF AbstractPkt
  <2>3. \A s \in Skbs : FateOf(s) = <<>> /\ RouteOf(s) = -1
    BY <2>1 DEF FateOf, RouteOf, Held
  <2>4. /\ AbstractFate = [s \in Skbs |-> Abstract!Pending]
        /\ AbstractRoute = [s \in Skbs |-> Abstract!NoRoute]
    BY <2>3 DEF AbstractFate, AbstractRoute, Abstract!Pending, Abstract!NoRoute
  <2>5. fib = [p \in {} |-> 0] /\ nh = [i \in {} |-> 0]
    BY DEF Init
  <2> QED
    BY <2>2, <2>4, <2>5 DEF Abstract!Init
<1>2. IndInv /\ IndInv' /\ [Next]_vars => [Abstract!Next]_(Abstract!vars)
  BY NextMaps
<1> QED
  BY <1>1, <1>2, Invariance, PTL DEF Spec, ImplementsRouter, Abstract!Spec
=============================================================================
