---------------------------- MODULE SimpleProofs ----------------------------
(***************************************************************************)
(* simple/redirect_l2 and simple/simple_l3: the inductive invariants from  *)
(* which their properties follow, for any number of CPUs, packets and      *)
(* entries of nh_table.                                                    *)
(***************************************************************************)
EXTENDS RedirectL2, SimpleL3, PnaProofs

-----------------------------------------------------------------------------
(* RedirectL2 *)

(***************************************************************************)
(* The headers in a CPU's map are those of its packet as received.         *)
(***************************************************************************)
ScratchInvL2 ==
  \A c \in Cpus : pc[c] # "idle" =>
    IpAccepted(rcvd[cur[c]]) /\ hdrMd[c] = IpExtracted(rcvd[cur[c]])

\* A packet received as r that is at l with contents f and metadata b.  Until
\* it is sent or dropped it is as it was received, without a port; nothing
\* but the parser, or XDP metadata without a packet, drops it.
SkbOKL2(l, f, b, r) ==
  /\ l \in {"new", "ingress", "cpu", "stack"} => f = r /\ b.drop = FALSE /\ b.egress_port = 0
  /\ l = "dropped" => (r.len >= EthLen /\ ~HasIpv4Type(r)) \/ MetadataFails(r)

SkbInvL2 == \A s \in Skbs : SkbOKL2(loc[s], frame[s], cb[s], rcvd[s])

TableInvL2 == DOMAIN nhL2 \subseteq AddrsL2 /\ nhL2 \in [DOMAIN nhL2 -> NextHopsL2]

PcInvL2 == \A c \in Cpus : pc[c] \in {"idle", "main"}

IndInvL2 == IpPnaOK /\ PcInvL2 /\ TableInvL2 /\ CpuInv /\ ScratchInvL2 /\ SkbInvL2

-----------------------------------------------------------------------------
(* The parser *)

(***************************************************************************)
(* What run_parser makes of a packet, whatever the map held before.        *)
(***************************************************************************)
LEMMA ParserResultL2 ==
  ASSUME NEW f \in IpFrame, NEW md
  PROVE  /\ run_parser_l2(f, md).md \in IpHdrMd
         /\ IpAccepted(f) => run_parser_l2(f, md).ret # TC_ACT_SHOT /\ run_parser_l2(f, md).md = IpExtracted(f)
         /\ ~IpAccepted(f) => run_parser_l2(f, md).ret = TC_ACT_SHOT
<1>1. run_parser_l2(f, md) = start_l2(f, ZeroIpHdrMd)
  BY DEF run_parser_l2, memset_l2
<1>2. IpEthMd(f) = ExtractEth(ZeroIpHdrMd, f) /\ IpIpv4Md(f) = ExtractIpv4(IpEthMd(f), f)
  BY DEF IpEthMd, IpIpv4Md
<1>3. ZeroIpHdrMd \in IpHdrMd /\ IpEthMd(f) \in IpHdrMd /\ IpExtracted(f) \in IpHdrMd
  BY IpMdTypes
<1>4. CASE f.len < 14
  <2>1. start_l2(f, ZeroIpHdrMd) = Accept(ZeroIpHdrMd) /\ IpExtracted(f) = ZeroIpHdrMd
    BY <1>4, IpExtractCases, IpWhichMd DEF start_l2
  <2> QED
    BY <1>1, <1>3, <1>4, <2>1, IpExtractCases DEF IpAccepted
<1>5. CASE ~(f.len < 14) /\ f.etherType # <<8, 0>>
  <2>1. start_l2(f, ZeroIpHdrMd) = Reject(IpEthMd(f), NoError)
    BY <1>2, <1>5, IpExtractCases DEF start_l2
  <2>2. Reject(IpEthMd(f), NoError) = [ret |-> TC_ACT_SHOT, md |-> IpEthMd(f)]
    BY IpExtractCases
  <2> QED
    BY <1>1, <1>3, <1>5, <2>1, <2>2 DEF IpAccepted
<1>6. CASE ~(f.len < 14) /\ f.etherType = <<8, 0>>
  <2>1. start_l2(f, ZeroIpHdrMd) = parse_ipv4_l2(f, IpEthMd(f))
    BY <1>2, <1>6, IpExtractCases DEF start_l2
  <2>2. parse_ipv4_l2(f, IpEthMd(f)) = Accept(IpExtracted(f))
    BY <1>2, <1>6, IpExtractCases, IpWhichMd DEF parse_ipv4_l2
  <2> QED
    BY <1>1, <1>3, <1>6, <2>1, <2>2, IpExtractCases DEF IpAccepted
<1> QED
  BY <1>4, <1>5, <1>6

(***************************************************************************)
(* The address looked up is the packet's own, or 0 if the packet ends      *)
(* before it: never that of a packet parsed earlier.                       *)
(***************************************************************************)
LEMMA OwnAddrLookedUp ==
  ASSUME NEW f \in IpFrame, IpAccepted(f)
  PROVE  IpExtracted(f).ip.src = OwnAddr(f)
<1>1. Complete(f) <=> ~(f.len < 34)
  <2>1. f.len \in Nat
    BY IpFrameFields
  <2> QED
    BY <2>1, IpExtractCases DEF IpAccepted
<1>2. ZeroIpHdrMd.ip.src = 0 /\ IpEthMd(f).ip = ZeroIpHdrMd.ip /\ IpIpv4Md(f).ip.src = f.src
  BY IpMdFields
<1> QED
  BY <1>1, <1>2, IpWhichMd DEF OwnAddr

-----------------------------------------------------------------------------
(* The steps *)

(***************************************************************************)
(* What a CPU that has a packet at work knows of it.                       *)
(***************************************************************************)
LEMMA AtWorkL2 ==
  ASSUME IndInvL2, NEW c \in Cpus, pc[c] # "idle"
  PROVE  /\ pc[c] = "main" /\ cur[c] \in Skbs /\ loc[cur[c]] = "cpu"
         /\ rcvd[cur[c]] \in IpFrame /\ frame[cur[c]] = rcvd[cur[c]]
         /\ cb[cur[c]] \in Cb /\ cb[cur[c]].drop = FALSE /\ cb[cur[c]].egress_port = 0
         /\ IpAccepted(rcvd[cur[c]]) /\ hdrMd[c] = IpExtracted(rcvd[cur[c]]) /\ hdrMd[c] \in IpHdrMd
<1>1. pc[c] = "main" /\ cur[c] \in Skbs /\ loc[cur[c]] = "cpu"
  BY DEF IndInvL2, PcInvL2, CpuInv
<1>2. rcvd[cur[c]] \in IpFrame /\ cb[cur[c]] \in Cb /\ hdrMd[c] \in IpHdrMd
  BY <1>1 DEF IndInvL2, IpPnaOK, PnaTyped
<1>3. frame[cur[c]] = rcvd[cur[c]] /\ cb[cur[c]].drop = FALSE /\ cb[cur[c]].egress_port = 0
  BY <1>1 DEF IndInvL2, SkbInvL2, SkbOKL2
<1> QED
  BY <1>1, <1>2, <1>3 DEF IndInvL2, ScratchInvL2

(***************************************************************************)
(* The main block: a hit sends the packet by the entry of its own address, *)
(* a miss takes it back to its ingress as it came, marked for the kernel.  *)
(***************************************************************************)
LEMMA ProcessStepL2 ==
  ASSUME IndInvL2, NEW c \in Cpus, ProcessL2(c)
  PROVE  LET f == rcvd[cur[c]]
             a == OwnAddr(f)
             w == IF f.len < EthLen THEN f ELSE [f EXCEPT !.smac = nhL2[a].smac, !.dmac = nhL2[a].dmac]
         IN /\ pc[c] # "idle"
            /\ a \in DOMAIN nhL2 =>
                 \E md \in IpHdrMd : Leave(c, "sent", w, send_to_port(cb[cur[c]], nhL2[a].port), md)
            /\ a \notin DOMAIN nhL2 =>
                 Leave(c, "ingress", f, [drop |-> FALSE, egress_port |-> 0, pass_to_kernel |-> TRUE], hdrMd[c])
<1> DEFINE f == rcvd[cur[c]]
           b == cb[cur[c]]
           a == OwnAddr(f)
           r == apply_nh_table_l2(nhL2, hdrMd[c], b)
           w == IF f.len < EthLen THEN f ELSE [f EXCEPT !.smac = nhL2[a].smac, !.dmac = nhL2[a].dmac]
<1>1. pc[c] # "idle" /\ ~MetadataFails(frame[cur[c]])
  BY DEF ProcessL2, EntersMain
<1>2. /\ f \in IpFrame /\ frame[cur[c]] = f /\ b \in Cb /\ b.drop = FALSE /\ b.egress_port = 0
      /\ IpAccepted(f) /\ hdrMd[c] = IpExtracted(f) /\ hdrMd[c] \in IpHdrMd
  BY <1>1, AtWorkL2
<1>3. hdrMd[c].ip.src = a
  BY <1>2, OwnAddrLookedUp
<1>4. \E x \in DeparseIp(RestoreEtherType(f), r.md, r.cb) : Return(c, x)
  BY <1>2, Zenon DEF ProcessL2, process_l2
<1>5. ~MetadataFails(f)
  BY <1>1, <1>2
<1>6. CASE a \in DOMAIN nhL2
  <2> DEFINE n == nhL2[a]
             m == WithMacs(IpExtracted(f), n.smac, n.dmac)
             b1 == send_to_port(b, n.port)
  <2>1. n \in NextHopsL2
    BY <1>6 DEF IndInvL2, TableInvL2
  <2>2. n.smac \in Nat /\ n.dmac \in Nat /\ n.port \in Nat /\ n.port # 0
    BY <2>1, NextHopsAssumptionL2 DEF NhEntryL2
  <2>3. r = [md |-> m, cb |-> b1]
    BY <1>2, <1>3, <1>6, Zenon DEF apply_nh_table_l2
  <2>4. b1.drop = FALSE /\ b1.egress_port = n.port
    BY <1>2, <2>2, CbTypes
  <2>5. m \in IpHdrMd
    BY <1>2, <2>2, IpMdTypes
  <2>6. m.eth.valid = IpExtracted(f).eth.valid /\ m.ip = IpExtracted(f).ip /\ m.offset = IpExtracted(f).offset
    BY DEF WithMacs
  <2>7. WriteIpHeaders(RestoreEtherType(f), m) = w
    <3>1. w = NewMacs(f, n.smac, n.dmac)
      BY Zenon DEF EthLen, NewMacs
    <3> HIDE DEF n, f, w
    <3> QED
      BY <1>2, <1>5, <2>2, <3>1, IpWritten
  <2> HIDE DEF f, b1, m, n, w
  <2>8. r.md = m /\ r.cb = b1
    BY <2>3
  <2> HIDE DEF r
  <2>9. \E x \in DeparseIp(RestoreEtherType(f), m, b1) : Return(c, x)
    BY <1>4, <2>8
  <2>10. Leave(c, "sent", w, b1, m)
    BY <1>2, <2>2, <2>4, <2>6, <2>7, <2>9, IpDeparseLeaves
  <2>11. \E md \in IpHdrMd : Leave(c, "sent", w, b1, md)
    BY <2>5, <2>10
  <2> QED
    BY <1>1, <1>6, <2>11, Zenon DEF w, b1, n, f
<1>7. CASE a \notin DOMAIN nhL2
  <2>1. r = [md |-> IpExtracted(f), cb |-> b]
    BY <1>2, <1>3, <1>7, Zenon DEF apply_nh_table_l2
  <2>2. WriteIpHeaders(RestoreEtherType(f), IpExtracted(f)) = f
    BY <1>2, <1>5, IpWritten
  <2> HIDE DEF f, b
  <2>3. r.md = IpExtracted(f) /\ r.cb = b
    BY <2>1
  <2> HIDE DEF r
  <2>4. \E x \in DeparseIp(RestoreEtherType(f), IpExtracted(f), b) : Return(c, x)
    BY <1>4, <2>3
  <2>5. Leave(c, "ingress", f, [drop |-> FALSE, egress_port |-> 0, pass_to_kernel |-> TRUE], IpExtracted(f))
    BY <1>2, <2>2, <2>4, IpDeparseLeaves
  <2> QED
    BY <1>1, <1>2, <1>7, <2>5 DEF f
<1> QED
  BY <1>6, <1>7

(***************************************************************************)
(* A CPU that lets go of its packet keeps the invariant, if the packet it  *)
(* leaves behind is in order.                                              *)
(***************************************************************************)
LEMMA LeaveInvL2 ==
  ASSUME IndInvL2, NEW c \in Cpus, pc[c] # "idle", NEW l \in {"ingress", "stack", "sent", "dropped"},
         NEW f \in IpFrame, NEW b \in Cb, NEW md \in IpHdrMd, Leave(c, l, f, b, md),
         SkbOKL2(l, f, b, rcvd[cur[c]]), nhL2' = nhL2
  PROVE  IndInvL2'
<1> USE DEF IndInvL2
<1>1. /\ IpPnaOK' /\ CpuInv'
      /\ cur[c] \in Skbs
      /\ loc'[cur[c]] = l /\ frame'[cur[c]] = f /\ cb'[cur[c]] = b /\ rcvd'[cur[c]] = rcvd[cur[c]]
      /\ pc'[c] = "idle"
      /\ \A t \in Skbs : t # cur[c] => SameSkb(t)
      /\ \A d \in Cpus : d # c => SameCpu(d) /\ (pc[d] # "idle" => cur[d] # cur[c])
  BY LeaveStep DEF IpPnaOK
<1>2. SkbInvL2'
  <2> SUFFICES ASSUME NEW s \in Skbs
               PROVE  SkbOKL2(loc'[s], frame'[s], cb'[s], rcvd'[s])
    BY DEF SkbInvL2
  <2>1. CASE s = cur[c]
    BY <1>1, <2>1
  <2>2. CASE s # cur[c]
    BY <1>1, <2>2 DEF SameSkb, SkbInvL2
  <2> QED
    BY <2>1, <2>2
<1>3. ScratchInvL2'
  <2> SUFFICES ASSUME NEW d \in Cpus, pc'[d] # "idle"
               PROVE  IpAccepted(rcvd'[cur'[d]]) /\ hdrMd'[d] = IpExtracted(rcvd'[cur'[d]])
    BY DEF ScratchInvL2
  <2>1. d # c /\ SameCpu(d) /\ pc[d] # "idle"
    BY <1>1 DEF SameCpu
  <2>2. cur[d] \in Skbs /\ cur[d] # cur[c]
    BY <1>1, <2>1 DEF CpuInv
  <2>3. rcvd'[cur'[d]] = rcvd[cur[d]]
    BY <1>1, <2>1, <2>2 DEF SameCpu, SameSkb
  <2> QED
    BY <2>1, <2>3 DEF SameCpu, ScratchInvL2
<1>4. PcInvL2'
  BY <1>1 DEF PcInvL2, SameCpu
<1>5. TableInvL2'
  BY DEF TableInvL2
<1> QED
  BY <1>1, <1>2, <1>3, <1>4, <1>5

(***************************************************************************)
(* A packet that arrives.                                                  *)
(***************************************************************************)
LEMMA ReceiveInvL2 ==
  ASSUME IndInvL2, NEW s \in Skbs, ReceiveL2(s)
  PROVE  IndInvL2'
<1> USE DEF IndInvL2
<1>1. PICK p \in Ports, f \in FramesL2 : Arrive(s, p, f)
  BY DEF ReceiveL2
<1>2. p \in Nat /\ f \in IpFrame
  BY PortsAssumption, FramesAssumptionL2
<1>3. /\ IpPnaOK' /\ CpuInv'
      /\ loc[s] = "new" /\ loc'[s] = "ingress" /\ frame'[s] = f /\ rcvd'[s] = f /\ cb'[s] = cb[s]
      /\ \A t \in Skbs : t # s => SameSkb(t)
      /\ \A c \in Cpus : SameCpu(c) /\ (pc[c] # "idle" => cur[c] # s)
  BY <1>1, <1>2, ArriveStep DEF IpPnaOK
<1>4. SkbInvL2'
  <2>1. SkbOKL2(loc'[s], frame'[s], cb'[s], rcvd'[s])
    BY <1>3 DEF SkbInvL2, SkbOKL2
  <2>2. \A t \in Skbs : t # s => SkbOKL2(loc'[t], frame'[t], cb'[t], rcvd'[t])
    BY <1>3 DEF SkbInvL2, SameSkb
  <2> QED
    BY <2>1, <2>2 DEF SkbInvL2
<1>5. ScratchInvL2'
  <2>1. ASSUME NEW c \in Cpus, pc'[c] # "idle"
        PROVE  rcvd'[cur'[c]] = rcvd[cur[c]] /\ pc[c] # "idle"
    <3>1. pc[c] # "idle" /\ cur'[c] = cur[c] /\ cur[c] # s
      BY <1>3, <2>1 DEF SameCpu
    <3>2. cur[c] \in Skbs
      BY <3>1 DEF CpuInv
    <3> QED
      BY <1>3, <3>1, <3>2 DEF SameSkb
  <2> QED
    BY <1>3, <2>1 DEF ScratchInvL2, SameCpu
<1>6. TableInvL2' /\ PcInvL2'
  BY <1>3 DEF ReceiveL2, TableInvL2, PcInvL2, SameCpu
<1> QED
  BY <1>3, <1>4, <1>5, <1>6

(***************************************************************************)
(* A packet that is parsed, for the first or the second time.              *)
(***************************************************************************)
LEMMA ParseInvL2 ==
  ASSUME IndInvL2, NEW c \in Cpus, NEW s \in Skbs, ParseL2(c, s)
  PROVE  IndInvL2'
<1> USE DEF IndInvL2
<1> DEFINE r == run_parser_l2(frame[s], hdrMd[c])
<1>1. TcParseFunc(c, s, r)
  BY DEF ParseL2
<1>2. frame[s] \in IpFrame
  BY DEF IpPnaOK, PnaTyped
<1>3. /\ r.md \in IpHdrMd
      /\ IpAccepted(frame[s]) => r.ret # TC_ACT_SHOT /\ r.md = IpExtracted(frame[s])
      /\ ~IpAccepted(frame[s]) => r.ret = TC_ACT_SHOT
  BY <1>2, ParserResultL2
<1> HIDE DEF r
<1>4. /\ IpPnaOK' /\ CpuInv'
      /\ pc[c] = "idle" /\ loc[s] = "ingress"
      /\ frame'[s] = frame[s] /\ rcvd'[s] = rcvd[s] /\ cb'[s] = cb[s]
      /\ r.ret = TC_ACT_SHOT => loc'[s] = "dropped" /\ pc'[c] = "idle"
      /\ r.ret # TC_ACT_SHOT => /\ loc'[s] = "cpu" /\ pc'[c] = "main"
                                /\ cur'[c] = s /\ hdrMd'[c] = r.md
      /\ \A t \in Skbs : t # s => SameSkb(t)
      /\ \A d \in Cpus : d # c => SameCpu(d) /\ (pc[d] # "idle" => cur[d] # s)
  BY <1>1, <1>3, ParseStep DEF IpPnaOK
<1>5. frame[s] = rcvd[s] /\ cb[s].drop = FALSE /\ cb[s].egress_port = 0
  BY <1>4 DEF SkbInvL2, SkbOKL2
<1>6. ~IpAccepted(rcvd[s]) => rcvd[s].len >= EthLen /\ ~HasIpv4Type(rcvd[s])
  <2>1. rcvd[s].len \in Nat
    BY <1>2, <1>5, IpFrameFields
  <2> QED
    BY <2>1 DEF IpAccepted, HasIpv4Type, EthLen
<1>7. SkbInvL2'
  <2>1. SkbOKL2(loc'[s], frame'[s], cb'[s], rcvd'[s])
    BY <1>3, <1>4, <1>5, <1>6 DEF SkbOKL2
  <2>2. \A t \in Skbs : t # s => SkbOKL2(loc'[t], frame'[t], cb'[t], rcvd'[t])
    BY <1>4 DEF SkbInvL2, SameSkb
  <2> QED
    BY <2>1, <2>2 DEF SkbInvL2
<1>8. ScratchInvL2'
  <2> SUFFICES ASSUME NEW d \in Cpus, pc'[d] # "idle"
               PROVE  IpAccepted(rcvd'[cur'[d]]) /\ hdrMd'[d] = IpExtracted(rcvd'[cur'[d]])
    BY DEF ScratchInvL2
  <2>1. CASE d = c
    BY <1>3, <1>4, <1>5, <2>1
  <2>2. CASE d # c
    <3>1. SameCpu(d) /\ pc[d] # "idle" /\ cur[d] # s
      BY <1>4, <2>2 DEF SameCpu
    <3>2. cur[d] \in Skbs
      BY <3>1 DEF CpuInv
    <3>3. rcvd'[cur'[d]] = rcvd[cur[d]]
      BY <1>4, <3>1, <3>2 DEF SameCpu, SameSkb
    <3> QED
      BY <3>1, <3>3 DEF SameCpu, ScratchInvL2
  <2> QED
    BY <2>1, <2>2
<1>9. TableInvL2' /\ PcInvL2'
  BY <1>4 DEF ParseL2, TableInvL2, PcInvL2, SameCpu
<1> QED
  BY <1>4, <1>7, <1>8, <1>9

(***************************************************************************)
(* The main block, and its early returns.                                  *)
(***************************************************************************)
LEMMA MainInvL2 ==
  ASSUME IndInvL2, NEW c \in Cpus, MainL2(c)
  PROVE  IndInvL2'
<1> DEFINE f == rcvd[cur[c]]
           b == cb[cur[c]]
<1>1. pc[c] # "idle" /\ nhL2' = nhL2
  BY DEF MainL2, IngressEarlyL2, EarlyReturn, PassToKernel, MetadataShot, ProcessL2, EntersMain
<1>2. /\ f \in IpFrame /\ frame[cur[c]] = f /\ hdrMd[c] \in IpHdrMd
      /\ b \in Cb /\ b.drop = FALSE /\ b.egress_port = 0
  BY <1>1, AtWorkL2
<1>3. CASE IngressEarlyL2(c)
  <2>1. \/ Leave(c, "stack", f, b, hdrMd[c])
        \/ MetadataFails(f) /\ Leave(c, "dropped", f, b, hdrMd[c])
    BY <1>2, <1>3 DEF IngressEarlyL2, EarlyReturn, PassToKernel, MetadataShot
  <2>2. SkbOKL2("stack", f, b, f) /\ (MetadataFails(f) => SkbOKL2("dropped", f, b, f))
    BY <1>2 DEF SkbOKL2
  <2> QED
    BY <1>1, <1>2, <2>1, <2>2, LeaveInvL2
<1>4. CASE ProcessL2(c)
  <2> DEFINE a == OwnAddr(f)
             n == nhL2[a]
             w == IF f.len < EthLen THEN f ELSE [f EXCEPT !.smac = n.smac, !.dmac = n.dmac]
             z == [drop |-> FALSE, egress_port |-> 0, pass_to_kernel |-> TRUE]
  <2>1. CASE a \in DOMAIN nhL2
    <3>1. \E md \in IpHdrMd : Leave(c, "sent", w, send_to_port(b, n.port), md)
      BY <1>4, <2>1, ProcessStepL2, Zenon
    <3>2. n \in NextHopsL2
      BY <2>1 DEF IndInvL2, TableInvL2
    <3>3. n.smac \in Nat /\ n.dmac \in Nat /\ n.port \in Nat
      BY <3>2, NextHopsAssumptionL2 DEF NhEntryL2
    <3>4. send_to_port(b, n.port) \in Cb
      BY <1>2, <3>3, CbTypes
    <3>5. w = NewMacs(f, n.smac, n.dmac)
      BY Zenon DEF EthLen, NewMacs
    <3>6. w \in IpFrame
      <4> HIDE DEF w, n, f
      <4> QED
        BY <1>2, <3>3, <3>5, NewMacsType
    <3>7. SkbOKL2("sent", w, send_to_port(b, n.port), f)
      BY DEF SkbOKL2
    <3> HIDE DEF w
    <3> QED
      BY <1>1, <3>1, <3>4, <3>6, <3>7, LeaveInvL2
  <2>2. CASE a \notin DOMAIN nhL2
    <3>1. Leave(c, "ingress", f, z, hdrMd[c])
      BY <1>4, <2>2, ProcessStepL2
    <3>2. z \in Cb /\ SkbOKL2("ingress", f, z, f)
      BY DEF Cb, SkbOKL2
    <3> QED
      BY <1>1, <1>2, <3>1, <3>2, LeaveInvL2
  <2> QED
    BY <2>1, <2>2
<1> QED
  BY <1>3, <1>4 DEF MainL2

(***************************************************************************)
(* The control plane changes nh_table only, and as it may be.              *)
(***************************************************************************)
LEMMA CtrlInvL2 ==
  ASSUME IndInvL2, (\E a \in AddrsL2 : CtrlPlaneL2(a)) \/ UNCHANGED varsL2
  PROVE  IndInvL2' /\ UNCHANGED pnaVars
<1>1. UNCHANGED pnaVars
  BY DEF CtrlPlaneL2, varsL2
<1>2. TableInvL2'
  BY DEF CtrlPlaneL2, varsL2, TableInvL2, IndInvL2
<1> QED
  BY <1>1, <1>2 DEF pnaVars, IndInvL2, IpPnaOK, PnaTyped, PcInvL2, CpuInv, ScratchInvL2, SkbInvL2

-----------------------------------------------------------------------------
(* The theorems *)

(***************************************************************************)
(* The inductive invariant holds in every reachable state.                 *)
(***************************************************************************)
THEOREM InvarianceL2 == SpecL2 => []IndInvL2
<1>1. InitL2 => IndInvL2
  <2> SUFFICES ASSUME InitL2
               PROVE  IndInvL2
    OBVIOUS
  <2>1. /\ IpPnaOK /\ CpuInv
        /\ loc = [s \in Skbs |-> "new"] /\ cb = [s \in Skbs |-> ZeroCb] /\ pc = [c \in Cpus |-> "idle"]
    BY IpInit DEF InitL2
  <2>2. \A s \in Skbs : frame[s] = rcvd[s]
    BY DEF InitL2, PnaInit
  <2>3. PcInvL2 /\ ScratchInvL2
    BY <2>1 DEF PcInvL2, ScratchInvL2
  <2>4. SkbInvL2
    BY <2>1, <2>2 DEF SkbInvL2, SkbOKL2, ZeroCb
  <2>5. TableInvL2
    BY DEF InitL2, TableInvL2
  <2> QED
    BY <2>1, <2>3, <2>4, <2>5 DEF IndInvL2
<1>2. IndInvL2 /\ [NextL2]_varsL2 => IndInvL2'
  BY ReceiveInvL2, ParseInvL2, MainInvL2, CtrlInvL2 DEF NextL2
<1> QED
  BY <1>1, <1>2, PTL DEF SpecL2

(***************************************************************************)
(* The variables of the pipeline and its table have their types.           *)
(***************************************************************************)
THEOREM TypeCorrectL2 == SpecL2 => []TypeOKL2
<1>1. IndInvL2 => TypeOKL2
  BY DEF IndInvL2, IpPnaOK, PnaTyped, PcInvL2, TableInvL2, TypeOKL2
<1> QED
  BY <1>1, InvarianceL2, PTL

(***************************************************************************)
(* A step that sends a packet does so by the entry of its own address.     *)
(***************************************************************************)
LEMMA SendStepL2 ==
  ASSUME IndInvL2, NextL2, NEW s \in Skbs, loc[s] # "sent", loc'[s] = "sent"
  PROVE  LET a == OwnAddr(rcvd[s])
         IN /\ a \in DOMAIN nhL2
            /\ cb'[s].egress_port = nhL2[a].port
            /\ frame'[s] = IF rcvd[s].len < EthLen THEN rcvd[s]
                           ELSE [rcvd[s] EXCEPT !.smac = nhL2[a].smac, !.dmac = nhL2[a].dmac]
<1>1. ASSUME NEW c \in Cpus, pc[c] # "idle", NEW l, NEW g, NEW b, NEW md, Leave(c, l, g, b, md)
      PROVE  s = cur[c] /\ l = "sent" /\ frame'[s] = g /\ cb'[s] = b
  <2>1. /\ loc' = [loc EXCEPT ![cur[c]] = l] /\ frame' = [frame EXCEPT ![cur[c]] = g]
        /\ cb' = [cb EXCEPT ![cur[c]] = b]
    BY <1>1 DEF Leave
  <2> QED
    BY <2>1 DEF IndInvL2, IpPnaOK, PnaTyped
<1>2. ASSUME NEW t \in Skbs, ReceiveL2(t)
      PROVE  FALSE
  <2>1. loc' = [loc EXCEPT ![t] = "ingress"]
    BY <1>2 DEF ReceiveL2, Arrive
  <2> QED
    BY <2>1 DEF IndInvL2, IpPnaOK, PnaTyped
<1>3. ASSUME NEW c \in Cpus, NEW t \in Skbs, ParseL2(c, t)
      PROVE  FALSE
  <2>1. loc' = [loc EXCEPT ![t] = "dropped"] \/ loc' = [loc EXCEPT ![t] = "cpu"]
    BY <1>3 DEF ParseL2, TcParseFunc
  <2> QED
    BY <2>1 DEF IndInvL2, IpPnaOK, PnaTyped
<1>4. ASSUME NEW c \in Cpus, IngressEarlyL2(c)
      PROVE  FALSE
  <2>1. /\ pc[c] # "idle"
        /\ \E l \in {"stack", "dropped"} : Leave(c, l, frame[cur[c]], cb[cur[c]], hdrMd[c])
    BY <1>4 DEF IngressEarlyL2, EarlyReturn, PassToKernel, MetadataShot
  <2> QED
    BY <1>1, <2>1
<1>5. ASSUME \E a \in AddrsL2 : CtrlPlaneL2(a)
      PROVE  FALSE
  BY <1>5, CtrlInvL2 DEF pnaVars
<1>6. PICK c \in Cpus : ProcessL2(c)
  BY <1>2, <1>3, <1>4, <1>5 DEF NextL2, MainL2
<1> DEFINE f == rcvd[cur[c]]
           a == OwnAddr(f)
           w == IF f.len < EthLen THEN f ELSE [f EXCEPT !.smac = nhL2[a].smac, !.dmac = nhL2[a].dmac]
           b == send_to_port(cb[cur[c]], nhL2[a].port)
<1>7. /\ pc[c] # "idle"
      /\ a \in DOMAIN nhL2 => \E md \in IpHdrMd : Leave(c, "sent", w, b, md)
      /\ a \notin DOMAIN nhL2 =>
           Leave(c, "ingress", f, [drop |-> FALSE, egress_port |-> 0, pass_to_kernel |-> TRUE], hdrMd[c])
  BY <1>6, ProcessStepL2, Zenon
<1>8. a \in DOMAIN nhL2
  BY <1>1, <1>7
<1>9. b.egress_port = nhL2[a].port
  BY DEF send_to_port
<1> HIDE DEF w, b
<1>10. s = cur[c] /\ frame'[s] = w /\ cb'[s] = b
  BY <1>1, <1>7, <1>8
<1> QED
  BY <1>8, <1>9, <1>10, Zenon DEF w

(***************************************************************************)
(* However CPUs and control plane interleave, a packet is sent by the      *)
(* entry its own source address has at that moment, and only its MAC       *)
(* addresses change.                                                       *)
(***************************************************************************)
THEOREM SentByEntryL2 == SpecL2 => SentByOwnEntryL2
<1> DEFINE A == \A s \in Skbs : loc[s] # "sent" /\ loc'[s] = "sent" =>
                  LET a == OwnAddr(rcvd[s])
                  IN /\ a \in DOMAIN nhL2
                     /\ cb'[s].egress_port = nhL2[a].port
                     /\ frame'[s] = IF rcvd[s].len < EthLen THEN rcvd[s]
                                    ELSE [rcvd[s] EXCEPT !.smac = nhL2[a].smac, !.dmac = nhL2[a].dmac]
<1>1. IndInvL2 /\ [NextL2]_varsL2 => [A]_varsL2
  BY SendStepL2, Zenon
<1> QED
  BY <1>1, InvarianceL2, PTL DEF SpecL2, SentByOwnEntryL2

(***************************************************************************)
(* What a step makes of a packet that a CPU is at work on.                 *)
(***************************************************************************)
LEMMA FollowStepL2 ==
  ASSUME IndInvL2, NextL2, NEW s \in Skbs, loc[s] = "cpu"
  PROVE  /\ ~cb[s].pass_to_kernel /\ OwnAddr(rcvd[s]) \in DOMAIN nhL2 =>
              loc'[s] \in {"cpu", "sent"} \/ MetadataFails(rcvd[s])
         /\ loc'[s] = "stack" => cb[s].pass_to_kernel /\ frame'[s] = rcvd[s]
<1> DEFINE G == /\ ~cb[s].pass_to_kernel /\ OwnAddr(rcvd[s]) \in DOMAIN nhL2 =>
                     loc'[s] \in {"cpu", "sent"} \/ MetadataFails(rcvd[s])
                /\ loc'[s] = "stack" => cb[s].pass_to_kernel /\ frame'[s] = rcvd[s]
<1>1. ASSUME NEW c \in Cpus, NEW l, NEW g, NEW b, NEW md, Leave(c, l, g, b, md)
      PROVE  (s = cur[c] /\ loc'[s] = l /\ frame'[s] = g) \/ loc'[s] = "cpu"
  <2>1. loc' = [loc EXCEPT ![cur[c]] = l] /\ frame' = [frame EXCEPT ![cur[c]] = g]
    BY <1>1 DEF Leave
  <2> QED
    BY <2>1 DEF IndInvL2, IpPnaOK, PnaTyped
<1>2. ASSUME NEW t \in Skbs, ReceiveL2(t)
      PROVE  loc'[s] = "cpu"
  <2>1. loc[t] = "new" /\ loc' = [loc EXCEPT ![t] = "ingress"]
    BY <1>2 DEF ReceiveL2, Arrive
  <2> QED
    BY <2>1 DEF IndInvL2, IpPnaOK, PnaTyped
<1>3. ASSUME NEW c \in Cpus, NEW t \in Skbs, ParseL2(c, t)
      PROVE  loc'[s] = "cpu"
  <2>1. loc[t] = "ingress" /\ (loc' = [loc EXCEPT ![t] = "dropped"] \/ loc' = [loc EXCEPT ![t] = "cpu"])
    BY <1>3 DEF ParseL2, TcParseFunc
  <2> QED
    BY <2>1 DEF IndInvL2, IpPnaOK, PnaTyped
<1>4. ASSUME \E a \in AddrsL2 : CtrlPlaneL2(a)
      PROVE  loc'[s] = "cpu"
  BY <1>4, CtrlInvL2 DEF pnaVars
<1>5. ASSUME NEW c \in Cpus, IngressEarlyL2(c)
      PROVE  G
  <2>1. pc[c] # "idle"
    BY <1>5 DEF IngressEarlyL2, EarlyReturn, PassToKernel, MetadataShot
  <2>2. frame[cur[c]] = rcvd[cur[c]]
    BY <2>1, AtWorkL2
  <2>3. CASE PassToKernel(c)
    <3>1. cb[cur[c]].pass_to_kernel /\ Leave(c, "stack", frame[cur[c]], cb[cur[c]], hdrMd[c])
      BY <2>3 DEF PassToKernel
    <3> QED
      BY <1>1, <2>2, <3>1
  <2>4. CASE MetadataShot(c)
    <3>1. MetadataFails(rcvd[cur[c]]) /\ Leave(c, "dropped", frame[cur[c]], cb[cur[c]], hdrMd[c])
      BY <2>2, <2>4 DEF MetadataShot
    <3> QED
      BY <1>1, <3>1
  <2> QED
    BY <1>5, <2>3, <2>4 DEF IngressEarlyL2, EarlyReturn
<1>6. ASSUME NEW c \in Cpus, ProcessL2(c)
      PROVE  G
  <2> DEFINE f == rcvd[cur[c]]
             a == OwnAddr(f)
             w == IF f.len < EthLen THEN f ELSE [f EXCEPT !.smac = nhL2[a].smac, !.dmac = nhL2[a].dmac]
             b == send_to_port(cb[cur[c]], nhL2[a].port)
             z == [drop |-> FALSE, egress_port |-> 0, pass_to_kernel |-> TRUE]
  <2>1. /\ a \in DOMAIN nhL2 => \E md \in IpHdrMd : Leave(c, "sent", w, b, md)
        /\ a \notin DOMAIN nhL2 => Leave(c, "ingress", f, z, hdrMd[c])
    BY <1>6, ProcessStepL2, Zenon
  <2> HIDE DEF w, b, z
  <2>2. CASE a \in DOMAIN nhL2
    BY <1>1, <2>1, <2>2
  <2>3. CASE a \notin DOMAIN nhL2
    BY <1>1, <2>1, <2>3
  <2> QED
    BY <2>2, <2>3
<1>7. loc'[s] = "cpu" => G
  OBVIOUS
<1> HIDE DEF G
<1>8. G
  BY <1>2, <1>3, <1>4, <1>5, <1>6, <1>7 DEF NextL2, MainL2
<1> QED
  BY <1>8 DEF G

(***************************************************************************)
(* However CPUs and control plane interleave, a packet on its first run    *)
(* whose source address has an entry is sent, and one that reaches the     *)
(* stack is as it was received.                                            *)
(***************************************************************************)
THEOREM HitsAreSent == SpecL2 => FollowsTable
<1> DEFINE A == \A s \in Skbs : loc[s] = "cpu" =>
                  /\ ~cb[s].pass_to_kernel /\ OwnAddr(rcvd[s]) \in DOMAIN nhL2 =>
                       loc'[s] \in {"cpu", "sent"} \/ MetadataFails(rcvd[s])
                  /\ loc'[s] = "stack" => cb[s].pass_to_kernel /\ frame'[s] = rcvd[s]
<1>1. IndInvL2 /\ [NextL2]_varsL2 => [A]_varsL2
  BY FollowStepL2, Zenon
<1> QED
  BY <1>1, InvarianceL2, PTL DEF SpecL2, FollowsTable

-----------------------------------------------------------------------------
(* SimpleL3 *)

\* The packets that the parser does not reject.
AcceptedTcp(f) ==
  f.len < 14 \/ (f.etherType = <<8, 0>> /\ (f.len < 34 \/ f.proto = IP_PROTO_TCP))

\* The entries whose action is send_nh.
Sends(t, a) == a \in DOMAIN t /\ t[a] # DropEntry

(***************************************************************************)
(* The headers in a CPU's map are those of its packet as received.         *)
(***************************************************************************)
ScratchInv ==
  \A c \in Cpus : pc[c] # "idle" =>
    AcceptedTcp(rcvd[cur[c]]) /\ hdrMd[c] = IpExtracted(rcvd[cur[c]])

\* A packet received as r that is at l with contents f and metadata b.  Until
\* it is sent or dropped it is as it was received, without a port; a whole
\* TCP packet is never marked for the kernel.
SkbOK(l, f, b, r) ==
  /\ l \in {"new", "ingress", "cpu", "stack"} => f = r /\ b.drop = FALSE /\ b.egress_port = 0
  /\ l = "new" => b.pass_to_kernel = FALSE
  /\ l \in {"ingress", "cpu"} => b.pass_to_kernel = FALSE \/ ~IsTcp(r)
  /\ l = "stack" => ~IsTcp(r)

SkbInv == \A s \in Skbs : SkbOK(loc[s], frame[s], cb[s], rcvd[s])

TableInv == DOMAIN nh \subseteq Addrs /\ nh \in [DOMAIN nh -> NextHops]

PcInv == \A c \in Cpus : pc[c] \in {"idle", "main"}

IndInv == IpPnaOK /\ PcInv /\ TableInv /\ CpuInv /\ ScratchInv /\ SkbInv

-----------------------------------------------------------------------------
(* The parser *)

(***************************************************************************)
(* What run_parser makes of a packet, whatever the map held before.        *)
(***************************************************************************)
LEMMA ParserResult ==
  ASSUME NEW f \in IpFrame, NEW md
  PROVE  /\ run_parser(f, md).md \in IpHdrMd
         /\ AcceptedTcp(f) => run_parser(f, md).ret # TC_ACT_SHOT /\ run_parser(f, md).md = IpExtracted(f)
         /\ ~AcceptedTcp(f) => run_parser(f, md).ret = TC_ACT_SHOT
<1>1. run_parser(f, md) = start(f, ZeroIpHdrMd)
  BY DEF run_parser, memset
<1>2. IpEthMd(f) = ExtractEth(ZeroIpHdrMd, f) /\ IpIpv4Md(f) = ExtractIpv4(IpEthMd(f), f)
  BY DEF IpEthMd, IpIpv4Md
<1>3. ZeroIpHdrMd \in IpHdrMd /\ IpEthMd(f) \in IpHdrMd /\ IpExtracted(f) \in IpHdrMd
  BY IpMdTypes
<1>4. CASE f.len < 14
  <2>1. start(f, ZeroIpHdrMd) = Accept(ZeroIpHdrMd) /\ IpExtracted(f) = ZeroIpHdrMd
    BY <1>4, IpExtractCases, IpWhichMd DEF start
  <2> QED
    BY <1>1, <1>3, <1>4, <2>1, IpExtractCases DEF AcceptedTcp
<1>5. CASE ~(f.len < 14) /\ f.etherType # <<8, 0>>
  <2>1. start(f, ZeroIpHdrMd) = Reject(IpEthMd(f), NoError)
    BY <1>2, <1>5, IpExtractCases DEF start
  <2>2. Reject(IpEthMd(f), NoError) = [ret |-> TC_ACT_SHOT, md |-> IpEthMd(f)]
    BY IpExtractCases
  <2> QED
    BY <1>1, <1>3, <1>5, <2>1, <2>2 DEF AcceptedTcp
<1>6. CASE ~(f.len < 14) /\ f.etherType = <<8, 0>> /\ (f.len < 34 \/ f.proto = IP_PROTO_TCP)
  <2>1. start(f, ZeroIpHdrMd) = parse_ipv4(f, IpEthMd(f))
    BY <1>2, <1>6, IpExtractCases DEF start
  <2>2. parse_ipv4(f, IpEthMd(f)) = Accept(IpExtracted(f))
    BY <1>2, <1>6, IpExtractCases, IpWhichMd DEF parse_ipv4
  <2> QED
    BY <1>1, <1>3, <1>6, <2>1, <2>2, IpExtractCases DEF AcceptedTcp
<1>7. CASE ~(f.len < 14) /\ f.etherType = <<8, 0>> /\ ~(f.len < 34) /\ f.proto # IP_PROTO_TCP
  <2>1. start(f, ZeroIpHdrMd) = parse_ipv4(f, IpEthMd(f))
    BY <1>2, <1>7, IpExtractCases DEF start
  <2>2. parse_ipv4(f, IpEthMd(f)) = Reject(IpIpv4Md(f), NoError)
    BY <1>2, <1>7, IpExtractCases DEF parse_ipv4
  <2>3. Reject(IpIpv4Md(f), NoError) = [ret |-> TC_ACT_SHOT, md |-> IpIpv4Md(f)]
    BY IpExtractCases
  <2>4. IpIpv4Md(f) \in IpHdrMd
    BY IpMdTypes
  <2> QED
    BY <1>1, <1>7, <2>1, <2>2, <2>3, <2>4 DEF AcceptedTcp
<1> QED
  BY <1>4, <1>5, <1>6, <1>7

(***************************************************************************)
(* The table is applied to whole TCP packets, with their own destination   *)
(* address: never by what is left of a packet parsed earlier.              *)
(***************************************************************************)
LEMMA TcpLookedUp ==
  ASSUME NEW f \in IpFrame, AcceptedTcp(f)
  PROVE  /\ (IpExtracted(f).ip.valid /\ IpExtracted(f).ip.proto = IP_PROTO_TCP) <=> IsTcp(f)
         /\ IsTcp(f) => IpExtracted(f).ip.dst = f.dst /\ ~(f.len < 14)
<1>1. IsTcp(f) <=> ~(f.len < 34) /\ f.etherType = <<8, 0>> /\ f.proto = IP_PROTO_TCP
  BY IpExtractCases DEF IsTcp
<1>2. /\ ZeroIpHdrMd.ip.valid = FALSE /\ IpEthMd(f).ip = ZeroIpHdrMd.ip
      /\ IpIpv4Md(f).ip.valid = TRUE /\ IpIpv4Md(f).ip.proto = f.proto /\ IpIpv4Md(f).ip.dst = f.dst
  BY IpMdFields
<1> QED
  BY <1>1, <1>2, IpWhichMd DEF AcceptedTcp

-----------------------------------------------------------------------------
(* The steps *)

(***************************************************************************)
(* What a CPU that has a packet at work knows of it.                       *)
(***************************************************************************)
LEMMA AtWork ==
  ASSUME IndInv, NEW c \in Cpus, pc[c] # "idle"
  PROVE  /\ pc[c] = "main" /\ cur[c] \in Skbs /\ loc[cur[c]] = "cpu"
         /\ rcvd[cur[c]] \in IpFrame /\ frame[cur[c]] = rcvd[cur[c]]
         /\ cb[cur[c]] \in Cb /\ cb[cur[c]].drop = FALSE /\ cb[cur[c]].egress_port = 0
         /\ cb[cur[c]].pass_to_kernel = FALSE \/ ~IsTcp(rcvd[cur[c]])
         /\ AcceptedTcp(rcvd[cur[c]]) /\ hdrMd[c] = IpExtracted(rcvd[cur[c]]) /\ hdrMd[c] \in IpHdrMd
<1>1. pc[c] = "main" /\ cur[c] \in Skbs /\ loc[cur[c]] = "cpu"
  BY DEF IndInv, PcInv, CpuInv
<1>2. rcvd[cur[c]] \in IpFrame /\ cb[cur[c]] \in Cb /\ hdrMd[c] \in IpHdrMd
  BY <1>1 DEF IndInv, IpPnaOK, PnaTyped
<1>3. /\ frame[cur[c]] = rcvd[cur[c]] /\ cb[cur[c]].drop = FALSE /\ cb[cur[c]].egress_port = 0
      /\ cb[cur[c]].pass_to_kernel = FALSE \/ ~IsTcp(rcvd[cur[c]])
  BY <1>1 DEF IndInv, SkbInv, SkbOK
<1> QED
  BY <1>1, <1>2, <1>3 DEF IndInv, ScratchInv

(***************************************************************************)
(* The main block: a hit sends a TCP packet by the entry of its own        *)
(* destination address, a miss or an entry that says so drops it; any      *)
(* other packet goes back to its ingress as it came, marked for the        *)
(* kernel.                                                                 *)
(***************************************************************************)
LEMMA ProcessStep ==
  ASSUME IndInv, NEW c \in Cpus, Process(c)
  PROVE  LET f == rcvd[cur[c]]
             b == cb[cur[c]]
             n == nh[f.dst]
         IN /\ pc[c] # "idle"
            /\ IsTcp(f) /\ Sends(nh, f.dst) =>
                 /\ n.smac \in Nat /\ n.dmac \in Nat /\ n.port \in Nat \ {0} /\ ~(f.len < 14)
                 /\ \E md \in IpHdrMd : Leave(c, "sent", NewMacs(f, n.smac, n.dmac), send_to_port(b, n.port), md)
            /\ IsTcp(f) /\ ~Sends(nh, f.dst) =>
                 Leave(c, "dropped", RestoreEtherType(f), drop_packet(b), hdrMd[c])
            /\ ~IsTcp(f) =>
                 Leave(c, "ingress", f, [drop |-> FALSE, egress_port |-> 0, pass_to_kernel |-> TRUE], hdrMd[c])
<1> DEFINE f == rcvd[cur[c]]
           b == cb[cur[c]]
           n == nh[f.dst]
           r == IF hdrMd[c].ip.valid /\ hdrMd[c].ip.proto = IP_PROTO_TCP
                  THEN apply_nh_table(nh, hdrMd[c], b) ELSE [md |-> hdrMd[c], cb |-> b]
<1>1. pc[c] # "idle" /\ ~MetadataFails(frame[cur[c]])
  BY DEF Process, EntersMain
<1>2. /\ f \in IpFrame /\ frame[cur[c]] = f /\ b \in Cb /\ b.drop = FALSE /\ b.egress_port = 0
      /\ AcceptedTcp(f) /\ hdrMd[c] = IpExtracted(f) /\ hdrMd[c] \in IpHdrMd
  BY <1>1, AtWork
<1>3. /\ (hdrMd[c].ip.valid /\ hdrMd[c].ip.proto = IP_PROTO_TCP) <=> IsTcp(f)
      /\ IsTcp(f) => hdrMd[c].ip.dst = f.dst /\ ~(f.len < 14)
  BY <1>2, TcpLookedUp
<1>4. \E x \in DeparseIp(RestoreEtherType(f), r.md, r.cb) : Return(c, x)
  BY <1>2, Zenon DEF Process, process
<1>5. ~MetadataFails(f)
  BY <1>1, <1>2
<1>6. CASE IsTcp(f) /\ Sends(nh, f.dst)
  <2> DEFINE m == WithMacs(IpExtracted(f), n.smac, n.dmac)
             b1 == send_to_port(b, n.port)
  <2>1. n \in NextHops /\ n # DropEntry
    BY <1>6 DEF IndInv, TableInv, Sends
  <2>2. n.smac \in Nat /\ n.dmac \in Nat /\ n.port \in Nat /\ n.port # 0
    BY <2>1, NextHopsAssumption DEF NhEntry
  <2>3. r = [md |-> m, cb |-> b1]
    BY <1>2, <1>3, <1>6, Zenon DEF apply_nh_table, Sends
  <2>4. b1.drop = FALSE /\ b1.egress_port = n.port
    BY <1>2, <2>2, CbTypes
  <2>5. m \in IpHdrMd
    BY <1>2, <2>2, IpMdTypes
  <2>6. m.eth.valid = IpExtracted(f).eth.valid /\ m.ip = IpExtracted(f).ip /\ m.offset = IpExtracted(f).offset
    BY DEF WithMacs
  <2>7. WriteIpHeaders(RestoreEtherType(f), m) = NewMacs(f, n.smac, n.dmac)
    <3> HIDE DEF n, f
    <3> QED
      BY <1>2, <1>5, <2>2, IpWritten
  <2> HIDE DEF f, b1, m, n
  <2>8. r.md = m /\ r.cb = b1
    BY <2>3
  <2> HIDE DEF r
  <2>9. \E x \in DeparseIp(RestoreEtherType(f), m, b1) : Return(c, x)
    BY <1>4, <2>8
  <2>10. Leave(c, "sent", NewMacs(f, n.smac, n.dmac), b1, m)
    BY <1>2, <2>2, <2>4, <2>6, <2>7, <2>9, IpDeparseLeaves
  <2>11. \E md \in IpHdrMd : Leave(c, "sent", NewMacs(f, n.smac, n.dmac), b1, md)
    BY <2>5, <2>10
  <2>12. n.port \in Nat \ {0} /\ ~(f.len < 14)
    BY <1>3, <1>6, <2>2
  <2> QED
    BY <1>1, <1>6, <2>2, <2>11, <2>12, Zenon DEF b1, n, f
<1>7. CASE IsTcp(f) /\ ~Sends(nh, f.dst)
  <2> DEFINE b1 == drop_packet(b)
  <2>1. r = [md |-> IpExtracted(f), cb |-> b1]
    BY <1>2, <1>3, <1>7, Zenon DEF apply_nh_table, Sends
  <2>2. b1.drop = TRUE
    BY DEF drop_packet
  <2> HIDE DEF f, b, b1
  <2>3. r.md = IpExtracted(f) /\ r.cb = b1
    BY <2>1
  <2> HIDE DEF r
  <2>4. \E x \in DeparseIp(RestoreEtherType(f), IpExtracted(f), b1) : Return(c, x)
    BY <1>4, <2>3
  <2>5. Leave(c, "dropped", RestoreEtherType(f), b1, IpExtracted(f))
    BY <1>2, <2>2, <2>4, IpDeparseLeaves
  <2> QED
    BY <1>1, <1>2, <1>7, <2>5, Zenon DEF f, b, b1
<1>8. CASE ~IsTcp(f)
  <2>1. r = [md |-> IpExtracted(f), cb |-> b]
    BY <1>2, <1>3, <1>8, Zenon
  <2>2. WriteIpHeaders(RestoreEtherType(f), IpExtracted(f)) = f
    BY <1>2, <1>5, IpWritten
  <2> HIDE DEF f, b
  <2>3. r.md = IpExtracted(f) /\ r.cb = b
    BY <2>1
  <2> HIDE DEF r
  <2>4. \E x \in DeparseIp(RestoreEtherType(f), IpExtracted(f), b) : Return(c, x)
    BY <1>4, <2>3
  <2>5. Leave(c, "ingress", f, [drop |-> FALSE, egress_port |-> 0, pass_to_kernel |-> TRUE], IpExtracted(f))
    BY <1>2, <2>2, <2>4, IpDeparseLeaves
  <2> QED
    BY <1>1, <1>2, <1>8, <2>5 DEF f
<1> QED
  BY <1>6, <1>7, <1>8

(***************************************************************************)
(* A CPU that lets go of its packet keeps the invariant, if the packet it  *)
(* leaves behind is in order.                                              *)
(***************************************************************************)
LEMMA LeaveInv ==
  ASSUME IndInv, NEW c \in Cpus, pc[c] # "idle", NEW l \in {"ingress", "stack", "sent", "dropped"},
         NEW f \in IpFrame, NEW b \in Cb, NEW md \in IpHdrMd, Leave(c, l, f, b, md),
         SkbOK(l, f, b, rcvd[cur[c]]), nh' = nh
  PROVE  IndInv'
<1> USE DEF IndInv
<1>1. /\ IpPnaOK' /\ CpuInv'
      /\ cur[c] \in Skbs
      /\ loc'[cur[c]] = l /\ frame'[cur[c]] = f /\ cb'[cur[c]] = b /\ rcvd'[cur[c]] = rcvd[cur[c]]
      /\ pc'[c] = "idle"
      /\ \A t \in Skbs : t # cur[c] => SameSkb(t)
      /\ \A d \in Cpus : d # c => SameCpu(d) /\ (pc[d] # "idle" => cur[d] # cur[c])
  BY LeaveStep DEF IpPnaOK
<1>2. SkbInv'
  <2> SUFFICES ASSUME NEW s \in Skbs
               PROVE  SkbOK(loc'[s], frame'[s], cb'[s], rcvd'[s])
    BY DEF SkbInv
  <2>1. CASE s = cur[c]
    BY <1>1, <2>1
  <2>2. CASE s # cur[c]
    BY <1>1, <2>2 DEF SameSkb, SkbInv
  <2> QED
    BY <2>1, <2>2
<1>3. ScratchInv'
  <2> SUFFICES ASSUME NEW d \in Cpus, pc'[d] # "idle"
               PROVE  AcceptedTcp(rcvd'[cur'[d]]) /\ hdrMd'[d] = IpExtracted(rcvd'[cur'[d]])
    BY DEF ScratchInv
  <2>1. d # c /\ SameCpu(d) /\ pc[d] # "idle"
    BY <1>1 DEF SameCpu
  <2>2. cur[d] \in Skbs /\ cur[d] # cur[c]
    BY <1>1, <2>1 DEF CpuInv
  <2>3. rcvd'[cur'[d]] = rcvd[cur[d]]
    BY <1>1, <2>1, <2>2 DEF SameCpu, SameSkb
  <2> QED
    BY <2>1, <2>3 DEF SameCpu, ScratchInv
<1>4. PcInv'
  BY <1>1 DEF PcInv, SameCpu
<1>5. TableInv'
  BY DEF TableInv
<1> QED
  BY <1>1, <1>2, <1>3, <1>4, <1>5

(***************************************************************************)
(* A packet that arrives.                                                  *)
(***************************************************************************)
LEMMA ReceiveInv ==
  ASSUME IndInv, NEW s \in Skbs, Receive(s)
  PROVE  IndInv'
<1> USE DEF IndInv
<1>1. PICK p \in Ports, f \in Frames : Arrive(s, p, f)
  BY DEF Receive
<1>2. p \in Nat /\ f \in IpFrame
  BY PortsAssumption, FramesAssumption
<1>3. /\ IpPnaOK' /\ CpuInv'
      /\ loc[s] = "new" /\ loc'[s] = "ingress" /\ frame'[s] = f /\ rcvd'[s] = f /\ cb'[s] = cb[s]
      /\ \A t \in Skbs : t # s => SameSkb(t)
      /\ \A c \in Cpus : SameCpu(c) /\ (pc[c] # "idle" => cur[c] # s)
  BY <1>1, <1>2, ArriveStep DEF IpPnaOK
<1>4. SkbInv'
  <2>1. SkbOK(loc'[s], frame'[s], cb'[s], rcvd'[s])
    BY <1>3 DEF SkbInv, SkbOK
  <2>2. \A t \in Skbs : t # s => SkbOK(loc'[t], frame'[t], cb'[t], rcvd'[t])
    BY <1>3 DEF SkbInv, SameSkb
  <2> QED
    BY <2>1, <2>2 DEF SkbInv
<1>5. ScratchInv'
  <2>1. ASSUME NEW c \in Cpus, pc'[c] # "idle"
        PROVE  rcvd'[cur'[c]] = rcvd[cur[c]] /\ pc[c] # "idle"
    <3>1. pc[c] # "idle" /\ cur'[c] = cur[c] /\ cur[c] # s
      BY <1>3, <2>1 DEF SameCpu
    <3>2. cur[c] \in Skbs
      BY <3>1 DEF CpuInv
    <3> QED
      BY <1>3, <3>1, <3>2 DEF SameSkb
  <2> QED
    BY <1>3, <2>1 DEF ScratchInv, SameCpu
<1>6. TableInv' /\ PcInv'
  BY <1>3 DEF Receive, TableInv, PcInv, SameCpu
<1> QED
  BY <1>3, <1>4, <1>5, <1>6

(***************************************************************************)
(* A packet that is parsed, for the first or the second time.              *)
(***************************************************************************)
LEMMA ParseInv ==
  ASSUME IndInv, NEW c \in Cpus, NEW s \in Skbs, Parse(c, s)
  PROVE  IndInv'
<1> USE DEF IndInv
<1> DEFINE r == run_parser(frame[s], hdrMd[c])
<1>1. TcParseFunc(c, s, r)
  BY DEF Parse
<1>2. frame[s] \in IpFrame
  BY DEF IpPnaOK, PnaTyped
<1>3. /\ r.md \in IpHdrMd
      /\ AcceptedTcp(frame[s]) => r.ret # TC_ACT_SHOT /\ r.md = IpExtracted(frame[s])
      /\ ~AcceptedTcp(frame[s]) => r.ret = TC_ACT_SHOT
  BY <1>2, ParserResult
<1> HIDE DEF r
<1>4. /\ IpPnaOK' /\ CpuInv'
      /\ pc[c] = "idle" /\ loc[s] = "ingress"
      /\ frame'[s] = frame[s] /\ rcvd'[s] = rcvd[s] /\ cb'[s] = cb[s]
      /\ r.ret = TC_ACT_SHOT => loc'[s] = "dropped" /\ pc'[c] = "idle"
      /\ r.ret # TC_ACT_SHOT => /\ loc'[s] = "cpu" /\ pc'[c] = "main"
                                /\ cur'[c] = s /\ hdrMd'[c] = r.md
      /\ \A t \in Skbs : t # s => SameSkb(t)
      /\ \A d \in Cpus : d # c => SameCpu(d) /\ (pc[d] # "idle" => cur[d] # s)
  BY <1>1, <1>3, ParseStep DEF IpPnaOK
<1>5. /\ frame[s] = rcvd[s] /\ cb[s].drop = FALSE /\ cb[s].egress_port = 0
      /\ cb[s].pass_to_kernel = FALSE \/ ~IsTcp(rcvd[s])
  BY <1>4 DEF SkbInv, SkbOK
<1>6. SkbInv'
  <2>1. SkbOK(loc'[s], frame'[s], cb'[s], rcvd'[s])
    BY <1>3, <1>4, <1>5 DEF SkbOK
  <2>2. \A t \in Skbs : t # s => SkbOK(loc'[t], frame'[t], cb'[t], rcvd'[t])
    BY <1>4 DEF SkbInv, SameSkb
  <2> QED
    BY <2>1, <2>2 DEF SkbInv
<1>7. ScratchInv'
  <2> SUFFICES ASSUME NEW d \in Cpus, pc'[d] # "idle"
               PROVE  AcceptedTcp(rcvd'[cur'[d]]) /\ hdrMd'[d] = IpExtracted(rcvd'[cur'[d]])
    BY DEF ScratchInv
  <2>1. CASE d = c
    BY <1>3, <1>4, <1>5, <2>1
  <2>2. CASE d # c
    <3>1. SameCpu(d) /\ pc[d] # "idle" /\ cur[d] # s
      BY <1>4, <2>2 DEF SameCpu
    <3>2. cur[d] \in Skbs
      BY <3>1 DEF CpuInv
    <3>3. rcvd'[cur'[d]] = rcvd[cur[d]]
      BY <1>4, <3>1, <3>2 DEF SameCpu, SameSkb
    <3> QED
      BY <3>1, <3>3 DEF SameCpu, ScratchInv
  <2> QED
    BY <2>1, <2>2
<1>8. TableInv' /\ PcInv'
  BY <1>4 DEF Parse, TableInv, PcInv, SameCpu
<1> QED
  BY <1>4, <1>6, <1>7, <1>8

(***************************************************************************)
(* The main block, and its early returns.                                  *)
(***************************************************************************)
LEMMA MainInv ==
  ASSUME IndInv, NEW c \in Cpus, Main(c)
  PROVE  IndInv'
<1> DEFINE f == rcvd[cur[c]]
           b == cb[cur[c]]
<1>1. pc[c] # "idle" /\ nh' = nh
  BY DEF Main, IngressEarly, EarlyReturn, PassToKernel, MetadataShot, Process, EntersMain
<1>2. /\ f \in IpFrame /\ frame[cur[c]] = f /\ hdrMd[c] \in IpHdrMd
      /\ b \in Cb /\ b.drop = FALSE /\ b.egress_port = 0
      /\ b.pass_to_kernel = FALSE \/ ~IsTcp(f)
  BY <1>1, AtWork
<1>3. CASE IngressEarly(c)
  <2>1. \/ b.pass_to_kernel /\ Leave(c, "stack", f, b, hdrMd[c])
        \/ Leave(c, "dropped", f, b, hdrMd[c])
    BY <1>2, <1>3 DEF IngressEarly, EarlyReturn, PassToKernel, MetadataShot
  <2>2. (b.pass_to_kernel => SkbOK("stack", f, b, f)) /\ SkbOK("dropped", f, b, f)
    BY <1>2 DEF SkbOK
  <2> QED
    BY <1>1, <1>2, <2>1, <2>2, LeaveInv
<1>4. CASE Process(c)
  <2> DEFINE n == nh[f.dst]
             w == NewMacs(f, n.smac, n.dmac)
             z == [drop |-> FALSE, egress_port |-> 0, pass_to_kernel |-> TRUE]
  <2>1. CASE IsTcp(f) /\ Sends(nh, f.dst)
    <3>1. /\ n.smac \in Nat /\ n.dmac \in Nat /\ n.port \in Nat
          /\ \E md \in IpHdrMd : Leave(c, "sent", w, send_to_port(b, n.port), md)
      BY <1>4, <2>1, ProcessStep, Zenon
    <3>2. send_to_port(b, n.port) \in Cb
      BY <1>2, <3>1, CbTypes
    <3>3. w \in IpFrame
      <4> HIDE DEF n, f
      <4> QED
        BY <1>2, <3>1, NewMacsType
    <3>4. SkbOK("sent", w, send_to_port(b, n.port), f)
      BY DEF SkbOK
    <3> HIDE DEF w
    <3> QED
      BY <1>1, <3>1, <3>2, <3>3, <3>4, LeaveInv
  <2>2. CASE IsTcp(f) /\ ~Sends(nh, f.dst)
    <3>1. Leave(c, "dropped", RestoreEtherType(f), drop_packet(b), hdrMd[c])
      BY <1>4, <2>2, ProcessStep
    <3>2. drop_packet(b) \in Cb /\ RestoreEtherType(f) \in IpFrame
      BY <1>2, CbTypes, IpRestoredFrame
    <3>3. SkbOK("dropped", RestoreEtherType(f), drop_packet(b), f)
      BY DEF SkbOK
    <3> QED
      BY <1>1, <1>2, <3>1, <3>2, <3>3, LeaveInv
  <2>3. CASE ~IsTcp(f)
    <3>1. Leave(c, "ingress", f, z, hdrMd[c])
      BY <1>4, <2>3, ProcessStep
    <3>2. z \in Cb /\ SkbOK("ingress", f, z, f)
      BY <2>3 DEF Cb, SkbOK
    <3> QED
      BY <1>1, <1>2, <3>1, <3>2, LeaveInv
  <2> QED
    BY <2>1, <2>2, <2>3
<1> QED
  BY <1>3, <1>4 DEF Main

(***************************************************************************)
(* The control plane changes nh_table only, and as it may be.              *)
(***************************************************************************)
LEMMA CtrlInv ==
  ASSUME IndInv, (\E a \in Addrs : CtrlPlane(a)) \/ UNCHANGED vars
  PROVE  IndInv' /\ UNCHANGED pnaVars
<1>1. UNCHANGED pnaVars
  BY DEF CtrlPlane, vars
<1>2. TableInv'
  BY DEF CtrlPlane, vars, TableInv, IndInv
<1> QED
  BY <1>1, <1>2 DEF pnaVars, IndInv, IpPnaOK, PnaTyped, PcInv, CpuInv, ScratchInv, SkbInv

-----------------------------------------------------------------------------
(* The theorems *)

(***************************************************************************)
(* The inductive invariant holds in every reachable state.                 *)
(***************************************************************************)
THEOREM Invariance == Spec => []IndInv
<1>1. Init => IndInv
  <2> SUFFICES ASSUME Init
               PROVE  IndInv
    OBVIOUS
  <2>1. /\ IpPnaOK /\ CpuInv
        /\ loc = [s \in Skbs |-> "new"] /\ cb = [s \in Skbs |-> ZeroCb] /\ pc = [c \in Cpus |-> "idle"]
    BY IpInit DEF Init
  <2>2. \A s \in Skbs : frame[s] = rcvd[s]
    BY DEF Init, PnaInit
  <2>3. PcInv /\ ScratchInv
    BY <2>1 DEF PcInv, ScratchInv
  <2>4. SkbInv
    BY <2>1, <2>2 DEF SkbInv, SkbOK, ZeroCb
  <2>5. TableInv
    BY DEF Init, TableInv
  <2> QED
    BY <2>1, <2>3, <2>4, <2>5 DEF IndInv
<1>2. IndInv /\ [Next]_vars => IndInv'
  BY ReceiveInv, ParseInv, MainInv, CtrlInv DEF Next
<1> QED
  BY <1>1, <1>2, PTL DEF Spec

(***************************************************************************)
(* The variables of the pipeline and its table have their types.           *)
(***************************************************************************)
THEOREM TypeCorrect == Spec => []TypeOK
<1>1. IndInv => TypeOK
  BY DEF IndInv, IpPnaOK, PnaTyped, PcInv, TableInv, TypeOK
<1> QED
  BY <1>1, Invariance, PTL

(***************************************************************************)
(* A whole TCP packet never reaches the stack, whatever becomes of the     *)
(* entries while it is at work; what does reach it is as it was received.  *)
(***************************************************************************)
THEOREM TcpStaysOffStack == Spec => []TcpNeverToStack
<1>1. IndInv => TcpNeverToStack
  BY DEF IndInv, SkbInv, SkbOK, TcpNeverToStack
<1> QED
  BY <1>1, Invariance, PTL

(***************************************************************************)
(* A step that sends a packet does so by the entry of its own address.     *)
(***************************************************************************)
LEMMA SendStep ==
  ASSUME IndInv, Next, NEW s \in Skbs, loc[s] # "sent", loc'[s] = "sent"
  PROVE  LET a == rcvd[s].dst
         IN /\ IsTcp(rcvd[s]) /\ a \in DOMAIN nh /\ nh[a] # DropEntry
            /\ cb'[s].egress_port = nh[a].port
            /\ frame'[s] = [rcvd[s] EXCEPT !.smac = nh[a].smac, !.dmac = nh[a].dmac]
<1>1. ASSUME NEW c \in Cpus, pc[c] # "idle", NEW l, NEW g, NEW b, NEW md, Leave(c, l, g, b, md)
      PROVE  s = cur[c] /\ l = "sent" /\ frame'[s] = g /\ cb'[s] = b
  <2>1. /\ loc' = [loc EXCEPT ![cur[c]] = l] /\ frame' = [frame EXCEPT ![cur[c]] = g]
        /\ cb' = [cb EXCEPT ![cur[c]] = b]
    BY <1>1 DEF Leave
  <2> QED
    BY <2>1 DEF IndInv, IpPnaOK, PnaTyped
<1>2. ASSUME NEW t \in Skbs, Receive(t)
      PROVE  FALSE
  <2>1. loc' = [loc EXCEPT ![t] = "ingress"]
    BY <1>2 DEF Receive, Arrive
  <2> QED
    BY <2>1 DEF IndInv, IpPnaOK, PnaTyped
<1>3. ASSUME NEW c \in Cpus, NEW t \in Skbs, Parse(c, t)
      PROVE  FALSE
  <2>1. loc' = [loc EXCEPT ![t] = "dropped"] \/ loc' = [loc EXCEPT ![t] = "cpu"]
    BY <1>3 DEF Parse, TcParseFunc
  <2> QED
    BY <2>1 DEF IndInv, IpPnaOK, PnaTyped
<1>4. ASSUME NEW c \in Cpus, IngressEarly(c)
      PROVE  FALSE
  <2>1. /\ pc[c] # "idle"
        /\ \E l \in {"stack", "dropped"} : Leave(c, l, frame[cur[c]], cb[cur[c]], hdrMd[c])
    BY <1>4 DEF IngressEarly, EarlyReturn, PassToKernel, MetadataShot
  <2> QED
    BY <1>1, <2>1
<1>5. ASSUME \E a \in Addrs : CtrlPlane(a)
      PROVE  FALSE
  BY <1>5, CtrlInv DEF pnaVars
<1>6. PICK c \in Cpus : Process(c)
  BY <1>2, <1>3, <1>4, <1>5 DEF Next, Main
<1> DEFINE f == rcvd[cur[c]]
           n == nh[f.dst]
           w == NewMacs(f, n.smac, n.dmac)
           b == send_to_port(cb[cur[c]], n.port)
<1>7. /\ pc[c] # "idle"
      /\ IsTcp(f) /\ Sends(nh, f.dst) => ~(f.len < 14) /\ \E md \in IpHdrMd : Leave(c, "sent", w, b, md)
      /\ IsTcp(f) /\ ~Sends(nh, f.dst) =>
           Leave(c, "dropped", RestoreEtherType(f), drop_packet(cb[cur[c]]), hdrMd[c])
      /\ ~IsTcp(f) =>
           Leave(c, "ingress", f, [drop |-> FALSE, egress_port |-> 0, pass_to_kernel |-> TRUE], hdrMd[c])
  BY <1>6, ProcessStep, Zenon
<1>8. IsTcp(f) /\ Sends(nh, f.dst)
  BY <1>1, <1>7
<1>9. b.egress_port = n.port
  BY DEF send_to_port
<1>10. w = [f EXCEPT !.smac = n.smac, !.dmac = n.dmac]
  BY <1>7, <1>8, Zenon DEF NewMacs
<1> HIDE DEF w, b
<1>11. s = cur[c] /\ frame'[s] = w /\ cb'[s] = b
  BY <1>1, <1>7, <1>8
<1> QED
  BY <1>8, <1>9, <1>10, <1>11, Zenon DEF Sends

(***************************************************************************)
(* However CPUs and control plane interleave, only a TCP packet is sent,   *)
(* by the entry its own destination address has at that moment, and only   *)
(* its MAC addresses change.                                               *)
(***************************************************************************)
THEOREM SentByEntry == Spec => SentByOwnEntry
<1> DEFINE A == \A s \in Skbs : loc[s] # "sent" /\ loc'[s] = "sent" =>
                  LET a == rcvd[s].dst
                  IN /\ IsTcp(rcvd[s]) /\ a \in DOMAIN nh /\ nh[a] # DropEntry
                     /\ cb'[s].egress_port = nh[a].port
                     /\ frame'[s] = [rcvd[s] EXCEPT !.smac = nh[a].smac, !.dmac = nh[a].dmac]
<1>1. IndInv /\ [Next]_vars => [A]_vars
  BY SendStep, Zenon
<1> QED
  BY <1>1, Invariance, PTL DEF Spec, SentByOwnEntry
=============================================================================
