-------------------------- MODULE FlowTrackerIpv6 ---------------------------
(***************************************************************************)
(* stateful-progs/flowtracker_ipv6: as flowtracker, with a header of 40    *)
(* bytes whose first word holds three bit fields.                          *)
(*                                                                         *)
(* Abstraction: hopLimit and the MAC addresses, which are copied in and    *)
(* out unread, are left out; an IPv6 address, 16 bytes copied one by one,  *)
(* is a number.  Lengths are in bytes.                                     *)
(*                                                                         *)
(* What FlowTracker has under the same name ends in 6 here.                *)
(***************************************************************************)
EXTENDS FlowTable, Word

CONSTANTS
  Frames6,    \* the contents a received packet may have
  CtrlKeys6   \* the keys the control plane may enter by itself

Ipv6Len == 40

TYPE_IPV6 == 34525 \* 0x86dd

-----------------------------------------------------------------------------
\* The contents of a packet; fields past its length stand for nothing.
\* first is the first word of the IPv6 header.
Frame6 == [len : Nat, md : Half \cup {NoMd}, etherType : Half, first : Bytes4, payloadLen : Half,
           nextHdr : Byte, src : Nat, dst : Nat, sport : Half, dport : Half]

ASSUME FramesAssumption6 == Frames6 \subseteq Frame6

NoFrame6 == [len |-> 0, md |-> NoMd, etherType |-> <<0, 0>>, first |-> <<0, 0, 0, 0>>,
             payloadLen |-> <<0, 0>>, nextHdr |-> 0, src |-> 0, dst |-> 0,
             sport |-> <<0, 0>>, dport |-> <<0, 0>>]

\* struct hdr_md: headers_t, my_ingress_metadata_t and the parser's offset.
Ipv6Header == [valid : BOOLEAN, version : Byte, traffiClass : Byte, flowLabel : U32,
               payloadLen : U16, nextHdr : Byte, src : Nat, dst : Nat]

HdrMd6 == [eth : [valid : BOOLEAN, etherType : U16], ipv6 : Ipv6Header, tcp : L4Header, udp : L4Header,
           meta : [srcPort : U16, dstPort : U16], offset : Nat]

ZeroIpv6 == [valid |-> FALSE, version |-> 0, traffiClass |-> 0, flowLabel |-> <<0, 0>>,
             payloadLen |-> 0, nextHdr |-> 0, src |-> 0, dst |-> 0]

ZeroHdrMd6 == [eth |-> [valid |-> FALSE, etherType |-> 0], ipv6 |-> ZeroIpv6, tcp |-> ZeroL4, udp |-> ZeroL4,
               meta |-> [srcPort |-> 0, dstPort |-> 0], offset |-> 0]

\* Main_ct_flow_table_key; the ports are in network byte order.
Key6 == [port : Nat, src : Nat, dst : Nat, nextHdr : Byte, sport : U16, dport : U16]

ASSUME CtrlKeysAssumption6 == CtrlKeys6 \subseteq Key6

-----------------------------------------------------------------------------
(* run_parser *)

\* The bit fields are cut out of a byte, a half and a word that each start
\* in the byte where the field does; of flowLabel the mask keeps 20 bits.
BitFields(f) ==
  LET label == shr32(load_word(<<f.first[2], f.first[3], f.first[4], f.payloadLen[1]>>), 8)
  IN [version     |-> LowBits(f.first[1] \div 2^4, 4),
      traffiClass |-> LowBits(load_half(<<f.first[1], f.first[2]>>) \div 2^4, 8),
      flowLabel   |-> <<LowBits(label[1], 4), label[2]>>]

Ipv6Of(f) ==
  LET b == BitFields(f)
  IN [valid |-> TRUE, version |-> b.version, traffiClass |-> b.traffiClass, flowLabel |-> b.flowLabel,
      payloadLen |-> load_half(f.payloadLen), nextHdr |-> f.nextHdr, src |-> f.src, dst |-> f.dst]

\* The map with a header extracted.
WithEth6(md, f) ==
  [eth |-> [valid |-> TRUE, etherType |-> load_half(f.etherType)], ipv6 |-> md.ipv6,
   tcp |-> md.tcp, udp |-> md.udp, meta |-> md.meta, offset |-> md.offset + EthLen]
WithIpv6(md, f) ==
  [eth |-> md.eth, ipv6 |-> Ipv6Of(f), tcp |-> md.tcp, udp |-> md.udp, meta |-> md.meta,
   offset |-> md.offset + Ipv6Len]
WithTcp6(md, f) ==
  [eth |-> md.eth, ipv6 |-> md.ipv6, tcp |-> Ports4(f), udp |-> md.udp, meta |-> md.meta,
   offset |-> md.offset + L4Len]
WithUdp6(md, f) ==
  [eth |-> md.eth, ipv6 |-> md.ipv6, tcp |-> md.tcp, udp |-> Ports4(f), meta |-> md.meta,
   offset |-> md.offset + L4Len]

parse_tcp6(f, md) ==
  IF TooShort(f, md, L4Len) THEN Reject(md, PacketTooShort) ELSE Accept(WithTcp6(md, f))

parse_udp6(f, md) ==
  IF TooShort(f, md, L4Len) THEN Reject(md, PacketTooShort) ELSE Accept(WithUdp6(md, f))

\* Extension headers are not followed: a packet that has one is rejected.
parse_ipv6(f, md) ==
  CASE TooShort(f, md, Ipv6Len) -> Reject(md, PacketTooShort)
    [] ~TooShort(f, md, Ipv6Len) /\ f.nextHdr = TCP_PROTO -> parse_tcp6(f, WithIpv6(md, f))
    [] ~TooShort(f, md, Ipv6Len) /\ f.nextHdr = UDP_PROTO -> parse_udp6(f, WithIpv6(md, f))
    [] OTHER -> Reject(WithIpv6(md, f), NoError)

start6(f, md) ==
  CASE TooShort(f, md, EthLen) -> Reject(md, PacketTooShort)
    [] ~TooShort(f, md, EthLen) /\ load_half(f.etherType) = TYPE_IPV6 -> parse_ipv6(f, WithEth6(md, f))
    [] OTHER -> Reject(WithEth6(md, f), NoError)

memset_missing6(md) ==
  [eth |-> md.eth, ipv6 |-> md.ipv6, tcp |-> md.tcp, udp |-> md.udp, meta |-> md.meta, offset |-> 0]
memset6(md) == ZeroHdrMd6

run_parser6(f, md) == start6(f, memset6(md))

-----------------------------------------------------------------------------
(* process *)

\* meta gets the ports of tcp if it is valid, else those of udp; without
\* either it keeps the zero of the parser.
WithMeta6(md, h) ==
  [eth |-> md.eth, ipv6 |-> md.ipv6, tcp |-> md.tcp, udp |-> md.udp,
   meta |-> [srcPort |-> h.srcPort, dstPort |-> h.dstPort], offset |-> md.offset]

SetMeta6(md) ==
  CASE md.tcp.valid -> WithMeta6(md, md.tcp)
    [] ~md.tcp.valid /\ md.udp.valid -> WithMeta6(md, md.udp)
    [] OTHER -> md

TableKey6(p, md) ==
  [port |-> p, src |-> md.ipv6.src, dst |-> md.ipv6.dst, nextHdr |-> md.ipv6.nextHdr,
   sport |-> htons(md.meta.srcPort), dport |-> htons(md.meta.dstPort)]

\* Main_ct_flow_table_value: the action of the entry, or the default one.
Value(t, k) == IF k \in DOMAIN t THEN "_NoAction" ELSE "ct_flow_miss"

OutHeaderLength6(md) ==
  (IF md.eth.valid THEN EthLen ELSE 0) + (IF md.ipv6.valid THEN Ipv6Len ELSE 0)
    + (IF md.tcp.valid THEN L4Len ELSE 0) + (IF md.udp.valid THEN L4Len ELSE 0)

\* The bit fields go nibble by nibble over what is in the packet; label
\* holds the bytes of htonl(flowLabel << 12).
WriteBitFieldsShift8(old, h) ==
  LET label == emit_word(shl32(h.flowLabel, 8))
  IN <<write_partial(write_partial(old[1], 4, 4, h.version), 4, 0, h.traffiClass \div 2^4),
       write_partial(write_partial(old[2], 4, 4, h.traffiClass), 4, 0, label[1] \div 2^4),
       write_partial(write_partial(old[3], 4, 4, label[1]), 4, 0, label[2] \div 2^4),
       write_partial(write_partial(old[4], 4, 4, label[2]), 4, 0, label[3] \div 2^4)>>
WriteBitFields(old, h) ==
  LET label == emit_word(shl32(h.flowLabel, 12))
  IN <<write_partial(write_partial(old[1], 4, 4, h.version), 4, 0, h.traffiClass \div 2^4),
       write_partial(write_partial(old[2], 4, 4, h.traffiClass), 4, 0, label[1] \div 2^4),
       write_partial(write_partial(old[3], 4, 4, label[1]), 4, 0, label[2] \div 2^4),
       write_partial(write_partial(old[4], 4, 4, label[2]), 4, 0, label[3] \div 2^4)>>

\* The valid headers are written back, one after the other.  (The parser
\* never extracts both tcp and udp.)
WriteHeaders6(f, md) ==
  LET l4 == IF md.udp.valid THEN md.udp ELSE md.tcp
      ip == md.ipv6
  IN [len |-> f.len, md |-> f.md,
      etherType  |-> IF md.eth.valid THEN emit_half(md.eth.etherType) ELSE f.etherType,
      first      |-> IF ip.valid THEN WriteBitFields(f.first, ip) ELSE f.first,
      payloadLen |-> IF ip.valid THEN emit_half(ip.payloadLen) ELSE f.payloadLen,
      nextHdr    |-> IF ip.valid THEN ip.nextHdr ELSE f.nextHdr,
      src   |-> IF ip.valid THEN ip.src ELSE f.src,
      dst   |-> IF ip.valid THEN ip.dst ELSE f.dst,
      sport |-> IF l4.valid THEN emit_half(l4.srcPort) ELSE f.sport,
      dport |-> IF l4.valid THEN emit_half(l4.dstPort) ELSE f.dport]

Emit6(f, md) ==
  IF f.len < OutHeaderLength6(md)
    THEN [ret |-> TC_ACT_SHOT, frame |-> f]
    ELSE [ret |-> Continue, frame |-> WriteHeaders6(f, md)]

Deparse6(f, md, b) ==
  IF b.drop THEN {[ret |-> TC_ACT_SHOT, frame |-> f]}
  ELSE {IF r.ret = TC_ACT_SHOT THEN r ELSE Emit6(r.frame, md) :
          r \in adjust_room(f, OutHeaderLength6(md) - md.offset)}

\* The rest of tc_ingress_func once the table has been applied.  (What the
\* deparser leaves in the map is not read before it is zeroed.)
Finish6(c, f, md) ==
  \E r \in Deparse6(f, md, cb[cur[c]]) :
    LET l == Verdict(r.ret, cb[cur[c]])
    IN Leave(c, l, r.frame, Mark(l, cb[cur[c]]), md)

-----------------------------------------------------------------------------
Init6 ==
  /\ PnaInit(NoFrame6, ZeroHdrMd6)
  /\ table = [k \in {} |-> [age |-> 0, dynamic |-> FALSE]]

Receive6(s) ==
  /\ \E p \in Ports, f \in Frames6 : Arrive(s, p, f)
  /\ UNCHANGED table

Parse6(c, s) ==
  /\ TcParseFunc(c, s, run_parser6(frame[s], hdrMd[c]))
  /\ UNCHANGED table

IngressEarly6(c) ==
  /\ EarlyReturn(c)
  /\ UNCHANGED table

\* The lookup finds the flow: its action is NoAction.
Hit6(c) ==
  LET md == SetMeta6(hdrMd[c])
      k  == TableKey6(port[cur[c]], md)
  IN /\ EntersMain(c)
     /\ Value(table, k) = "_NoAction"
     /\ table' = Refresh(table, k)
     /\ Finish6(c, RestoreEtherType(frame[cur[c]]), md)

\* The lookup returns the default action, which this CPU goes on to run;
\* the table may change before it does.
Miss6(c) ==
  LET md == SetMeta6(hdrMd[c])
  IN /\ EntersMain(c)
     /\ Value(table, TableKey6(port[cur[c]], md)) = "ct_flow_miss"
     /\ pc' = [pc EXCEPT ![c] = "ct_flow_miss"]
     /\ hdrMd' = [hdrMd EXCEPT ![c] = md]
     /\ frame' = [frame EXCEPT ![cur[c]] = RestoreEtherType(@)]
     /\ UNCHANGED <<loc, port, cb, cur, rcvd, table>>

ct_flow_miss6(c) ==
  /\ pc[c] = "ct_flow_miss"
  /\ table' = CreateOnMiss(table, TableKey6(port[cur[c]], hdrMd[c]))
  /\ Finish6(c, frame[cur[c]], hdrMd[c])

Main6(c) == IngressEarly6(c) \/ Hit6(c) \/ Miss6(c) \/ ct_flow_miss6(c)

Next6 ==
  \/ \E s \in Skbs : Receive6(s)
  \/ \E c \in Cpus, s \in Skbs : Parse6(c, s)
  \/ \E c \in Cpus : Main6(c)
  \/ Tick
  \/ \E k \in DOMAIN table : Expire(k) \/ CtrlDelete(k)
  \/ \E k \in CtrlKeys6 : CtrlCreate(k)

Spec6 == Init6 /\ [][Next6]_vars

-----------------------------------------------------------------------------
(* Properties *)

\* The values the variables take.
TypeOK6 ==
  /\ loc \in [Skbs -> Locs]
  /\ port \in [Skbs -> Nat]
  /\ frame \in [Skbs -> Frame6]
  /\ cb \in [Skbs -> Cb]
  /\ pc \in [Cpus -> {"idle", "main", "ct_flow_miss"}]
  /\ cur \in [Cpus -> Skbs \cup {NoSkb}]
  /\ hdrMd \in [Cpus -> HdrMd6]
  /\ rcvd \in [Skbs -> Frame6]
  /\ DOMAIN table \subseteq Key6
  /\ table \in [DOMAIN table -> Entry]

\* What the program makes of a packet, said without a parser.
IsIpv6(f) == f.len >= EthLen /\ f.etherType = <<134, 221>>

RejectedByParser6(f) ==
  \/ f.len >= EthLen /\ f.etherType # <<134, 221>>
  \/ IsIpv6(f) /\ f.len >= EthLen + Ipv6Len /\ f.nextHdr \notin {TCP_PROTO, UDP_PROTO}

Rejected6(f) == RejectedByParser6(f) \/ MetadataFails(f)

FlowOf6(p, f) ==
  LET ip == IsIpv6(f) /\ f.len >= EthLen + Ipv6Len
      l4 == ip /\ f.len >= EthLen + Ipv6Len + L4Len
  IN [port    |-> p,
      src     |-> IF ip THEN f.src ELSE 0,
      dst     |-> IF ip THEN f.dst ELSE 0,
      nextHdr |-> IF ip THEN f.nextHdr ELSE 0,
      sport   |-> IF l4 THEN f.sport[1] + 256 * f.sport[2] ELSE 0,
      dport   |-> IF l4 THEN f.dport[1] + 256 * f.dport[2] ELSE 0]

\* What Tracker sees of a packet: its flow, if it has one.
PktOf6(l, p, f) ==
  CASE l = "new" -> <<>>
    [] l # "new" /\ Rejected6(f) -> <<"none">>
    [] OTHER -> <<"flow", FlowOf6(p, f)>>

AbstractPkt6 == [s \in Skbs |-> PktOf6(loc[s], port[s], rcvd[s])]

T6 == INSTANCE Tracker WITH
  Packets <- Skbs, Flows <- Key6, CtrlFlows <- CtrlKeys6, Capacity <- TEntries,
  pkt <- AbstractPkt6, fate <- AbstractFate, flows <- DOMAIN table

(***************************************************************************)
(* The program is a flow tracker: although it looks a flow up and enters   *)
(* it in two steps, with other CPUs, timers and the control plane between  *)
(* them, and ignores whether entering succeeded, every packet is tracked   *)
(* in one step, once, under its own flow, and delivered after that.        *)
(***************************************************************************)
ImplementsTracker6 == T6!Spec

(***************************************************************************)
(* The stack gets each packet as it was received, bit fields included: it  *)
(* has been parsed twice and written back once in between.                 *)
(***************************************************************************)
DeliversUnchanged6 == \A s \in Skbs : loc[s] = "stack" => frame[s] = rcvd[s]

(***************************************************************************)
(* The header a CPU has at work, written over the bytes of any packet      *)
(* there is, comes out as it was received: the partial writes set every    *)
(* bit of the word they share, and leave none of the bits below.           *)
(***************************************************************************)
BitFieldsOverwrite ==
  \A c \in Cpus, n \in Skbs : pc[c] # "idle" /\ hdrMd[c].ipv6.valid =>
    WriteBitFields(frame[n].first, hdrMd[c].ipv6) = rcvd[cur[c]].first
=============================================================================
