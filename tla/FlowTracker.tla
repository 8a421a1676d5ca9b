----------------------------- MODULE FlowTracker ----------------------------
(***************************************************************************)
(* stateful-progs/flowtracker: every packet the parser accepts is looked   *)
(* up in ct_flow_table by its device, addresses, protocol and ports; on a  *)
(* miss the default action adds the flow (add-on-miss).  The main block    *)
(* never chooses an egress port, so a packet ends in the kernel's stack.   *)
(*                                                                         *)
(* Abstraction: of the headers only the fields that parser and table key   *)
(* look at are kept; the others are copied in and out unread.  Lengths are *)
(* in bytes.                                                               *)
(***************************************************************************)
EXTENDS FlowTable

CONSTANTS
  Frames,    \* the contents a received packet may have
  CtrlKeys   \* the keys the control plane may enter by itself

-----------------------------------------------------------------------------
\* The contents of a packet; fields past its length stand for nothing.
Frame == [len : Nat, md : Half \cup {NoMd}, etherType : Half, src : Nat, dst : Nat,
          proto : Byte, sport : Half, dport : Half]

ASSUME FramesAssumption == Frames \subseteq Frame

\* A packet slot that has not been used.
NoFrame == [len |-> 0, md |-> NoMd, etherType |-> <<0, 0>>, src |-> 0, dst |-> 0,
            proto |-> 0, sport |-> <<0, 0>>, dport |-> <<0, 0>>]

\* struct hdr_md: headers_t, my_ingress_metadata_t and the parser's offset.
HdrMd == [eth : [valid : BOOLEAN, etherType : U16],
          ipv4 : [valid : BOOLEAN, src : Nat, dst : Nat, proto : Byte],
          tcp : L4Header, udp : L4Header,
          meta : [srcPort : U16, dstPort : U16], offset : Nat]

ZeroHdrMd == [eth |-> [valid |-> FALSE, etherType |-> 0],
              ipv4 |-> [valid |-> FALSE, src |-> 0, dst |-> 0, proto |-> 0],
              tcp |-> ZeroL4, udp |-> ZeroL4,
              meta |-> [srcPort |-> 0, dstPort |-> 0], offset |-> 0]

\* Main_ct_flow_table_key; the ports are in network byte order.
Key == [port : Nat, src : Nat, dst : Nat, proto : Byte, sport : U16, dport : U16]

ASSUME CtrlKeysAssumption == CtrlKeys \subseteq Key

-----------------------------------------------------------------------------
(* run_parser *)

\* The map with a header extracted.
WithEth(md, f) ==
  [eth |-> [valid |-> TRUE, etherType |-> load_half(f.etherType)], ipv4 |-> md.ipv4,
   tcp |-> md.tcp, udp |-> md.udp, meta |-> md.meta, offset |-> md.offset + EthLen]
WithIpv4(md, f) ==
  [eth |-> md.eth, ipv4 |-> [valid |-> TRUE, src |-> f.src, dst |-> f.dst, proto |-> f.proto],
   tcp |-> md.tcp, udp |-> md.udp, meta |-> md.meta, offset |-> md.offset + Ipv4Len]
WithTcp(md, f) ==
  [eth |-> md.eth, ipv4 |-> md.ipv4, tcp |-> Ports4(f), udp |-> md.udp, meta |-> md.meta,
   offset |-> md.offset + L4Len]
WithUdp(md, f) ==
  [eth |-> md.eth, ipv4 |-> md.ipv4, tcp |-> md.tcp, udp |-> Ports4(f), meta |-> md.meta,
   offset |-> md.offset + L4Len]

parse_tcp(f, md) ==
  IF TooShort(f, md, L4Len) THEN Reject(md, PacketTooShort) ELSE Accept(WithTcp(md, f))

parse_udp(f, md) ==
  IF TooShort(f, md, L4Len) THEN Reject(md, PacketTooShort) ELSE Accept(WithUdp(md, f))

parse_ipv4(f, md) ==
  CASE TooShort(f, md, Ipv4Len) -> Reject(md, PacketTooShort)
    [] ~TooShort(f, md, Ipv4Len) /\ f.proto = TCP_PROTO -> parse_tcp(f, WithIpv4(md, f))
    [] ~TooShort(f, md, Ipv4Len) /\ f.proto = UDP_PROTO -> parse_udp(f, WithIpv4(md, f))
    [] OTHER -> Reject(WithIpv4(md, f), NoError)

start(f, md) ==
  CASE TooShort(f, md, EthLen) -> Reject(md, PacketTooShort)
    [] ~TooShort(f, md, EthLen) /\ load_half(f.etherType) = TYPE_IPV4 -> parse_ipv4(f, WithEth(md, f))
    [] OTHER -> Reject(WithEth(md, f), NoError)

\* The map still holds the headers of the last packet of this CPU: it is
\* zeroed first.
memset_missing(md) ==
  [eth |-> md.eth, ipv4 |-> md.ipv4, tcp |-> md.tcp, udp |-> md.udp, meta |-> md.meta, offset |-> 0]
memset(md) == ZeroHdrMd

run_parser(f, md) == start(f, memset(md))

-----------------------------------------------------------------------------
(* process *)

\* meta.srcPort and meta.dstPort are set from header h.
WithMeta(md, h) ==
  [eth |-> md.eth, ipv4 |-> md.ipv4, tcp |-> md.tcp, udp |-> md.udp,
   meta |-> [srcPort |-> h.srcPort, dstPort |-> h.dstPort], offset |-> md.offset]

\* They come from tcp if it is valid, else from udp; without either they
\* keep the zero of the parser.
SetMetaTcpOnly(md) == IF md.tcp.valid THEN WithMeta(md, md.tcp) ELSE md
SetMeta(md) ==
  CASE md.tcp.valid -> WithMeta(md, md.tcp)
    [] ~md.tcp.valid /\ md.udp.valid -> WithMeta(md, md.udp)
    [] OTHER -> md

TableKeyHostOrder(p, md) ==
  [port |-> p, src |-> md.ipv4.src, dst |-> md.ipv4.dst, proto |-> md.ipv4.proto,
   sport |-> md.meta.srcPort, dport |-> md.meta.dstPort]

TableKey(p, md) ==
  [port |-> p, src |-> md.ipv4.src, dst |-> md.ipv4.dst, proto |-> md.ipv4.proto,
   sport |-> htons(md.meta.srcPort), dport |-> htons(md.meta.dstPort)]

OutHeaderLengthNoUdp(md) ==
  (IF md.eth.valid THEN EthLen ELSE 0) + (IF md.ipv4.valid THEN Ipv4Len ELSE 0)
    + (IF md.tcp.valid THEN L4Len ELSE 0)

\* outHeaderLength, in bytes.
OutHeaderLength(md) ==
  (IF md.eth.valid THEN EthLen ELSE 0) + (IF md.ipv4.valid THEN Ipv4Len ELSE 0)
    + (IF md.tcp.valid THEN L4Len ELSE 0) + (IF md.udp.valid THEN L4Len ELSE 0)

(***************************************************************************)
(* The deparser writes the valid headers back, one after the other, unless *)
(* the packet is too short for one of them.  (The parser never extracts    *)
(* both tcp and udp.)                                                      *)
(***************************************************************************)
WriteHeaders(f, md) ==
  LET l4 == IF md.udp.valid THEN md.udp ELSE md.tcp
  IN [len |-> f.len, md |-> f.md,
      etherType |-> IF md.eth.valid THEN emit_half(md.eth.etherType) ELSE f.etherType,
      src   |-> IF md.ipv4.valid THEN md.ipv4.src ELSE f.src,
      dst   |-> IF md.ipv4.valid THEN md.ipv4.dst ELSE f.dst,
      proto |-> IF md.ipv4.valid THEN md.ipv4.proto ELSE f.proto,
      sport |-> IF l4.valid THEN emit_half(l4.srcPort) ELSE f.sport,
      dport |-> IF l4.valid THEN emit_half(l4.dstPort) ELSE f.dport]

Emit(f, md) ==
  IF f.len < OutHeaderLength(md)
    THEN [ret |-> TC_ACT_SHOT, frame |-> f]
    ELSE [ret |-> Continue, frame |-> WriteHeaders(f, md)]

\* The deparser converts the fields in the map itself.
ConvertedL4(h) == [valid |-> h.valid, srcPort |-> htons(h.srcPort), dstPort |-> htons(h.dstPort)]
Converted(md) ==
  [eth |-> [valid |-> md.eth.valid, etherType |-> htons(md.eth.etherType)], ipv4 |-> md.ipv4,
   tcp |-> ConvertedL4(md.tcp), udp |-> ConvertedL4(md.udp), meta |-> md.meta, offset |-> md.offset]

Deparse(f, md, b) ==
  IF b.drop THEN {[ret |-> TC_ACT_SHOT, frame |-> f]}
  ELSE {IF r.ret = TC_ACT_SHOT THEN r ELSE Emit(r.frame, md) :
          r \in adjust_room(f, OutHeaderLength(md) - md.offset)}

\* The rest of tc_ingress_func once the table has been applied.
Finish(c, f, md) ==
  \E r \in Deparse(f, md, cb[cur[c]]) :
    LET l == Verdict(r.ret, cb[cur[c]])
    IN Leave(c, l, r.frame, Mark(l, cb[cur[c]]), Converted(md))

-----------------------------------------------------------------------------
Init ==
  /\ PnaInit(NoFrame, ZeroHdrMd)
  /\ table = [k \in {} |-> [age |-> 0, dynamic |-> FALSE]]

Receive(s) ==
  /\ \E p \in Ports, f \in Frames : Arrive(s, p, f)
  /\ UNCHANGED table

Parse(c, s) ==
  /\ TcParseFunc(c, s, run_parser(frame[s], hdrMd[c]))
  /\ UNCHANGED table

IngressEarly(c) ==
  /\ EarlyReturn(c)
  /\ UNCHANGED table

\* The lookup finds the flow: its action is NoAction.
Hit(c) ==
  LET md == SetMeta(hdrMd[c])
      k  == TableKey(port[cur[c]], md)
  IN /\ EntersMain(c)
     /\ k \in DOMAIN table
     /\ table' = Refresh(table, k)
     /\ Finish(c, RestoreEtherType(frame[cur[c]]), md)

\* The lookup returns the default action, ct_flow_miss, which this CPU goes
\* on to run; the table may change before it does.
Miss(c) ==
  LET md == SetMeta(hdrMd[c])
  IN /\ EntersMain(c)
     /\ TableKey(port[cur[c]], md) \notin DOMAIN table
     /\ pc' = [pc EXCEPT ![c] = "ct_flow_miss"]
     /\ hdrMd' = [hdrMd EXCEPT ![c] = md]
     /\ frame' = [frame EXCEPT ![cur[c]] = RestoreEtherType(@)]
     /\ UNCHANGED <<loc, port, cb, cur, rcvd, table>>

ct_flow_miss(c) ==
  /\ pc[c] = "ct_flow_miss"
  /\ table' = CreateOnMiss(table, TableKey(port[cur[c]], hdrMd[c]))
  /\ Finish(c, frame[cur[c]], hdrMd[c])

Main(c) == IngressEarly(c) \/ Hit(c) \/ Miss(c) \/ ct_flow_miss(c)

Next ==
  \/ \E s \in Skbs : Receive(s)
  \/ \E c \in Cpus, s \in Skbs : Parse(c, s)
  \/ \E c \in Cpus : Main(c)
  \/ Tick
  \/ \E k \in DOMAIN table : Expire(k) \/ CtrlDelete(k)
  \/ \E k \in CtrlKeys : CtrlCreate(k)

(***************************************************************************)
(* A softirq that has work is run in the end, and so are the timers.       *)
(* Nobody promises that packets arrive or that the control plane acts.     *)
(***************************************************************************)
Fairness ==
  /\ \A s \in Skbs : WF_vars(\E c \in Cpus : Parse(c, s))
  /\ \A c \in Cpus : WF_vars(Main(c))
  /\ WF_vars(Tick)
  /\ WF_vars(\E k \in DOMAIN table : Expire(k))

Spec == Init /\ [][Next]_vars

FairSpec == Spec /\ Fairness

-----------------------------------------------------------------------------
(* Properties *)

TypeOK ==
  /\ loc \in [Skbs -> Locs]
  /\ port \in [Skbs -> Nat]
  /\ frame \in [Skbs -> Frame]
  /\ cb \in [Skbs -> Cb]
  /\ pc \in [Cpus -> {"idle", "main", "ct_flow_miss"}]
  /\ cur \in [Cpus -> Skbs \cup {NoSkb}]
  /\ hdrMd \in [Cpus -> HdrMd]
  /\ rcvd \in [Skbs -> Frame]
  /\ DOMAIN table \subseteq Key
  /\ table \in [DOMAIN table -> Entry]

(***************************************************************************)
(* What the program makes of a packet, said without a parser: the packets  *)
(* that are dropped, and the flow a packet belongs to.  A packet that ends *)
(* inside a header belongs to the flow whose missing fields are zero.      *)
(***************************************************************************)
IsIpv4(f) == f.len >= EthLen /\ f.etherType = <<8, 0>>

RejectedByParser(f) ==
  \/ f.len >= EthLen /\ f.etherType # <<8, 0>>
  \/ IsIpv4(f) /\ f.len >= EthLen + Ipv4Len /\ f.proto \notin {TCP_PROTO, UDP_PROTO}

Rejected(f) == RejectedByParser(f) \/ MetadataFails(f)

FlowOf(p, f) ==
  LET ip == IsIpv4(f) /\ f.len >= EthLen + Ipv4Len
      l4 == ip /\ f.len >= EthLen + Ipv4Len + L4Len
  IN [port  |-> p,
      src   |-> IF ip THEN f.src ELSE 0,
      dst   |-> IF ip THEN f.dst ELSE 0,
      proto |-> IF ip THEN f.proto ELSE 0,
      sport |-> IF l4 THEN f.sport[1] + 256 * f.sport[2] ELSE 0,
      dport |-> IF l4 THEN f.dport[1] + 256 * f.dport[2] ELSE 0]

(***************************************************************************)
(* The headers a CPU has at work are those of its own packet: the key they *)
(* make is the flow of the packet as it was received, whatever the CPU     *)
(* parsed before and whatever the other CPUs do.                           *)
(***************************************************************************)
KeyIsOwnFlow ==
  \A c \in Cpus : pc[c] # "idle" =>
    TableKey(port[cur[c]], SetMeta(hdrMd[c])) = FlowOf(port[cur[c]], rcvd[cur[c]])

(***************************************************************************)
(* The program never moves the payload: when it deparses, the valid        *)
(* headers are exactly as long as those it parsed, so the deparser asks    *)
(* for no room (outHeaderOffset is 0) and finds every header's bytes.      *)
(***************************************************************************)
HeadersFit ==
  \A c \in Cpus : pc[c] # "idle" =>
    /\ OutHeaderLength(hdrMd[c]) = hdrMd[c].offset
    /\ hdrMd[c].offset <= frame[cur[c]].len

(***************************************************************************)
(* Every entry was either made by the control plane or is the flow of a    *)
(* packet that was received and not rejected.                              *)
(***************************************************************************)
TableSound ==
  \A k \in DOMAIN table :
    \/ k \in CtrlKeys
    \/ \E s \in Skbs : /\ loc[s] # "new"
                       /\ ~Rejected(rcvd[s])
                       /\ k = FlowOf(port[s], rcvd[s])

(***************************************************************************)
(* No packet is dropped but those the parser (or the metadata check)       *)
(* rejects on sight: not by the deparser, and not when the packet comes    *)
(* back to its ingress and is parsed for a second time.                    *)
(***************************************************************************)
DropsOnlyRejected ==
  \A s \in Skbs : loc[s] = "dropped" => Rejected(rcvd[s])

(***************************************************************************)
(* The stack gets the packets as they were received, and no other packets  *)
(* than those accepted; nothing is sent out of a port.                     *)
(***************************************************************************)
DeliversUnchanged ==
  \A s \in Skbs :
    /\ loc[s] = "stack" => ~Rejected(rcvd[s]) /\ frame[s] = rcvd[s]
    /\ loc[s] # "sent"

(***************************************************************************)
(* Every packet received is disposed of: it does not go round through its  *)
(* own ingress for ever.                                                   *)
(***************************************************************************)
EveryPacketEnds ==
  \A s \in Skbs : loc[s] = "ingress" ~> loc[s] \in Final

(***************************************************************************)
(* Once packets stop, the flows added by the datapath age out.             *)
(***************************************************************************)
FlowsExpire == <>[](DOMAIN table \subseteq CtrlKeys)

\* What Tracker sees of a packet: its flow, if it has one.
PktOf(l, p, f) ==
  CASE l = "new" -> <<>>
    [] l # "new" /\ Rejected(f) -> <<"none">>
    [] OTHER -> <<"flow", FlowOf(p, f)>>

AbstractPkt == [s \in Skbs |-> PktOf(loc[s], port[s], rcvd[s])]

T == INSTANCE Tracker WITH
  Packets <- Skbs, Flows <- Key, CtrlFlows <- CtrlKeys, Capacity <- TEntries,
  pkt <- AbstractPkt, fate <- AbstractFate, flows <- DOMAIN table

(***************************************************************************)
(* The program is a flow tracker: although it looks a flow up and enters   *)
(* it in two steps, with other CPUs, timers and the control plane between  *)
(* them, and ignores whether entering succeeded, every packet is tracked   *)
(* in one step, once, under its own flow, and delivered after that.        *)
(***************************************************************************)
ImplementsTracker == T!Spec
=============================================================================
