-------------------------------- MODULE Ipip --------------------------------
(***************************************************************************)
(* tunnels/ipip: fwd_table, keyed by the device a packet came in on, says  *)
(* whether the packet is put in an IP-in-IP tunnel (set_ipip), forwarded   *)
(* (set_nh) or dropped; a packet that is in a tunnel has its outer header  *)
(* taken off.  Pushing or popping a header moves the payload.              *)
(*                                                                         *)
(* Abstraction: version, ihl, diffserv, identification, flags and          *)
(* fragOffset of an IPv4 header, which are copied unread, are one word of  *)
(* the checksum (other); the source MAC address is left out.               *)
(***************************************************************************)
EXTENDS Pna, InternetChecksum, Sequences

CONSTANTS
  Frames,    \* the contents a received packet may have
  Entries    \* the entries of fwd_table the control plane may make

\* An IPv4 address: two 16-bit words.
Addr == {a \in Nat : a \div 65536 \in U16}

\* set_ipip(src, dst, port), set_nh(dmac, port), drop.
Entry == [action : {"set_ipip", "set_nh", "drop"}, src : Addr, dst : Addr, dmac : Nat, port : Nat]

DropEntry == [action |-> "drop", src |-> 0, dst |-> 0, dmac |-> 0, port |-> 0]

ASSUME EntriesAssumption ==
  Entries \subseteq Entry /\ \A e \in Entries : e.action # "drop" => e.port > 0

VARIABLE
  fwd        \* fwd_table: a function from ports to entries

vars == <<pnaVars, fwd>>

IPIP_PROTO == 4

-----------------------------------------------------------------------------
\* An IPv4 header as it lies in the packet, and as it is parsed.
WireIp == [other : U16, totalLen : Half, ttl : Byte, proto : Byte, chk : Half, src : Addr, dst : Addr]

Ipv4 == [valid : BOOLEAN, other : U16, totalLen : U16, ttl : Byte, proto : Byte, chk : U16,
         src : Addr, dst : Addr]

ZeroWireIp == [other |-> 0, totalLen |-> <<0, 0>>, ttl |-> 0, proto |-> 0, chk |-> <<0, 0>>,
               src |-> 0, dst |-> 0]

ZeroIpv4 == [valid |-> FALSE, other |-> 0, totalLen |-> 0, ttl |-> 0, proto |-> 0, chk |-> 0,
             src |-> 0, dst |-> 0]

\* The contents of a packet: what follows the Ethernet header is as many IPv4
\* headers as ips says, the last of them cut off by the packet's end perhaps,
\* and a payload.
Frame == [len : Nat, md : Half \cup {NoMd}, dmac : Nat, etherType : Half, ips : Seq(WireIp)]

HeadersThere(f) ==
  /\ f.len >= EthLen + Ipv4Len => Len(f.ips) >= 1
  /\ f.len >= EthLen + 2 * Ipv4Len /\ f.ips[1].proto = IPIP_PROTO => Len(f.ips) >= 2

ASSUME FramesAssumption == \A f \in Frames : f \in Frame /\ HeadersThere(f)

NoFrame == [len |-> 0, md |-> NoMd, dmac |-> 0, etherType |-> <<0, 0>>, ips |-> <<>>]

\* struct hdr_md: headers_t, metadata_t and the parser's offset.
HdrMd == [eth : [valid : BOOLEAN, dmac : Nat, etherType : U16], outer : Ipv4, inner : Ipv4,
          meta : [src : Addr, dst : Addr, push : BOOLEAN], offset : Nat]

ZeroHdrMd == [eth |-> [valid |-> FALSE, dmac |-> 0, etherType |-> 0],
              outer |-> ZeroIpv4, inner |-> ZeroIpv4,
              meta |-> [src |-> 0, dst |-> 0, push |-> FALSE], offset |-> 0]

-----------------------------------------------------------------------------
(* run_parser *)

\* extract() of an IPv4 header.
Extract(w) == [valid |-> TRUE, other |-> w.other, totalLen |-> load_half(w.totalLen), ttl |-> w.ttl,
               proto |-> w.proto, chk |-> load_half(w.chk), src |-> w.src, dst |-> w.dst]

WithEth(md, f) ==
  [eth |-> [valid |-> TRUE, dmac |-> f.dmac, etherType |-> load_half(f.etherType)],
   outer |-> md.outer, inner |-> md.inner, meta |-> md.meta, offset |-> md.offset + EthLen]

WithOuter(md, w) ==
  [eth |-> md.eth, outer |-> Extract(w), inner |-> md.inner, meta |-> md.meta,
   offset |-> md.offset + Ipv4Len]

WithInner(md, w) ==
  [eth |-> md.eth, outer |-> md.outer, inner |-> Extract(w), meta |-> md.meta,
   offset |-> md.offset + Ipv4Len]

parse_ipv4_inner(f, md) ==
  IF TooShort(f, md, Ipv4Len) THEN Reject(md, PacketTooShort) ELSE Accept(WithInner(md, f.ips[2]))

parse_ipv4(f, md) ==
  LET parsed == WithOuter(md, f.ips[1])
  IN CASE TooShort(f, md, Ipv4Len) -> Reject(md, PacketTooShort)
       [] ~TooShort(f, md, Ipv4Len) /\ f.ips[1].proto = IPIP_PROTO -> parse_ipv4_inner(f, parsed)
       [] OTHER -> Accept(parsed)

start(f, md) ==
  LET parsed == WithEth(md, f)
  IN CASE TooShort(f, md, EthLen) -> Reject(md, PacketTooShort)
       [] ~TooShort(f, md, EthLen) /\ load_half(f.etherType) = TYPE_IPV4 -> parse_ipv4(f, parsed)
       [] OTHER -> Reject(parsed, NoError)

\* The map, which still holds the last packet's headers, is zeroed first.
memset_missing(md) == [md EXCEPT !.offset = 0]
memset(md) == ZeroHdrMd

run_parser(f, md) == start(f, memset(md))

-----------------------------------------------------------------------------
(* The main block *)

\* The entry of a port, or the default action.
EntryOf(t, p) == IF p \in DOMAIN t THEN t[p] ELSE DropEntry

set_ipip(md, e) == [md EXCEPT !.meta = [src |-> e.src, dst |-> e.dst, push |-> TRUE]]

set_nh(md, e) ==
  [md EXCEPT !.eth = [valid |-> md.eth.valid, dmac |-> e.dmac, etherType |-> md.eth.etherType]]

apply_fwd_table(t, p, md, b) ==
  LET e == EntryOf(t, p)
  IN CASE e.action = "set_ipip" -> [md |-> set_ipip(md, e), cb |-> send_to_port(b, e.port)]
       [] e.action = "set_nh" -> [md |-> set_nh(md, e), cb |-> send_to_port(b, e.port)]
       [] e.action = "drop" -> [md |-> md, cb |-> drop_packet(b)]

\* The outer header of a packet in a tunnel is made invalid.
PopNever(md) == md
Pop(md) == IF md.inner.valid THEN [md EXCEPT !.outer = [md.outer EXCEPT !.valid = FALSE]] ELSE md

MainBlock(t, p, md, b) ==
  IF ~md.outer.valid THEN [md |-> md, cb |-> b]
  ELSE LET r == apply_fwd_table(t, p, md, b) IN [md |-> Pop(r.md), cb |-> r.cb]

-----------------------------------------------------------------------------
(* The deparser *)

\* The new outer header: that of the packet but for addresses, ttl, protocol
\* and length.
PushedOuter(ip, meta, proto) ==
  [valid |-> ip.valid, other |-> ip.other, totalLen |-> (ip.totalLen + 20) % 65536, ttl |-> 64,
   proto |-> proto, chk |-> 0, src |-> meta.src, dst |-> meta.dst]

\* The old outer header becomes the inner one.
ipip_push_no_proto(md) ==
  [eth |-> md.eth, outer |-> PushedOuter(md.outer, md.meta, md.outer.proto), inner |-> md.outer,
   meta |-> md.meta, offset |-> md.offset]
ipip_push(md) ==
  [eth |-> md.eth, outer |-> PushedOuter(md.outer, md.meta, IPIP_PROTO), inner |-> md.outer,
   meta |-> md.meta, offset |-> md.offset]

TtlWord(ip) == ip.ttl * 256 + ip.proto

\* ip_checksum: the words but the checksum, added up one by one from 0.
ip_checksum(ip) ==
  LET rest == csum16_add(csum16_add(csum16_add(0, ip.other), ip.totalLen), TtlWord(ip))
      src  == csum16_add(csum16_add(rest, ip.src \div 65536), ip.src % 65536)
      dst  == csum16_add(csum16_add(src, ip.dst \div 65536), ip.dst % 65536)
  IN [ip EXCEPT !.chk = not16(dst)]

\* ip_ttl_dec: HC' = ~(~HC + ~m + m'); the ttl wraps from 0 to 255.
ip_ttl_dec(ip) ==
  LET dec == [ip EXCEPT !.ttl = (ip.ttl + 255) % 256]
  IN [dec EXCEPT !.chk = not16(csum16_add(csum16_sub(not16(ip.chk), TtlWord(ip)), TtlWord(dec)))]

Push(md) ==
  LET pushed == ipip_push(md)
  IN [eth |-> md.eth, outer |-> ip_checksum(pushed.outer), inner |-> ip_ttl_dec(pushed.inner),
      meta |-> md.meta, offset |-> md.offset]

OutHeaderLength(md) ==
  (IF md.eth.valid THEN EthLen ELSE 0) + (IF md.outer.valid THEN Ipv4Len ELSE 0)
    + (IF md.inner.valid THEN Ipv4Len ELSE 0)

(***************************************************************************)
(* bpf_skb_adjust_room in mode BPF_ADJ_ROOM_MAC makes its change just      *)
(* behind the Ethernet header.  Here it is by one IPv4 header at most.     *)
(***************************************************************************)
MovePayload(f, n) ==
  CASE n > 0 -> [f EXCEPT !.ips = <<ZeroWireIp>> \o f.ips]
    [] n < 0 -> [f EXCEPT !.ips = Tail(f.ips)]
    [] n = 0 -> f

ToWire(ip) == [other |-> ip.other, totalLen |-> emit_half(ip.totalLen), ttl |-> ip.ttl,
               proto |-> ip.proto, chk |-> emit_half(ip.chk), src |-> ip.src, dst |-> ip.dst]

WriteEth(f, e) ==
  [len |-> f.len, md |-> f.md, dmac |-> IF e.valid THEN e.dmac ELSE f.dmac,
   etherType |-> IF e.valid THEN emit_half(e.etherType) ELSE f.etherType, ips |-> f.ips]

\* The valid headers are written one after the other, over what is there.
ValidIps(md) ==
  (IF md.outer.valid THEN <<ToWire(md.outer)>> ELSE <<>>)
    \o (IF md.inner.valid THEN <<ToWire(md.inner)>> ELSE <<>>)

Over(ips, hs) == [i \in DOMAIN ips |-> IF i <= Len(hs) THEN hs[i] ELSE ips[i]]

WriteIps(f, md) == [f EXCEPT !.ips = Over(f.ips, ValidIps(md))]

Emit(f, md, b) ==
  IF f.len < OutHeaderLength(md)
    THEN [ret |-> TC_ACT_SHOT, frame |-> f, cb |-> b, md |-> md]
    ELSE [ret |-> Continue, frame |-> WriteIps(WriteEth(f, md.eth), md), cb |-> b, md |-> md]

Deparse(f, parsed, b) ==
  LET md == IF parsed.meta.push /\ parsed.outer.valid THEN Push(parsed) ELSE parsed
      n  == OutHeaderLength(md) - md.offset
  IN IF b.drop
       THEN {[ret |-> TC_ACT_SHOT, frame |-> f, cb |-> b, md |-> md]}
       ELSE {IF r.ret = TC_ACT_SHOT
               THEN [ret |-> TC_ACT_SHOT, frame |-> r.frame, cb |-> b, md |-> md]
               ELSE Emit(MovePayload(r.frame, n), md, b) : r \in adjust_room(f, n)}

process(t, p, f, md, b) ==
  LET r == MainBlock(t, p, md, b) IN Deparse(f, r.md, r.cb)

-----------------------------------------------------------------------------
Init ==
  /\ PnaInit(NoFrame, ZeroHdrMd)
  /\ fwd = [p \in {} |-> DropEntry]

Receive(s) ==
  /\ \E p \in Ports, f \in Frames : Arrive(s, p, f)
  /\ UNCHANGED fwd

Parse(c, s) ==
  /\ TcParseFunc(c, s, run_parser(frame[s], hdrMd[c]))
  /\ UNCHANGED fwd

IngressEarly(c) ==
  /\ EarlyReturn(c)
  /\ UNCHANGED fwd

\* The rest of tc_ingress_func; the table is read once.
Process(c) ==
  /\ EntersMain(c)
  /\ \E r \in process(fwd, port[cur[c]], RestoreEtherType(frame[cur[c]]), hdrMd[c], cb[cur[c]]) :
       Return(c, r)
  /\ UNCHANGED fwd

\* The control plane enters or replaces an entry, or deletes one.
CtrlPlane(p) ==
  /\ \/ \E e \in Entries : fwd' = [q \in DOMAIN fwd \cup {p} |-> IF q = p THEN e ELSE fwd[q]]
     \/ p \in DOMAIN fwd /\ fwd' = [q \in DOMAIN fwd \ {p} |-> fwd[q]]
  /\ UNCHANGED pnaVars

Main(c) == IngressEarly(c) \/ Process(c)

Next ==
  \/ \E s \in Skbs : Receive(s)
  \/ \E c \in Cpus, s \in Skbs : Parse(c, s)
  \/ \E c \in Cpus : Main(c)
  \/ \E p \in Ports : CtrlPlane(p)

Spec == Init /\ [][Next]_vars

-----------------------------------------------------------------------------
(* Properties *)

\* The values the variables take.
TypeOK ==
  /\ loc \in [Skbs -> Locs]
  /\ port \in [Skbs -> Nat]
  /\ \A s \in Skbs : {frame[s], rcvd[s]} \subseteq Frame
  /\ cb \in [Skbs -> Cb]
  /\ pc \in [Cpus -> {"idle", "main"}]
  /\ cur \in [Cpus -> Skbs \cup {NoSkb}]
  /\ hdrMd \in [Cpus -> HdrMd]
  /\ DOMAIN fwd \subseteq Ports /\ fwd \in [DOMAIN fwd -> Entries \cup {DropEntry}]

\* A packet with an IPv4 header, and one with a second header in the first.
IsIpv4(f) == f.len >= EthLen + Ipv4Len /\ f.etherType = <<8, 0>>

InTunnel(f) == IsIpv4(f) /\ f.ips[1].proto = IPIP_PROTO /\ f.len >= EthLen + 2 * Ipv4Len

\* The words of a header as they lie in the packet sum up to all ones.
AddrWords(a) == (a \div 65536) + (a % 65536)

WordSum(w) ==
  w.other + load_half(w.totalLen) + TtlWord(w) + AddrWords(w.src) + AddrWords(w.dst) + load_half(w.chk)

ChecksumRight(w) == WordSum(w) # 0 /\ WordSum(w) % 65535 = 0

(***************************************************************************)
(* w is v after one hop: the ttl is one less, and the checksum is right if *)
(* it was.  (The exception are headers of zeros, which have no version:    *)
(* their sum is 0, which is wrong, and the update makes it all ones.)      *)
(***************************************************************************)
OneHop(v, w) ==
  /\ w = [other |-> v.other, totalLen |-> v.totalLen, ttl |-> (v.ttl + 255) % 256, proto |-> v.proto,
          chk |-> w.chk, src |-> v.src, dst |-> v.dst]
  /\ v.other # 0 => (ChecksumRight(w) <=> ChecksumRight(v))

\* The packet f with other contents behind the Ethernet header.
Carrying(f, len, dmac, ips) ==
  [len |-> len, md |-> f.md, dmac |-> dmac, etherType |-> f.etherType, ips |-> ips]

(***************************************************************************)
(* A packet out of a tunnel leaves exactly as the packet inside, whatever  *)
(* its entry says (one that asks for a tunnel included): nothing but the   *)
(* outer header and, by set_nh, the destination MAC address is different.  *)
(***************************************************************************)
LeavesTunnelWhole ==
  \A s \in Skbs : loc[s] = "sent" /\ InTunnel(rcvd[s]) =>
    frame[s] = Carrying(rcvd[s], rcvd[s].len - Ipv4Len, frame[s].dmac, Tail(rcvd[s].ips))

(***************************************************************************)
(* A packet that enters a tunnel has a new header in front, made from the  *)
(* entry of its own port, with a right checksum and a length 20 more than  *)
(* that of the packet inside, which has made one hop and is whole.         *)
(***************************************************************************)
Tunnelled(r, f, e) ==
  LET was == r.ips[1]
      out == f.ips[1]
  IN /\ out.src = e.src /\ out.dst = e.dst
     /\ out.proto = IPIP_PROTO /\ ChecksumRight(out)
     /\ load_half(was.totalLen) <= 65515 => load_half(out.totalLen) = load_half(was.totalLen) + Ipv4Len
     /\ OneHop(was, f.ips[2])
     /\ f = Carrying(r, r.len + Ipv4Len, r.dmac, <<out, f.ips[2]>> \o Tail(r.ips))

EntersTunnelWhole ==
  [][\A s \in Skbs :
       loc[s] = "cpu" /\ loc'[s] = "sent" /\ EntryOf(fwd, port[s]).action = "set_ipip" /\ ~InTunnel(rcvd[s])
         => Tunnelled(rcvd[s], frame'[s], fwd[port[s]])]_vars

(***************************************************************************)
(* The two ends of a tunnel meet: what this program sent into a tunnel,    *)
(* given to the program again on a port with a set_nh entry, is the packet *)
(* received, one hop older.                                                *)
(***************************************************************************)
EndNh == [action |-> "set_nh", src |-> 0, dst |-> 0, dmac |-> 99, port |-> 1]

EndsMeet ==
  \A s \in Skbs : loc[s] = "sent" /\ frame[s].len > rcvd[s].len =>
    LET md == run_parser(frame[s], ZeroHdrMd).md
    IN \A r \in process([p \in {1} |-> EndNh], 1, frame[s], md, ZeroCb) :
         r.ret = Continue =>
           /\ OneHop(rcvd[s].ips[1], r.frame.ips[1])
           /\ r.frame = Carrying(rcvd[s], rcvd[s].len, 99, <<r.frame.ips[1]>> \o Tail(rcvd[s].ips))
=============================================================================
