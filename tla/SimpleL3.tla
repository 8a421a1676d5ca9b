------------------------------ MODULE SimpleL3 ------------------------------
(***************************************************************************)
(* simple/simple_l3: the destination address of a TCP packet is looked up  *)
(* in nh_table; a hit sets both MAC addresses and the port, a miss drops   *)
(* the packet.                                                             *)
(***************************************************************************)
EXTENDS EthIpv4

CONSTANTS
  Frames,    \* the contents a received packet may have
  Addrs,     \* the destination addresses the control plane may enter
  NextHops   \* [smac, dmac, port]: the entries it may make for them

\* An entry whose action is drop; the others are send_nh(port, smac, dmac).
DropEntry == [smac |-> 0, dmac |-> 0, port |-> 0]

\* The entries of nh_table, by destination address.
NhEntry == [smac : Nat, dmac : Nat, port : Nat \ {0}] \cup {DropEntry}

ASSUME AddrsAssumption == Addrs \subseteq Nat
ASSUME NextHopsAssumption == NextHops \subseteq NhEntry
ASSUME FramesAssumption == Frames \subseteq IpFrame

VARIABLE
  nh         \* nh_table: a function from addresses to next hops

vars == <<pnaVars, nh>>

IP_PROTO_TCP == 6

-----------------------------------------------------------------------------
(* run_parser *)

parse_ipv4(f, md) ==
  CASE TooShort(f, md, Ipv4Len) -> Reject(md, PacketTooShort)
    [] ~TooShort(f, md, Ipv4Len) /\ f.proto = IP_PROTO_TCP -> Accept(ExtractIpv4(md, f))
    [] OTHER -> Reject(ExtractIpv4(md, f), NoError)

start(f, md) ==
  CASE TooShort(f, md, EthLen) -> Reject(md, PacketTooShort)
    [] ~TooShort(f, md, EthLen) /\ load_half(f.etherType) = TYPE_IPV4 -> parse_ipv4(f, ExtractEth(md, f))
    [] OTHER -> Reject(ExtractEth(md, f), NoError)

memset_missing(md) == [eth |-> md.eth, ip |-> md.ip, offset |-> 0]
memset(md) == ZeroIpHdrMd

run_parser(f, md) == start(f, memset(md))

-----------------------------------------------------------------------------
(* process *)

\* nh_table: the action of the entry for the destination address, or drop.
apply_nh_table_stack(t, md, b) ==
  IF md.ip.dst \in DOMAIN t
    THEN [md |-> WithMacs(md, t[md.ip.dst].smac, t[md.ip.dst].dmac), cb |-> send_to_port(b, t[md.ip.dst].port)]
    ELSE [md |-> md, cb |-> b]
apply_nh_table(t, md, b) ==
  IF md.ip.dst \in DOMAIN t /\ t[md.ip.dst] # DropEntry
    THEN [md |-> WithMacs(md, t[md.ip.dst].smac, t[md.ip.dst].dmac), cb |-> send_to_port(b, t[md.ip.dst].port)]
    ELSE [md |-> md, cb |-> drop_packet(b)]

\* The table is applied if there is an IPv4 header and its protocol is TCP.
process(t, f, md, b) ==
  LET r == IF md.ip.valid /\ md.ip.proto = IP_PROTO_TCP
             THEN apply_nh_table(t, md, b) ELSE [md |-> md, cb |-> b]
  IN DeparseIp(f, r.md, r.cb)

-----------------------------------------------------------------------------
Init ==
  /\ PnaInit(NoIpFrame, ZeroIpHdrMd)
  /\ nh = [a \in {} |-> 0]

Receive(s) ==
  /\ \E p \in Ports, f \in Frames : Arrive(s, p, f)
  /\ UNCHANGED nh

Parse(c, s) ==
  /\ TcParseFunc(c, s, run_parser(frame[s], hdrMd[c]))
  /\ UNCHANGED nh

IngressEarly(c) ==
  /\ EarlyReturn(c)
  /\ UNCHANGED nh

\* The rest of tc_ingress_func; the table is read once.
Process(c) ==
  /\ EntersMain(c)
  /\ \E r \in process(nh, RestoreEtherType(frame[cur[c]]), hdrMd[c], cb[cur[c]]) : Return(c, r)
  /\ UNCHANGED nh

\* The control plane enters or replaces an entry, or deletes one.
CtrlPlane(a) ==
  /\ \/ \E n \in NextHops : nh' = [x \in DOMAIN nh \cup {a} |-> IF x = a THEN n ELSE nh[x]]
     \/ a \in DOMAIN nh /\ nh' = [x \in DOMAIN nh \ {a} |-> nh[x]]
  /\ UNCHANGED pnaVars

Main(c) == IngressEarly(c) \/ Process(c)

Next ==
  \/ \E s \in Skbs : Receive(s)
  \/ \E c \in Cpus, s \in Skbs : Parse(c, s)
  \/ \E c \in Cpus : Main(c)
  \/ \E a \in Addrs : CtrlPlane(a)

Spec == Init /\ [][Next]_vars

-----------------------------------------------------------------------------
(* Properties *)

\* The values the variables take.
TypeOK ==
  /\ loc \in [Skbs -> Locs]
  /\ port \in [Skbs -> Nat]
  /\ frame \in [Skbs -> IpFrame]
  /\ cb \in [Skbs -> Cb]
  /\ pc \in [Cpus -> {"idle", "main"}]
  /\ cur \in [Cpus -> Skbs \cup {NoSkb}]
  /\ hdrMd \in [Cpus -> IpHdrMd]
  /\ rcvd \in [Skbs -> IpFrame]
  /\ DOMAIN nh \subseteq Addrs /\ nh \in [DOMAIN nh -> NextHops]

(***************************************************************************)
(* A packet is sent only by the entry its own destination address has in   *)
(* the table at that moment, and only if it is TCP, with exactly the two   *)
(* MAC addresses changed.                                                  *)
(***************************************************************************)
IsTcp(f) == Complete(f) /\ f.proto = IP_PROTO_TCP

SentByOwnEntry ==
  [][\A s \in Skbs : loc[s] # "sent" /\ loc'[s] = "sent" =>
       LET a == rcvd[s].dst
       IN /\ IsTcp(rcvd[s]) /\ a \in DOMAIN nh /\ nh[a] # DropEntry
          /\ cb'[s].egress_port = nh[a].port
          /\ frame'[s] = [rcvd[s] EXCEPT !.smac = nh[a].smac, !.dmac = nh[a].dmac]]_vars

(***************************************************************************)
(* Whole TCP packets never reach the stack, neither on a miss nor with an  *)
(* entry being replaced: they are sent or dropped.                         *)
(***************************************************************************)
TcpNeverToStack ==
  \A s \in Skbs : loc[s] = "stack" => ~IsTcp(rcvd[s]) /\ frame[s] = rcvd[s]
=============================================================================
