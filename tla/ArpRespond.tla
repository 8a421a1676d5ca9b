----------------------------- MODULE ArpRespond -----------------------------
(***************************************************************************)
(* arp_responder: the address an ARP request asks for is looked up in      *)
(* arp_table; on a hit the request is turned into the reply in place and   *)
(* goes back to where it came from, on a miss it is dropped.  The table is *)
(* applied to every packet the parser lets through, with the zero of the   *)
(* map as the key of one that is no request.                               *)
(*                                                                         *)
(* Abstraction: htype, ptype, hlen and plen, which are copied unread, are  *)
(* left out.                                                               *)
(***************************************************************************)
EXTENDS Pna

CONSTANTS
  Frames,    \* the contents a received packet may have
  Addrs,     \* the addresses the control plane may enter
  Rmacs      \* the MAC addresses it may give them: entries arp_reply(rmac)

DropEntry == 0   \* an entry whose action is drop

\* The entries of arp_table, by the address asked for.
ArpEntry == Nat

ASSUME AddrsAssumption == Addrs \subseteq Nat
ASSUME RmacsAssumption == Rmacs \subseteq ArpEntry \ {DropEntry}

VARIABLE
  arp        \* arp_table: a function from addresses to entries

vars == <<pnaVars, arp>>

ArpLen     == 8
ArpIpv4Len == 20

ETHERTYPE_ARP == 2054 \* 0x806
ARP_REQ   == 1
ARP_REPLY == 2

-----------------------------------------------------------------------------
\* The contents of a packet that is as long as len; fields behind its end
\* have no meaning.
Frame == [len : Nat, md : Half \cup {NoMd}, dmac : Nat, smac : Nat, etherType : Half,
          oper : Half, sha : Nat, spa : Nat, tha : Nat, tpa : Nat]

ASSUME FramesAssumption == Frames \subseteq Frame

NoFrame == [len |-> 0, md |-> NoMd, dmac |-> 0, smac |-> 0, etherType |-> <<0, 0>>,
            oper |-> <<0, 0>>, sha |-> 0, spa |-> 0, tha |-> 0, tpa |-> 0]

\* struct hdr_md.
HdrMd == [eth : [valid : BOOLEAN, dmac : Nat, smac : Nat, etherType : U16],
          arp : [valid : BOOLEAN, oper : U16],
          arp_ipv4 : [valid : BOOLEAN, sha : Nat, spa : Nat, tha : Nat, tpa : Nat],
          offset : Nat]

ZeroHdrMd == [eth |-> [valid |-> FALSE, dmac |-> 0, smac |-> 0, etherType |-> 0],
              arp |-> [valid |-> FALSE, oper |-> 0],
              arp_ipv4 |-> [valid |-> FALSE, sha |-> 0, spa |-> 0, tha |-> 0, tpa |-> 0],
              offset |-> 0]

-----------------------------------------------------------------------------
(* run_parser *)

WithEth(md, f) ==
  [eth |-> [valid |-> TRUE, dmac |-> f.dmac, smac |-> f.smac, etherType |-> load_half(f.etherType)],
   arp |-> md.arp, arp_ipv4 |-> md.arp_ipv4, offset |-> md.offset + EthLen]

WithArp(md, f) ==
  [eth |-> md.eth, arp |-> [valid |-> TRUE, oper |-> load_half(f.oper)],
   arp_ipv4 |-> md.arp_ipv4, offset |-> md.offset + ArpLen]

WithArpIpv4(md, f) ==
  [eth |-> md.eth, arp |-> md.arp,
   arp_ipv4 |-> [valid |-> TRUE, sha |-> f.sha, spa |-> f.spa, tha |-> f.tha, tpa |-> f.tpa],
   offset |-> md.offset + ArpIpv4Len]

\* Two headers are extracted, one after the other; the packet may end in
\* either.
parse_arp(f, md) ==
  LET one == WithArp(md, f)
      two == WithArpIpv4(one, f)
  IN CASE TooShort(f, md, ArpLen) -> Reject(md, PacketTooShort)
       [] ~TooShort(f, md, ArpLen) /\ TooShort(f, one, ArpIpv4Len) -> Reject(one, PacketTooShort)
       [] ~TooShort(f, one, ArpIpv4Len) /\ two.arp.oper = ARP_REQ -> Accept(two)
       [] ~TooShort(f, one, ArpIpv4Len) /\ two.arp.oper # ARP_REQ -> Reject(two, NoError)

\* A packet of another type is accepted.
start(f, md) ==
  LET parsed == WithEth(md, f)
  IN CASE TooShort(f, md, EthLen) -> Reject(md, PacketTooShort)
       [] ~TooShort(f, md, EthLen) /\ parsed.eth.etherType = ETHERTYPE_ARP -> parse_arp(f, parsed)
       [] ~TooShort(f, md, EthLen) /\ parsed.eth.etherType # ETHERTYPE_ARP -> Accept(parsed)

memset_missing(md) == [md EXCEPT !.offset = 0]
memset(md) == ZeroHdrMd

run_parser(f, md) == start(f, memset(md))

-----------------------------------------------------------------------------
(* process *)

\* The addresses trade places and the reply's own one is rmac; the headers
\* are changed whether they are valid or not.
WithReply(md, oper, rmac) ==
  [eth |-> [valid |-> md.eth.valid, dmac |-> md.eth.smac, smac |-> rmac, etherType |-> md.eth.etherType],
   arp |-> [valid |-> md.arp.valid, oper |-> oper],
   arp_ipv4 |-> [valid |-> md.arp_ipv4.valid, sha |-> rmac, spa |-> md.arp_ipv4.tpa,
                 tha |-> md.arp_ipv4.sha, tpa |-> md.arp_ipv4.tpa],
   offset |-> md.offset]

arp_reply_keeps_oper(md, rmac) == WithReply(md, md.arp.oper, rmac)
arp_reply(md, rmac) == WithReply(md, ARP_REPLY, rmac)

\* arp_table, p being the device the packet came in on.
apply_arp_table_stack(t, p, md, b) ==
  LET a == md.arp_ipv4.tpa
  IN IF a \in DOMAIN t /\ t[a] # DropEntry
       THEN [md |-> arp_reply(md, t[a]), cb |-> send_to_port(b, p)]
       ELSE [md |-> md, cb |-> b]
apply_arp_table(t, p, md, b) ==
  LET a == md.arp_ipv4.tpa
  IN IF a \in DOMAIN t /\ t[a] # DropEntry
       THEN [md |-> arp_reply(md, t[a]), cb |-> send_to_port(b, p)]
       ELSE [md |-> md, cb |-> drop_packet(b)]

OutHeaderLength(md) ==
  (IF md.eth.valid THEN EthLen ELSE 0) + (IF md.arp.valid THEN ArpLen ELSE 0)
    + (IF md.arp_ipv4.valid THEN ArpIpv4Len ELSE 0)

WriteHeaders(f, md) ==
  LET e == md.eth
      a == md.arp_ipv4
  IN [len |-> f.len, md |-> f.md,
      dmac |-> IF e.valid THEN e.dmac ELSE f.dmac,
      smac |-> IF e.valid THEN e.smac ELSE f.smac,
      etherType |-> IF e.valid THEN emit_half(e.etherType) ELSE f.etherType,
      oper |-> IF md.arp.valid THEN emit_half(md.arp.oper) ELSE f.oper,
      sha |-> IF a.valid THEN a.sha ELSE f.sha,
      spa |-> IF a.valid THEN a.spa ELSE f.spa,
      tha |-> IF a.valid THEN a.tha ELSE f.tha,
      tpa |-> IF a.valid THEN a.tpa ELSE f.tpa]

Emit(f, md, b) ==
  IF f.len < OutHeaderLength(md)
    THEN [ret |-> TC_ACT_SHOT, frame |-> f, cb |-> b, md |-> md]
    ELSE [ret |-> Continue, frame |-> WriteHeaders(f, md), cb |-> b, md |-> md]

\* (What the deparser leaves in the map is not read before it is zeroed.)
Deparse(f, md, b) ==
  IF b.drop
    THEN {[ret |-> TC_ACT_SHOT, frame |-> f, cb |-> b, md |-> md]}
    ELSE {IF r.ret = TC_ACT_SHOT
            THEN [ret |-> TC_ACT_SHOT, frame |-> r.frame, cb |-> b, md |-> md]
            ELSE Emit(r.frame, md, b) : r \in adjust_room(f, OutHeaderLength(md) - md.offset)}

process(t, p, f, md, b) ==
  LET r == apply_arp_table(t, p, md, b) IN Deparse(f, r.md, r.cb)

-----------------------------------------------------------------------------
Init ==
  /\ PnaInit(NoFrame, ZeroHdrMd)
  /\ arp = [a \in {} |-> DropEntry]

Receive(s) ==
  /\ \E p \in Ports, f \in Frames : Arrive(s, p, f)
  /\ UNCHANGED arp

Parse(c, s) ==
  /\ TcParseFunc(c, s, run_parser(frame[s], hdrMd[c]))
  /\ UNCHANGED arp

IngressEarly(c) ==
  /\ EarlyReturn(c)
  /\ UNCHANGED arp

\* The rest of tc_ingress_func; the table is read once.
Process(c) ==
  /\ EntersMain(c)
  /\ \E r \in process(arp, port[cur[c]], RestoreEtherType(frame[cur[c]]), hdrMd[c], cb[cur[c]]) :
       Return(c, r)
  /\ UNCHANGED arp

\* The control plane enters or replaces an entry, or deletes one.
CtrlPlane(a) ==
  /\ \/ \E m \in Rmacs \cup {DropEntry} :
          arp' = [x \in DOMAIN arp \cup {a} |-> IF x = a THEN m ELSE arp[x]]
     \/ a \in DOMAIN arp /\ arp' = [x \in DOMAIN arp \ {a} |-> arp[x]]
  /\ UNCHANGED pnaVars

Main(c) == IngressEarly(c) \/ Process(c)

Next ==
  \/ \E s \in Skbs : Receive(s)
  \/ \E c \in Cpus, s \in Skbs : Parse(c, s)
  \/ \E c \in Cpus : Main(c)
  \/ \E a \in Addrs : CtrlPlane(a)

Spec == Init /\ [][Next]_vars

-----------------------------------------------------------------------------
(* Properties *)

\* The values the variables take.
TypeOK ==
  /\ loc \in [Skbs -> Locs]
  /\ port \in [Skbs -> Nat]
  /\ frame \in [Skbs -> Frame]
  /\ cb \in [Skbs -> Cb]
  /\ pc \in [Cpus -> {"idle", "main"}]
  /\ cur \in [Cpus -> Skbs \cup {NoSkb}]
  /\ hdrMd \in [Cpus -> HdrMd]
  /\ rcvd \in [Skbs -> Frame]
  /\ DOMAIN arp \subseteq Addrs /\ arp \in [DOMAIN arp -> Rmacs \cup {DropEntry}]

\* A packet with an Ethernet header; an ARP packet, and a whole one.
HasEth(f)   == f.len >= EthLen
IsArp(f)    == HasEth(f) /\ f.etherType = <<8, 6>>
WholeArp(f) == IsArp(f) /\ f.len >= EthLen + ArpLen + ArpIpv4Len

\* The reply to f, or what becomes of a packet answered by the entry of
\* 0.0.0.0 without being a request.
Answer(f, rmac) ==
  [len |-> f.len, md |-> f.md, etherType |-> f.etherType, tpa |-> f.tpa,
   dmac |-> IF HasEth(f) THEN f.smac ELSE f.dmac,
   smac |-> IF HasEth(f) THEN rmac ELSE f.smac,
   oper |-> IF IsArp(f) /\ f.len >= EthLen + ArpLen THEN <<0, 2>> ELSE f.oper,
   tha |-> IF WholeArp(f) THEN f.sha ELSE f.tha,
   sha |-> IF WholeArp(f) THEN rmac ELSE f.sha,
   spa |-> IF WholeArp(f) THEN f.tpa ELSE f.spa]

(***************************************************************************)
(* What is sent goes back to the port it came from, answered by the entry  *)
(* that the address it asks for has at that moment; only an entry for      *)
(* 0.0.0.0 answers packets that are no whole ARP packets.                  *)
(***************************************************************************)
AnsweredByOwnEntry ==
  [][\A s \in Skbs : loc[s] # "sent" /\ loc'[s] = "sent" =>
       LET a == IF WholeArp(rcvd[s]) THEN rcvd[s].tpa ELSE 0
       IN /\ a \in DOMAIN arp /\ arp[a] # DropEntry
          /\ WholeArp(rcvd[s]) => rcvd[s].oper = <<0, 1>>
          /\ cb'[s].egress_port = port[s]
          /\ frame'[s] = Answer(rcvd[s], arp[a])]_vars

(***************************************************************************)
(* Two responders on one wire do not answer each other for ever: a reply   *)
(* this program sends is dropped by the parser of this program.            *)
(***************************************************************************)
RepliesNotAnswered ==
  \A s \in Skbs : loc[s] = "sent" /\ WholeArp(rcvd[s]) =>
    run_parser(frame[s], ZeroHdrMd).ret = TC_ACT_SHOT

(***************************************************************************)
(* README.md:5-7 of the program: on a hit an ARP packet that the parser    *)
(* lets through is answered, on a miss it is dropped, both by the table as *)
(* it stands at that moment.  None is left to the stack or sent round by   *)
(* its own ingress, not even one that ends inside its headers.             *)
(***************************************************************************)
ArpFollowsTable ==
  [][\A s \in Skbs : loc[s] = "cpu" /\ IsArp(rcvd[s]) =>
       LET a == IF WholeArp(rcvd[s]) THEN rcvd[s].tpa ELSE 0
       IN loc'[s] \in {"cpu", IF a \in DOMAIN arp /\ arp[a] # DropEntry THEN "sent" ELSE "dropped"}]_vars

(***************************************************************************)
(* README.md:3-4 of the program, "Any other packets are allowed to go up   *)
(* the stack": a packet of another type is neither dropped nor sent.  The  *)
(* code does not keep this: the parser lets such a packet through, and     *)
(* arp_table, which is applied to it too, drops what it does not have.     *)
(***************************************************************************)
OthersToStack ==
  \A s \in Skbs : HasEth(rcvd[s]) /\ ~IsArp(rcvd[s]) => loc[s] \notin {"dropped", "sent"}
=============================================================================
