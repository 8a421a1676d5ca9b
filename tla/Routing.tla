------------------------------ MODULE Routing -------------------------------
(***************************************************************************)
(* routing: an IPv4 packet is looked up in fib_table (longest prefix of    *)
(* the destination) for the index of its next hop, the index in nh_table   *)
(* for MAC address and port; the deparser decrements the ttl and updates   *)
(* the checksum.                                                           *)
(*                                                                         *)
(* The two lookups are two calls into the kernel: the control plane may    *)
(* change either table in between.                                         *)
(***************************************************************************)
EXTENDS EthIpv4, InternetChecksum

CONSTANTS
  Frames,     \* the contents a received packet may have
  Prefixes,   \* the prefixes the control plane may enter in fib_table, each
              \* the set of addresses it covers and its length
  Indices,    \* the indices of next hops it may enter
  NextHops    \* the entries of nh_table it may enter

\* An entry of nh_table whose action is drop; the others are set_nh(dmac, port).
DropEntry == [dmac |-> 0, port |-> 0]

\* A key of fib_table, under which it has set_nhid(index), and the entries of
\* nh_table.
Prefix  == [addrs : SUBSET Nat, len : 0 .. 32]
NhEntry == [dmac : Nat, port : Nat \ {0}] \cup {DropEntry}

ASSUME PrefixesAssumption ==
  /\ Prefixes \subseteq Prefix
  /\ \A p, q \in Prefixes : p # q /\ p.len = q.len => p.addrs \cap q.addrs = {}
ASSUME IndicesAssumption == Indices \subseteq Nat
ASSUME NextHopsAssumption == NextHops \subseteq NhEntry
ASSUME FramesAssumption == Frames \subseteq IpFrame

VARIABLES
  fib,      \* fib_table: a function from prefixes to indices
  nh,       \* nh_table: a function from indices to next hops
  nhIndex   \* [Cpus -> nh_index_0, a variable of process()]

vars == <<pnaVars, fib, nh, nhIndex>>

-----------------------------------------------------------------------------
(* run_parser *)

parse_ipv4(f, md) ==
  IF TooShort(f, md, Ipv4Len) THEN Reject(md, PacketTooShort) ELSE Accept(ExtractIpv4(md, f))

start(f, md) ==
  CASE TooShort(f, md, EthLen) -> Reject(md, PacketTooShort)
    [] ~TooShort(f, md, EthLen) /\ load_half(f.etherType) = TYPE_IPV4 -> parse_ipv4(f, ExtractEth(md, f))
    [] OTHER -> Reject(ExtractEth(md, f), NoError)

\* The map, which still holds the last packet's headers, is zeroed first.
memset_missing(md) == [eth |-> md.eth, ip |-> md.ip, offset |-> 0]
memset(md) == ZeroIpHdrMd

run_parser(f, md) == start(f, memset(md))

-----------------------------------------------------------------------------
(* process *)

\* hdr.ip.isValid() && hdr.ip.ttl > 1
IsRoutableStrict(md) == md.ip.valid /\ md.ip.ttl > 2
IsRoutable(md) == md.ip.valid /\ md.ip.ttl > 1

fib_lookup_any(t, a) ==
  LET matching == {p \in DOMAIN t : a \in p.addrs}
  IN IF matching = {} THEN 0 ELSE t[CHOOSE p \in matching : \A q \in matching : q.len >= p.len]

\* fib_table: the action of the longest prefix that matches, or set_nhid(0).
fib_lookup(t, a) ==
  LET matching == {p \in DOMAIN t : a \in p.addrs}
  IN IF matching = {} THEN 0
     ELSE t[CHOOSE p \in matching : \A q \in matching : q.len <= p.len]

\* nh_table: the action of the entry, or drop.
nh_lookup_NoAction(t, i, md, b) ==
  IF i \in DOMAIN t
    THEN [md |-> WithMacs(md, md.eth.smac, t[i].dmac), cb |-> send_to_port(b, t[i].port)]
    ELSE [md |-> md, cb |-> b]
nh_lookup(t, i, md, b) ==
  IF i \in DOMAIN t /\ t[i] # DropEntry
    THEN [md |-> WithMacs(md, md.eth.smac, t[i].dmac), cb |-> send_to_port(b, t[i].port)]
    ELSE [md |-> md, cb |-> drop_packet(b)]

\* The word of ttl and protocol in the checksum.
TtlWord(ttl, proto) == ttl * 256 + proto

\* ttl + 255, in a u8.
DecTtlSigned(ttl) == ttl - 1
DecTtl(ttl) == (ttl + 255) % 256

(***************************************************************************)
(* ip_ttl_dec: HC' = ~(~HC + ~m + m').  The deparser runs it whether or    *)
(* not the packet is to be dropped, so the ttl may wrap from 0 to 255.     *)
(***************************************************************************)
ip_ttl_dec(md) ==
  LET ttl == DecTtl(md.ip.ttl)
      s1  == csum16_sub(not16(md.ip.chk), TtlWord(md.ip.ttl, md.ip.proto))
      s2  == csum16_add(s1, TtlWord(ttl, md.ip.proto))
  IN [eth |-> md.eth, offset |-> md.offset,
      ip |-> [valid |-> md.ip.valid, ttl |-> ttl, proto |-> md.ip.proto, chk |-> not16(s2),
              src |-> md.ip.src, dst |-> md.ip.dst]]

\* The rest of tc_ingress_func once the tables have been applied.
Finish(c, f, md, b) ==
  \E r \in DeparseIp(f, ip_ttl_dec(md), b) : Return(c, r)

-----------------------------------------------------------------------------
Init ==
  /\ PnaInit(NoIpFrame, ZeroIpHdrMd)
  /\ fib = [p \in {} |-> 0]
  /\ nh = [i \in {} |-> 0]
  /\ nhIndex = [c \in Cpus |-> 0]

Receive(s) ==
  /\ \E p \in Ports, f \in Frames : Arrive(s, p, f)
  /\ UNCHANGED <<fib, nh, nhIndex>>

Parse(c, s) ==
  /\ TcParseFunc(c, s, run_parser(frame[s], hdrMd[c]))
  /\ UNCHANGED <<fib, nh, nhIndex>>

IngressEarly(c) ==
  /\ EarlyReturn(c)
  /\ UNCHANGED <<fib, nh, nhIndex>>

\* Not routable: the else branch of the main block.
Discard(c) ==
  /\ EntersMain(c)
  /\ ~IsRoutable(hdrMd[c])
  /\ Finish(c, RestoreEtherType(frame[cur[c]]), hdrMd[c], drop_packet(cb[cur[c]]))
  /\ UNCHANGED <<fib, nh, nhIndex>>

\* fib_table.apply()
ApplyFib(c) ==
  /\ EntersMain(c)
  /\ IsRoutable(hdrMd[c])
  /\ nhIndex' = [nhIndex EXCEPT ![c] = fib_lookup(fib, hdrMd[c].ip.dst)]
  /\ pc' = [pc EXCEPT ![c] = "nh_table"]
  /\ frame' = [frame EXCEPT ![cur[c]] = RestoreEtherType(@)]
  /\ UNCHANGED <<loc, port, cb, cur, hdrMd, rcvd, fib, nh>>

\* nh_table.apply() and the deparser
ApplyNh(c) ==
  LET r == nh_lookup(nh, nhIndex[c], hdrMd[c], cb[cur[c]])
  IN /\ pc[c] = "nh_table"
     /\ Finish(c, frame[cur[c]], r.md, r.cb)
     /\ nhIndex' = [nhIndex EXCEPT ![c] = 0]
     /\ UNCHANGED <<fib, nh>>

\* The control plane enters or replaces an entry, or deletes one.
CtrlFib(p) ==
  /\ \/ \E i \in Indices : fib' = [q \in DOMAIN fib \cup {p} |-> IF q = p THEN i ELSE fib[q]]
     \/ p \in DOMAIN fib /\ fib' = [q \in DOMAIN fib \ {p} |-> fib[q]]
  /\ UNCHANGED <<pnaVars, nh, nhIndex>>

CtrlNh(i) ==
  /\ \/ \E n \in NextHops : nh' = [j \in DOMAIN nh \cup {i} |-> IF j = i THEN n ELSE nh[j]]
     \/ i \in DOMAIN nh /\ nh' = [j \in DOMAIN nh \ {i} |-> nh[j]]
  /\ UNCHANGED <<pnaVars, fib, nhIndex>>

Main(c) == IngressEarly(c) \/ Discard(c) \/ ApplyFib(c) \/ ApplyNh(c)

Next ==
  \/ \E s \in Skbs : Receive(s)
  \/ \E c \in Cpus, s \in Skbs : Parse(c, s)
  \/ \E c \in Cpus : Main(c)
  \/ \E p \in Prefixes : CtrlFib(p)
  \/ \E i \in Indices : CtrlNh(i)

Spec == Init /\ [][Next]_vars

-----------------------------------------------------------------------------
(* Properties *)

TypeOK ==
  /\ loc \in [Skbs -> Locs]
  /\ port \in [Skbs -> Nat]
  /\ frame \in [Skbs -> IpFrame]
  /\ cb \in [Skbs -> Cb]
  /\ pc \in [Cpus -> {"idle", "main", "nh_table"}]
  /\ cur \in [Cpus -> Skbs \cup {NoSkb}]
  /\ hdrMd \in [Cpus -> IpHdrMd]
  /\ rcvd \in [Skbs -> IpFrame]
  /\ DOMAIN fib \subseteq Prefixes /\ fib \in [DOMAIN fib -> Indices]
  /\ DOMAIN nh \subseteq Indices /\ nh \in [DOMAIN nh -> NextHops]
  /\ nhIndex \in [Cpus -> Nat]

ChecksumRight(f) == ValidChecksum(f.sum, TtlWord(f.ttl, f.proto), load_half(f.chk))

\* The packets that are to be routed.
Routable(f) == Complete(f) /\ f.ttl > 1

(***************************************************************************)
(* What leaves is a packet that was to be routed, with its ttl one less,   *)
(* MAC address and port of one and the same next hop, and all the rest as  *)
(* received: the two CPUs, or the packet parsed before, leave no trace.    *)
(***************************************************************************)
SentIsRouted ==
  \A s \in Skbs : loc[s] = "sent" =>
    /\ Routable(rcvd[s])
    /\ \E n \in NextHops \ {DropEntry} :
         /\ cb[s].egress_port = n.port
         /\ frame[s] = [rcvd[s] EXCEPT !.dmac = n.dmac, !.ttl = @ - 1, !.chk = frame[s].chk]

(***************************************************************************)
(* The updated checksum is right if and only if the received one was: a    *)
(* header damaged on its way is not made to look whole.                    *)
(***************************************************************************)
ChecksumFollows ==
  \A s \in Skbs : loc[s] = "sent" => (ChecksumRight(frame[s]) <=> ChecksumRight(rcvd[s]))

(***************************************************************************)
(* README.md:3 of the program, "Any other packets are rejected(dropped)":  *)
(* no packet reaches the kernel's stack, nor goes back to its ingress, not *)
(* even one that is too short to be parsed.                                *)
(***************************************************************************)
NoneToStack ==
  \A s \in Skbs : loc[s] # "stack" /\ ~cb[s].pass_to_kernel

(***************************************************************************)
(* A packet that is to be routed is dropped only because nh_table has no   *)
(* next hop, or an entry that says drop, under the index fib_table gave    *)
(* for its address, which may be that of the default route.                *)
(***************************************************************************)
DropsOnlyUnrouted ==
  [][\A c \in Cpus :
       cur[c] # NoSkb /\ Routable(rcvd[cur[c]]) /\ loc'[cur[c]] = "dropped" =>
         /\ pc[c] = "nh_table"
         /\ nhIndex[c] \in DOMAIN nh => nh[nhIndex[c]] = DropEntry]_vars

(***************************************************************************)
(* The program implements Router, with the control plane at work all the   *)
(* time: ApplyFib gives the packet its index, ApplyNh its next hop, after  *)
(* whatever the control plane and the other CPUs have done in between.  A  *)
(* CPU between the two lookups holds the index of its own packet and of no *)
(* other, and each lookup sees its table as it is at that moment.          *)
(***************************************************************************)
AbstractPkt == [s \in Skbs |-> IF loc[s] = "new" THEN <<>> ELSE <<Routable(rcvd[s]), rcvd[s].dst>>]

\* The CPUs between the lookups of a packet.
Held(s) == {c \in Cpus : pc[c] = "nh_table" /\ cur[c] = s}

RouteOf(s) == IF Held(s) = {} THEN -1 ELSE nhIndex[CHOOSE c \in Held(s) : TRUE]

AbstractRoute == [s \in Skbs |-> RouteOf(s)]

FateOf(s) ==
  CASE loc[s] = "dropped" -> <<0, 0>>
    [] loc[s] = "sent" -> <<frame[s].dmac, cb[s].egress_port>>
    [] OTHER -> <<>>

AbstractFate == [s \in Skbs |-> FateOf(s)]

Abstract == INSTANCE Router
              WITH Packets <- Skbs, pkt <- AbstractPkt, route <- AbstractRoute, fate <- AbstractFate

\* Spec implements the abstract router.
ImplementsRouter == Abstract!Spec
=============================================================================
