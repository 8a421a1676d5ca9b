----------------------------- MODULE RedirectL2 -----------------------------
(***************************************************************************)
(* simple/redirect_l2: the source address of a packet is looked up in      *)
(* nh_table; a hit sets both MAC addresses and the port. The table has no  *)
(* default action.  Names that SimpleL3 has too end in L2 here, so that    *)
(* SimpleProofs can extend both.                                           *)
(***************************************************************************)
EXTENDS EthIpv4

CONSTANTS
  FramesL2,    \* the contents a received packet may have
  AddrsL2,     \* the source addresses the control plane may enter
  NextHopsL2   \* [smac, dmac, port]: the next hops it may enter for them

\* The entries of nh_table, by source address: send_nh(port, dmac, smac).
NhEntryL2 == [smac : Nat, dmac : Nat, port : Nat \ {0}]

ASSUME AddrsAssumptionL2 == AddrsL2 \subseteq Nat
ASSUME NextHopsAssumptionL2 == NextHopsL2 \subseteq NhEntryL2
ASSUME FramesAssumptionL2 == FramesL2 \subseteq IpFrame

VARIABLE
  nhL2         \* nh_table: a function from addresses to next hops

varsL2 == <<pnaVars, nhL2>>

-----------------------------------------------------------------------------
(* run_parser *)

parse_ipv4_l2(f, md) ==
  IF TooShort(f, md, Ipv4Len) THEN Reject(md, PacketTooShort) ELSE Accept(ExtractIpv4(md, f))

start_l2(f, md) ==
  CASE TooShort(f, md, EthLen) -> Reject(md, PacketTooShort)
    [] ~TooShort(f, md, EthLen) /\ load_half(f.etherType) = TYPE_IPV4 ->
         parse_ipv4_l2(f, ExtractEth(md, f))
    [] OTHER -> Reject(ExtractEth(md, f), NoError)

memset_missing_l2(md) == [eth |-> md.eth, ip |-> md.ip, offset |-> 0]
memset_l2(md) == ZeroIpHdrMd

run_parser_l2(f, md) == start_l2(f, memset_l2(md))

-----------------------------------------------------------------------------
(* process *)

\* nh_table: send_nh of the entry for the source address.  On a miss there is
\* no action to run: headers and metadata stay as they are.  The table is
\* applied whether or not there is an IPv4 header.
apply_nh_table_dst_l2(t, md, b) ==
  IF md.ip.dst \in DOMAIN t
    THEN [md |-> WithMacs(md, t[md.ip.dst].smac, t[md.ip.dst].dmac), cb |-> send_to_port(b, t[md.ip.dst].port)]
    ELSE [md |-> md, cb |-> b]
apply_nh_table_l2(t, md, b) ==
  IF md.ip.src \in DOMAIN t
    THEN [md |-> WithMacs(md, t[md.ip.src].smac, t[md.ip.src].dmac), cb |-> send_to_port(b, t[md.ip.src].port)]
    ELSE [md |-> md, cb |-> b]

process_l2(t, f, md, b) ==
  LET r == apply_nh_table_l2(t, md, b) IN DeparseIp(f, r.md, r.cb)

-----------------------------------------------------------------------------
InitL2 ==
  /\ PnaInit(NoIpFrame, ZeroIpHdrMd)
  /\ nhL2 = [a \in {} |-> 0]

ReceiveL2(s) ==
  /\ \E p \in Ports, f \in FramesL2 : Arrive(s, p, f)
  /\ UNCHANGED nhL2

ParseL2(c, s) ==
  /\ TcParseFunc(c, s, run_parser_l2(frame[s], hdrMd[c]))
  /\ UNCHANGED nhL2

IngressEarlyL2(c) ==
  /\ EarlyReturn(c)
  /\ UNCHANGED nhL2

\* The rest of tc_ingress_func; the table is read once.
ProcessL2(c) ==
  /\ EntersMain(c)
  /\ \E r \in process_l2(nhL2, RestoreEtherType(frame[cur[c]]), hdrMd[c], cb[cur[c]]) : Return(c, r)
  /\ UNCHANGED nhL2

\* The control plane enters or replaces an entry, or deletes one.
CtrlPlaneL2(a) ==
  /\ \/ \E n \in NextHopsL2 : nhL2' = [x \in DOMAIN nhL2 \cup {a} |-> IF x = a THEN n ELSE nhL2[x]]
     \/ a \in DOMAIN nhL2 /\ nhL2' = [x \in DOMAIN nhL2 \ {a} |-> nhL2[x]]
  /\ UNCHANGED pnaVars

MainL2(c) == IngressEarlyL2(c) \/ ProcessL2(c)

NextL2 ==
  \/ \E s \in Skbs : ReceiveL2(s)
  \/ \E c \in Cpus, s \in Skbs : ParseL2(c, s)
  \/ \E c \in Cpus : MainL2(c)
  \/ \E a \in AddrsL2 : CtrlPlaneL2(a)

SpecL2 == InitL2 /\ [][NextL2]_varsL2

-----------------------------------------------------------------------------
(* Properties *)

\* The values the variables take.
TypeOKL2 ==
  /\ loc \in [Skbs -> Locs]
  /\ port \in [Skbs -> Nat]
  /\ frame \in [Skbs -> IpFrame]
  /\ cb \in [Skbs -> Cb]
  /\ pc \in [Cpus -> {"idle", "main"}]
  /\ cur \in [Cpus -> Skbs \cup {NoSkb}]
  /\ hdrMd \in [Cpus -> IpHdrMd]
  /\ rcvd \in [Skbs -> IpFrame]
  /\ DOMAIN nhL2 \subseteq AddrsL2 /\ nhL2 \in [DOMAIN nhL2 -> NextHopsL2]

(***************************************************************************)
(* A packet is sent only by the entry its own source address has in the    *)
(* table at that moment, with exactly the two MAC addresses changed. (A    *)
(* packet that ends before its source address goes by the entry of         *)
(* 0.0.0.0.)                                                               *)
(***************************************************************************)
OwnAddr(f) == IF Complete(f) THEN f.src ELSE 0

SentByOwnEntryL2 ==
  [][\A s \in Skbs : loc[s] # "sent" /\ loc'[s] = "sent" =>
       LET a == OwnAddr(rcvd[s])
       IN /\ a \in DOMAIN nhL2
          /\ cb'[s].egress_port = nhL2[a].port
          /\ frame'[s] = IF rcvd[s].len < EthLen THEN rcvd[s]
                         ELSE [rcvd[s] EXCEPT !.smac = nhL2[a].smac, !.dmac = nhL2[a].dmac]]_varsL2

(***************************************************************************)
(* README.md:5 of the program, "On a table hit ... redirects the packet to *)
(* a specified port": a packet on its first run whose own source address   *)
(* has an entry when the table is read is sent, not lost or left to the    *)
(* stack (but for metadata that does not fit).  One that does come to the  *)
(* stack was marked on an earlier run and is as it was received, after two *)
(* parses, a deparse and its way through the ingress.                      *)
(***************************************************************************)
FollowsTable ==
  [][\A s \in Skbs : loc[s] = "cpu" =>
       /\ ~cb[s].pass_to_kernel /\ OwnAddr(rcvd[s]) \in DOMAIN nhL2 =>
            loc'[s] \in {"cpu", "sent"} \/ MetadataFails(rcvd[s])
       /\ loc'[s] = "stack" => cb[s].pass_to_kernel /\ frame'[s] = rcvd[s]]_varsL2

(***************************************************************************)
(* README.md:5 of the program, "On a table miss the packet is simply       *)
(* dropped": no whole IPv4 packet reaches the stack.  The code does not    *)
(* keep this, see apply_nh_table_l2.                                       *)
(***************************************************************************)
MissesDropped == \A s \in Skbs : Complete(rcvd[s]) => loc[s] # "stack"
=============================================================================
