-------------------------------- MODULE Pna ---------------------------------
(***************************************************************************)
(* What the P4TC example programs have in common: the two eBPF programs of *)
(* a pipeline (tc_parse_func, then tc_ingress_func), run by each CPU on    *)
(* one packet at a time, and the metadata they share.                      *)
(*                                                                         *)
(*  - hdrMd is the per-CPU map hdr_md_cpumap: tc_parse_func leaves the     *)
(*    parsed headers there and tc_ingress_func finds them again;           *)
(*  - cb[s] is struct pna_global_metadata, kept in skb->cb, which travels  *)
(*    with the packet when it is redirected to its own ingress;            *)
(*  - pc[c] says where CPU c stands.  A softirq runs both programs on a    *)
(*    packet to the end before it takes the next one, so CPUs interleave   *)
(*    with each other, the timers and the control plane, but one CPU never *)
(*    has two packets at work.                                             *)
(*                                                                         *)
(* Headers and tables differ between programs: a program's module says     *)
(* what its parser and its main block compute, and hands the results to    *)
(* the operators below.                                                    *)
(***************************************************************************)
EXTENDS Wire

CONSTANTS
  Cpus,    \* the CPUs that receive packets
  Skbs,    \* the packets; each arrives at most once
  Ports,   \* ifindex of the devices of ingress block 21
  NoSkb    \* stands for no packet

ASSUME NoSkbAssumption == NoSkb \notin Skbs
ASSUME PortsAssumption == Ports \subseteq Nat \ {0}

VARIABLES
  loc,     \* [Skbs -> where the packet is]
  port,    \* [Skbs -> skb->ifindex, the device it was received on]
  frame,   \* [Skbs -> its contents]
  cb,      \* [Skbs -> skb->cb]
  pc,      \* [Cpus -> where the CPU stands]
  cur,     \* [Cpus -> the packet at work]
  hdrMd,   \* [Cpus -> the parsed headers, in the per-CPU map]
  rcvd     \* [Skbs -> the contents as received]; history, read by no action

pnaVars == <<loc, port, frame, cb, pc, cur, hdrMd, rcvd>>

TC_ACT_SHOT == "TC_ACT_SHOT"
Continue    == "-1"          \* process() and run_parser() came to their end

NoError        == "NoError"
PacketTooShort == "PacketTooShort"

(***************************************************************************)
(* struct pna_global_metadata.  mark and parser_error are written and      *)
(* never read, recirculated and the mirror fields never written: they are  *)
(* left out.  No program initialises skb->cb; a packet is taken to arrive  *)
(* with a cleared one.                                                     *)
(***************************************************************************)
Cb == [drop : BOOLEAN, egress_port : Nat, pass_to_kernel : BOOLEAN]

ZeroCb == [drop |-> FALSE, egress_port |-> 0, pass_to_kernel |-> FALSE]

Locs == {"new",       \* not yet received
         "ingress",   \* queued at the ingress of its device
         "cpu",       \* accepted by the parser, at work on a CPU
         "stack",     \* TC_ACT_OK: handed to the kernel's stack
         "sent",      \* redirected to the egress of cb.egress_port
         "dropped"}   \* TC_ACT_SHOT

Final == {"stack", "sent", "dropped"}

-----------------------------------------------------------------------------
(***************************************************************************)
(* Results of the parser.  A state that cannot extract its header, or      *)
(* selects no next state, goes to reject; reject drops the packet only     *)
(* when there is no error code, so a packet that is too short is accepted  *)
(* with the headers extracted so far.  (The offset reaches the map only at *)
(* accept; after TC_ACT_SHOT nobody reads the map before it is zeroed.)    *)
(***************************************************************************)
Accept(md) == [ret |-> Continue, md |-> md]

RejectAccepts(md, err) == Accept(md)
Reject(md, err) ==
  IF err = NoError THEN [ret |-> TC_ACT_SHOT, md |-> md] ELSE Accept(md)

\* extract() of a header of n bytes fails: the packet ends before it.
TooShort(f, md, n) == f.len < md.offset + n

(***************************************************************************)
(* struct internal_metadata, left in front of the packet by an XDP program *)
(* (the repository has none), is copied over the packet's etherType before *)
(* the main block runs; a packet too short to have one is dropped.         *)
(***************************************************************************)
NoMd == <<>>

MetadataFails(f) == f.md # NoMd /\ f.len < 14

RestoreEtherType(f) == IF f.md = NoMd THEN f ELSE [f EXCEPT !.etherType = f.md]

\* send_to_port(p) after compiler_meta__->drop = false; drop_packet().
send_to_port(b, p) == [drop |-> FALSE, egress_port |-> p, pass_to_kernel |-> b.pass_to_kernel]

drop_packet(b) == [drop |-> TRUE, egress_port |-> b.egress_port, pass_to_kernel |-> b.pass_to_kernel]

(***************************************************************************)
(* bpf_skb_adjust_room(skb, n, ...): makes the packet n bytes longer, or   *)
(* fails and the packet is dropped.  The deparser calls it when the valid  *)
(* headers are not as long as the headers parsed.                          *)
(***************************************************************************)
adjust_room(f, n) ==
  IF n = 0 THEN {[ret |-> Continue, frame |-> f]}
  ELSE {[ret |-> Continue, frame |-> [f EXCEPT !.len = @ + n]],
        [ret |-> TC_ACT_SHOT, frame |-> f]}

-----------------------------------------------------------------------------
\* zero stands for the contents of a packet that has not arrived, md for
\* the zeroed per-CPU map.
PnaInit(zero, md) ==
  /\ loc = [s \in Skbs |-> "new"]
  /\ port = [s \in Skbs |-> 0]
  /\ frame = [s \in Skbs |-> zero]
  /\ cb = [s \in Skbs |-> ZeroCb]
  /\ pc = [c \in Cpus |-> "idle"]
  /\ cur = [c \in Cpus |-> NoSkb]
  /\ hdrMd = [c \in Cpus |-> md]
  /\ rcvd = [s \in Skbs |-> zero]

\* A packet with contents f is received on device p.
Arrive(s, p, f) ==
  /\ loc[s] = "new"
  /\ loc' = [loc EXCEPT ![s] = "ingress"]
  /\ port' = [port EXCEPT ![s] = p]
  /\ frame' = [frame EXCEPT ![s] = f]
  /\ rcvd' = [rcvd EXCEPT ![s] = f]
  /\ UNCHANGED <<cb, pc, cur, hdrMd>>

(***************************************************************************)
(* tc_parse_func: CPU c takes packet s from the ingress queue; r is what   *)
(* run_parser computes.  The parser runs on a packet that is redirected to *)
(* its own ingress as well: only tc_ingress_func looks at pass_to_kernel.  *)
(***************************************************************************)
TcParseFunc(c, s, r) ==
  /\ pc[c] = "idle"
  /\ loc[s] = "ingress"
  /\ hdrMd' = [hdrMd EXCEPT ![c] = r.md]
  /\ IF r.ret = TC_ACT_SHOT
       THEN /\ loc' = [loc EXCEPT ![s] = "dropped"]
            /\ UNCHANGED <<pc, cur>>
       ELSE /\ loc' = [loc EXCEPT ![s] = "cpu"]
            /\ pc' = [pc EXCEPT ![c] = "main"]
            /\ cur' = [cur EXCEPT ![c] = s]
  /\ UNCHANGED <<port, frame, cb, rcvd>>

\* CPU c is done with its packet, which goes to l with contents f and
\* metadata b; md stays in the map.
Leave(c, l, f, b, md) ==
  /\ loc' = [loc EXCEPT ![cur[c]] = l]
  /\ frame' = [frame EXCEPT ![cur[c]] = f]
  /\ cb' = [cb EXCEPT ![cur[c]] = b]
  /\ pc' = [pc EXCEPT ![c] = "idle"]
  /\ cur' = [cur EXCEPT ![c] = NoSkb]
  /\ hdrMd' = [hdrMd EXCEPT ![c] = md]
  /\ UNCHANGED <<port, rcvd>>

(***************************************************************************)
(* tc_ingress_func, its first line: a packet it has sent to its own        *)
(* ingress once goes to the kernel's stack.                                *)
(***************************************************************************)
PassToKernel(c) ==
  /\ pc[c] = "main"
  /\ cb[cur[c]].pass_to_kernel
  /\ Leave(c, "stack", frame[cur[c]], cb[cur[c]], hdrMd[c])

MetadataShot(c) ==
  /\ pc[c] = "main"
  /\ ~cb[cur[c]].pass_to_kernel
  /\ MetadataFails(frame[cur[c]])
  /\ Leave(c, "dropped", frame[cur[c]], cb[cur[c]], hdrMd[c])

EarlyReturn(c) == PassToKernel(c) \/ MetadataShot(c)

\* Otherwise it goes on to process().
EntersMain(c) ==
  /\ pc[c] = "main"
  /\ ~cb[cur[c]].pass_to_kernel
  /\ ~MetadataFails(frame[cur[c]])

(***************************************************************************)
(* The end of tc_ingress_func, after process() returned ret: a verdict     *)
(* other than -1 is returned, a packet without egress port is redirected   *)
(* to its own ingress marked for the kernel, any other to the egress of    *)
(* its port.                                                               *)
(***************************************************************************)
Verdict(ret, b) ==
  CASE ret = TC_ACT_SHOT -> "dropped"
    [] ret = Continue /\ ~b.drop /\ b.egress_port = 0 -> "ingress"
    [] OTHER -> "sent"

MarkNothing(l, b) == b
Mark(l, b) ==
  IF l = "ingress"
    THEN [drop |-> b.drop, egress_port |-> b.egress_port, pass_to_kernel |-> TRUE]
    ELSE b

\* process() of CPU c has come to r, a record of what it returns, the
\* packet's contents and metadata, and the map.
Return(c, r) ==
  LET l == Verdict(r.ret, r.cb)
  IN Leave(c, l, r.frame, Mark(l, r.cb), r.md)
=============================================================================
