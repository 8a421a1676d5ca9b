# TLA+ models of the P4TC example programs

This directory holds a formal model of the programs in this repository: eight
P4 programs that `p4c-pna-p4tc` compiled to eBPF and that run in the ingress
hook of Linux traffic control. The models are translated from the C the
compiler generated (`<program>/generated/*_parser.c`, `*_control_blocks.c`,
`*_parser.h`), which is what runs, together with the table templates.

## The system

Every program is a pair of eBPF functions attached to one ingress block:

* `tc_parse_func` runs `run_parser`: it zeroes the CPU's slot of the per-CPU
  map `hdr_md_cpumap`, extracts headers into it, and returns `TC_ACT_SHOT` or
  `TC_ACT_PIPE`;
* `tc_ingress_func` runs `process`: it finds the headers in the map, applies
  the tables (kernel functions `bpf_p4tc_tbl_read`,
  `bpf_p4tc_entry_create_on_miss`), and writes the headers back (the deparser).
  Then it drops the packet, redirects it to a port, or, if no port was chosen,
  sets `pass_to_kernel` in `skb->cb` and redirects it **to its own ingress**,
  where both functions run again and the packet is passed to the stack.

| part | state | operations | what makes it correct | hard because of |
|---|---|---|---|---|
| skeleton (all programs, `include/pna.h`) | per-CPU map, `skb->cb` | parse, early returns, verdict | a packet's fate depends on its own contents; it leaves the loop through its own ingress | scratch memory that outlives a packet, a second parse after deparsing, rejected packets that are accepted |
| flowtracker | `ct_flow_table`, idle timers | hit (refresh), miss, add on miss, expiry | the table holds the flows of accepted packets and only those; packets pass unchanged | lookup and creation are two calls, CPUs and the control plane interleave; the table fills up; creation may fail unnoticed |
| routing | `fib_table`, `nh_table` | two lookups, ttl, checksum | what leaves is routed by the tables, with a right checksum | lookups are not one atomic step; one's complement arithmetic; packets without an IPv4 header |
| redirect_l2, simple_l3 | `nh_table` | lookup, rewrite | a packet goes by its own address's entry | truncated packets, missing default action |
| tunnels/ipip | `fwd_table` | push and pop of an outer header | payload and inner header survive; both checksums right | the payload moves; `totalLen` wraps; already tunnelled packets |
| arp_responder | `arp_table` | answer a request in place | the answer goes to the asker; replies are not answered | fields are swapped in place; the table is applied to every packet |
| calc | `calculate` (const entries) | arithmetic on a header | the result is right mod 2^32 and goes back to the asker | lookahead in the parser; byte order; an answer is itself a request |
| flowtracker_ipv6 | `ct_flow_table` | as flowtracker | as flowtracker | as flowtracker; fields that share bytes and are written in parts |
| CRC functions (every `*_parser.h`, `include/crc32.h`) | a register, a pointer | 16-bit and 32-bit update, eight bytes at a time | the register is the check of the bytes on the wire | fields of up to 8 bytes are read backwards, longer ones forwards; the slice by tables and the tail use different pointers |
| light skeleton loader (`include/bpf/skel_internal.h`) | descriptors, buffers | prepare, load and run, finalise, attach, destroy | everything opened is closed once, the first error is reported | any call may fail; a descriptor is reused by others as soon as it is closed; kernel and user space differ |

The CPUs, the timers and the control plane (`tc p4ctrl`) run concurrently and
share the tables. Nothing is persisted, so there is no crash recovery. The CRC
functions and the loader are independent of the packet programs: the compiler
emits the former into every header, the latter comes with libbpf.

## Modules

| module | models |
|---|---|
| `Wire` | 16-bit fields: reading (`load_half`), `bpf_htons`, writing byte by byte |
| `InternetChecksum` | `csum16_add`, `csum16_sub`, what a right checksum is |
| `Pna` | the skeleton: CPUs, packets, `skb->cb`, per-CPU map, accept/reject, early returns, verdict |
| `EthIpv4` | headers and deparser of the programs that use Ethernet and IPv4 only |
| `Word` | 32-bit words as two halves: byte swaps, arithmetic, shifts, `write_partial` |
| `FlowTable` | what both flow trackers share: `ct_flow_table` (create on miss, refresh, idle timers, control plane), the transport header's ports |
| `FlowTracker` | stateful-progs/flowtracker |
| `FlowTrackerIpv6` | stateful-progs/flowtracker_ipv6; its names end in 6 where `FlowTracker` has the same one |
| `Tracker` | abstract specification of both flow trackers |
| `Routing` | routing |
| `Router` | abstract specification of routing: each packet resolved at one moment, its fate decided at a later one |
| `RedirectL2`, `SimpleL3` | simple/redirect_l2, simple/simple_l3; names of the former end in `L2` (`_l2`) where the latter has the same one |
| `Ipip` | tunnels/ipip |
| `ArpRespond` | arp_responder |
| `Calc` | calc |
| `Crc`, `Crc32Table` | `crc16_update`, `crc32_update` and their finalisers; the lookup tables |
| `Skel` | `skel_internal.h` |
| `MC*` | small instances for TLC; `MCHeaders` is the instance of `Skel` beside that of `Crc` |
| `PnaProofs`, `FlowTrackerProofs`, `RoutingProofs`, `SimpleProofs`, `IpipProofs`, `ArpRespondProofs`, `CalcProofs`, `HeaderProofs` | theorems |

State and code correspond like this. `hdrMd[c]` is CPU c's element 0 of
`hdr_md_cpumap`; `cb[s]` is `struct pna_global_metadata` in `skb->cb`;
`frame[s]` is the packet, `rcvd[s]` what it was when received (a history
variable no action reads); `loc[s]` says where the packet is, `pc[c]` and
`cur[c]` what CPU c is doing. A table is a function from its keys to entries.
`TcParseFunc` is one step, since a CPU's map slot and its packet are its own.
`tc_ingress_func` is cut exactly where it calls into the kernel a second time:
`Hit` is one step, `Miss` followed by `ct_flow_miss` two, `ApplyFib` followed
by `ApplyNh` two. A softirq finishes a packet before it takes another, so a
CPU has one packet at work. A 32-bit word is a pair of 16-bit halves, since
TLC's integers end at 2^31 - 1.

In `Crc` one step is one round of a loop of the code; `current` is its pointer
as an offset into the field. In `Skel` one step is one system call of
`bpf_load_and_run`, or one call of the generated skeleton. That skeleton is not
in the repository: its order of calls (open, load, attach, destroy, straight to
destroy when something failed) follows the comment on `skel_free_map_data`.
The two closes at the end of `bpf_load_and_run` are two steps, each of which may fail
and change `errno`. In the kernel finalising a map may fail after its buffer was freed
(`fd` is no map, or the map is no array). Freeing or unmapping anything but a buffer in
use leaves the state "corrupt".
`kernel` chooses between the two halves of the header's `#ifdef __KERNEL__`.

Abstractions:

* header fields that are copied in and out unread are left out (in `EthIpv4`
  and `Ipip` but for their share in the checksum, `sum` and `other`); addresses are numbers; the
  16-bit fields whose byte order matters are kept as bytes;
* of `pna_global_metadata` only `drop`, `egress_port` and `pass_to_kernel` are
  kept. `mark` and `parser_error` are never read, `recirculated` and the mirror
  fields are never written;
* the map after a `TC_ACT_SHOT` of the parser is not tracked beyond the
  headers: the next packet zeroes it;
* the timer counts ticks; `Tick` ages every dynamic entry;
* in `Skel` a buffer or a descriptor is known by its state and its owner, sizes
  and contents are left out.

Assumptions about what is not in the repository:

* `skb->cb` is clear when a packet arrives, and survives the redirection to
  the own ingress (the programs rely on both);
* `bpf_p4tc_tbl_read` refreshes the idle timer of an entry it hits;
  `bpf_p4tc_entry_create_on_miss` fails if the key exists or the table is full;
* the default actions stay as the templates set them, ports of type `dev` are
  not 0, no two prefixes of one length overlap;
* `bpf_skb_adjust_room` may fail for any change of length but 0; when it succeeds
  it makes or removes room right behind the Ethernet header (mode
  `BPF_ADJ_ROOM_MAC`).

Some definitions are preceded by a variant with a defect (`memset_missing`,
`csum16_add_no_carry`, ...). The variants are used in no specification; putting
one in the place of the definition it precedes makes a property fail, which
shows that the property is about that code.

## Runs

| run | shows |
|---|---|
| `flowtracker_safety` | two CPUs, three packets out of eight kinds, table of two entries, aging, control plane. `KeyIsOwnFlow`: the key is the packet's own flow. `HeadersFit`: the deparser never moves the payload. `TableSound`: entries are flows of accepted packets, or the control plane's. `DropsOnlyRejected`, `DeliversUnchanged`: packets pass as received or are rejected on sight, second parse included. `ImplementsTracker`: the program implements `Tracker`: when a packet is let go its flow is in the table, or the table is full |
| `flowtracker_liveness` | `EveryPacketEnds`, `FlowsExpire`, with a table of one entry |
| `flowtracker6_safety` | two CPUs, two packets out of nine kinds, table of one entry. `DeliversUnchanged6`, down to the bits of version, traffic class and flow label. `BitFieldsOverwrite`: the partial writes set every bit of the word they share, whatever was there. `ImplementsTracker6` |
| `routing_safety` | the control plane changes both tables at any time. `SentIsRouted`: MAC address and port belong to one next hop, ttl is one less, the rest is as received. `ChecksumFollows`: the checksum is right iff it was. `NoneToStack`, `DropsOnlyUnrouted`. `ImplementsRouter`: the program implements `Router` |
| `redirectl2_safety` | `SentByOwnEntryL2`: what is sent goes by the entry of its own source address. `FollowsTable`: a packet whose source has an entry when it is looked up is sent and not dropped, and what reaches the stack is as received and was let through by a miss |
| `redirectl2_miss` (violated) | `MissesDropped`, what the program's README says of a miss, see below |
| `simplel3_safety` | `SentByOwnEntry`: what is sent goes by the entry of its own destination, which cut off packets do not have. `TcpNeverToStack`: whole TCP packets are sent or dropped |
| `ipip_safety` | `LeavesTunnelWhole`: what leaves a tunnel is the packet inside, also when its entry asks for another tunnel. `EntersTunnelWhole`: the new outer header is the entry's, its checksum is right even where `totalLen` wraps, the packet inside is one hop older and whole. `EndsMeet`: running the program on what it sent gives back the packet received, one hop older |
| `arp_safety` | `AnsweredByOwnEntry`: what is sent is the reply to the asker, by the entry of the address asked for; packets that are no requests are answered only by an entry for 0.0.0.0, the key of an empty header. `RepliesNotAnswered`: the program drops its own replies. `ArpFollowsTable`: an ARP packet, cut off ones included, is answered on a hit and dropped on a miss, by the table of that moment |
| `arp_others` (violated) | `OthersToStack`, what the program's README says of packets that are not ARP, see below |
| `calc_safety` | `AnsweredRight`: what is sent has the right result in all 32 bits, by a reference that works bit by bit on the bytes on the wire, and goes back to the asker. `RequestsNotDropped`: lookaheads leave the offset alone. `NoneToStack`. `AnswerToAnswer`: an answer that comes back is answered without changing the result |
| `headers_safety` | `Skel`: kernel and user space, each call failing or not, other threads opening and closing descriptors. `NoFdLeak`, `NeverClosesOthers`: every descriptor is closed, once. `ErrIsFirstFailure`, `FinalizeFdValid`: success means the maps exist, an error is that of the step that failed, whatever the closes that follow it do. `DataSound`, `MemReleased`: buffers are there when they are read and freed once. `Crc`: `RegisterIsCrc`: after every round of every loop the register is the remainder of the bytes on the wire so far, by a bit-serial reference that itself reproduces the published checks of "123456789". `ReadsInBounds`: no read outside the field. The two share nothing: a behaviour is one of the one or of the other, chosen at the start (`header`) |

`NoFdLeak` and `MemReleased` state two exceptions that the code has: a
descriptor that comes out as 0 (a process that closed its standard input) is
never closed, since `skel_closenz` takes 0 for none; and in user space the buffer
of a map is lost when mapping the map over it fails, because the pointer to it is
replaced by the NULL returned.

The skeleton's first early return, for packets with `pass_to_kernel` set, is the
same code in all programs. In `Routing` and `Calc` no packet ever takes it, which is
what their `NoneToStack` says, nor in `ArpRespond`.

`Tracker` receives a packet, enters its flow in one step unless the table is
full, and delivers it after that. The refinement maps the step that lets a packet
go to `Track`. That both trackers implement it says that the gap between the
lookup and the creation, in which other CPUs, timers and the control plane run,
and the ignored return value of the creation, cannot be seen from outside.

`Router` receives a packet, refuses it or finds its next hop's index by the prefixes
as they are at that moment, and at a later moment sends it by the next hop that the
index has then, or drops it if it has none. `Configure` may change both tables
between any two steps. A router that decides each packet at one
moment is *not* implemented: the control plane may give an index to another
next hop between the two lookups, and nothing in the program prevents it. An operator
who wants a packet to be routed by one version of both tables must not reuse an index of
`nh_table` while packets are in flight. What the program does
keep is that MAC address and port always come from one entry, and that the index is
that of the packet's own address.

Where the models contradict the documents of the repository, they follow the code:

* flowtracker/README.md says keys have protocol TCP; UDP packets and packets that
  end inside a header are tracked as well (`FlowOf` in `FlowTracker`);
* redirect_l2/README.md:5 says "On a table miss the packet is simply dropped", and
  shows a udp packet that is dropped so (:99-120); the generated code does nothing on a
  miss, and the packet goes to the stack. `redirectl2_miss` checks what the document says
  (`MissesDropped`) and finds it violated: a packet misses, is redirected to
  its own ingress with `pass_to_kernel` set, and is let through;
* simple_l3/README.md and ipip/README.md say other packets are "rejected(dropped)";
  ones that end inside a header are accepted by the parser and go to the stack;
* arp_responder/README.md:3-4 says "Any other packets are allowed to go up the stack";
  the table is applied to every packet and its default action drops them. `arp_others`
  checks what the document says (`OthersToStack`) and finds it violated: a packet of
  another type is parsed, looked up by the zero of the map, and dropped. (Further down, at
  :100, the same document expects a udp packet to be dropped by a table miss.)

The two violations are the document's and the code's disagreement about the intent; the
passing runs state what the code does keep.

`TypeOK` is checked where it can go wrong in the code's arithmetic (`FlowTracker`,
`Routing`); in the other modules it says what the variables hold, is proved where
there are proofs, and can be added to a configuration.

Bounds. Two CPUs give every interleaving of two packets; the third packet of
`flowtracker_safety` is one that comes to a CPU whose map slot is used while the
other is between lookup and creation. Packet lengths lie on both sides of every
header boundary (13/14, 33/34, 37/38, 53/54, 41/42, 29/30, 57/58), etherTypes and protocols on both sides of
every select, ttl on both sides of the guard, checksums at 0 and 0xFFFF.
Tables of one and two entries are full in most runs of the model. Packets and CPUs are symmetric.
Deadlock is not checked for the programs: once all packets are disposed of the
system rests. In `calc_safety` the operands carry and borrow across every byte, and a
second packet may be the answer to the first. In `headers_safety` fields have 0, 1, 2,
4, 6, 7, 8, 9, 16 and 17 bytes, and 256 ramps of nine bytes look up every word of
every table; for `Skel` there are two maps, so that one may be finalised
and the other not, and six descriptors, just enough for the loader's, the
object's and one of another thread; both error numbers differ from 1, the -1
of a system call.

Fairness. Weak fairness of parsing a queued packet by some CPU and of each CPU's
current packet (a softirq that has work is run, and eBPF programs terminate),
of time and of expiry (the kernel's timers). None for arrivals or the control
plane. Each packet arrives once, so "packets stop" in `FlowsExpire` is the
case of a finite number of packets, not an assumption on traffic.

## Proofs

Checked by TLAPS for all values of the constants, from the assumptions on
constants named in the modules (`NoSkbAssumption`, `PortsAssumption`,
`FramesAssumption`, `NextHopsAssumption`, ...). No program's properties are inductive
as they stand. Each proof module has its inductive invariant `IndInv`, one lemma
per action that shows that the action preserves it, and theorems that follow
from it.

| module | theorems |
|---|---|
| `PnaProofs` | `FieldRoundTrip`, `ValueRoundTrip`: a 16-bit field parsed and deparsed, or the reverse, is the same. `UpdateKeepsValidity`: the incremental update of a checksum. Lemmas on the steps of `Pna`, on parser, map and deparser of `EthIpv4`, and on numbers as sums of bits |
| `FlowTrackerProofs` | for both trackers: `TypeOK`, `TableSound`, `KeyIsOwnFlow`, `HeadersFit`, `DropsOnlyRejected`, `DeliversUnchanged`; `TrackerImplemented`, `TrackerImplemented6`: the program implements `Tracker`. For IPv6 `BitFieldsOverwrite` |
| `RoutingProofs` | `TypeOK`, `SentIsRouted`, `ChecksumFollows`, `NoneToStack`, `DropsOnlyUnrouted`; `TtlDecKeepsChecksum`; `RouterImplemented`: the program implements `Router` |
| `SimpleProofs` | redirect_l2: `TypeOKL2`, `SentByOwnEntryL2`, `FollowsTable`. simple_l3: `TypeOK`, `TcpNeverToStack`, `SentByOwnEntry` |
| `IpipProofs` | `TypeOK`, `LeavesTunnelWhole`, `EntersTunnelWhole`, `EndsMeet` |
| `CalcProofs` | `ResultRight`; `TypeOK`, `AnsweredRight`, `NoneToStack`, `RequestsNotDropped`, `AnswerToAnswer` |
| `ArpRespondProofs` | `TypeOK`, `RepliesNotAnswered`, `AnsweredByOwnEntry`, `ArpFollowsTable` |
| `HeaderProofs` | the headers that are no packet program. `Skel`: `TypeOK`, `NoFdLeak`, `NeverClosesOthers`, `FinalizeFdValid`, `ErrIsFirstFailure`, `DataSound`, `MemReleased`. `Crc`: `NoReadOutside` (`ReadsInBounds`), `ReadsInWireOrder` |

**The packet programs.** Their invariants have the same parts:

* the types (`PnaOK`, with `TableInv` for the tables);
* `CpuInv`: what a busy CPU has at work is a packet in location "cpu" that is at
  no other CPU;
* `ScratchInv`: the map slot of a busy CPU is what the parser computes from the
  packet *as received*; in `FlowTracker` the ports are in the metadata once the
  lookup missed, in `Routing` a packet waits for `nh_table` only if it is to be
  routed;
* `SkbInv`: for each location, how a packet that is there relates to what was
  received: before it leaves a CPU it is the same (but for an etherType overwritten
  by XDP metadata while it is at work), and what it is when it is sent or dropped
  says what the properties need.

The argument, for each: the parser's result is determined by the packet alone
because the slot is zeroed first; from that the lengths of valid and parsed headers
agree, so no room is asked for and the deparser finds all bytes; what it writes is
what was read and not changed, since every field makes the round trip through
host order; so a second parse sees the packet received and accepts it again. The
step that sends or drops a packet is the only one that needs the tables, and reads
them when it runs, so nothing has to be remembered about them: this is why the
properties hold with a control plane that changes entries at any time.

`FlowTracker` adds `TableSound` to its invariant. Its refinement needs one fact
more, `PendingInv`: a packet whose CPU is between lookup and creation is not yet
marked for the kernel, so that the step that lets it go is its `Track`. Each step
of a CPU, of time, of a timer and of the control plane is shown to map to a
step of `Tracker` or to none. The IPv6 tracker has the same invariant (`IndInv6`) over its
own headers, and the same refinement.

**Bit fields.** Version, traffic class and flow label of an IPv6 header share four
bytes, which the deparser writes in parts with `write_partial`. `FieldsWritten`
shows, nibble by nibble, that the parts cover the four bytes and that no later part
undoes an earlier one, so the word on the wire is made of the three fields alone
(`BitFieldsWritten`); `FieldsRead` that the parser finds the same fields again. Two
nibbles that do not overlap are combined by their sum (`OrNibbles`), which is small
enough for the prover to do by cases.

**The ARP responder.** `ScratchInv` says what is in the map header by header
(`EthMd`, `ArpMd`, `Ipv4Md`). Its `SkbInv` says that no packet at work is marked for the
kernel and that what was sent for a whole ARP packet is one that the parser
rejects, as its operation is now 2; the latter is `RepliesNotAnswered`, the former
leaves two ways for an ARP packet, the answer and the drop (`ArpFollowsTable`). That the swap in place gives the reply to the asker
(`AnsweredByOwnEntry`) is shown of the step that sends it, with the table of that moment.

**The tunnel.** A packet holds its IP headers in a sequence, and the deparser lays the
valid ones over the first of it (`Over`), after room was made or taken at its
front. `OverSame` and `OverPushed` say what that leaves of a sequence of any length;
`PopResult` and `PushResult`, one for each way through the program, follow from them.
The map is described header by header as in the ARP responder (`Extracted`). In
`SkbInv` of this program a packet that was sent either lost its outer header
(`LeavesTunnelWhole`), has the length it came with, or was received outside of a
tunnel and is `Tunnelled` by some entry. The last part is what `EndsMeet` needs: the
entry may be gone from the table by the time the packet reaches the other end. The proof of `EndsMeet` runs the
program, as a function, a second time on what was sent (`EndReached`); the case in
which `bpf_skb_adjust_room` fails sends nothing. `EntersTunnelWhole` is about the step that
sends, with the table of that moment.

The outer checksum is made by adding the words of the header with end-around carry:
`ChecksumMade` shows that the words and the result sum up to a multiple of 65535
that is not 0, by counting the carries. The inner one is updated for the new
ttl. There `HopMade` meets a case that `UpdateKeepsValidity` excludes by its hypothesis: a header whose words are all 0
has a sum of 0, which is no right checksum, and the update turns it into a right one.
Such a header has no version, so it is no IPv4 header, but the program takes it for one:
hence `v.other # 0` in `OneHop`.

In `Routing` a lookup in `fib_table` takes the longest of the prefixes that match;
that there is one follows from the well-ordering of the numbers. `RouterImplemented`
takes a packet as resolved when `fib_table` has been read, to the index that its CPU
then holds, and as decided when `nh_table` has been read. `ScratchInv` gives that the CPU
holds the headers of its own packet at both moments, so the index is that of the packet's
own address and what leaves is the packet received; each step is then one of `Router` or
none, and what the control plane does in between is `Configure`.

**Checksums.** `UpdateKeepsValidity`: replacing a word m of a header by n and the
checksum by `~(~HC + ~m + n)` keeps a right checksum right and a wrong one wrong,
for all 16-bit values with m and n not 0. The proof goes through the value of the
updated checksum modulo 65535. `TtlDecKeepsChecksum` applies it to `ip_ttl_dec` of a
routable packet, from which `ChecksumFollows` is proved.

**The calculator.** `ResultRight`: for all operands and each of the five operations,
what is computed on two 16-bit halves and written in network order has, on the
wire, the bits that `ResultBit` says. A half is a sum of four nibbles of four bits each,
which is small enough for the prover at every level; two halves with equal bits are
equal; carry and borrow go from one place to the next (`CarryStep`), so the sum of
the reference's bits, weighted, is the sum of the operands; the bitwise operators
are unfolded place by place. The invariant of the pipeline then says that what is
sent is `Ans(r)`, the answer to the packet received; `AnswerToAnswer` follows from
`Ans(Ans(r))` being r with its result.

**The loader.** The invariant of `Skel` says by `pc` who owns which descriptor and where
each buffer is: `LoaderInv` (the loader's own map and program), `ProgInv`, `MapInv`
and `LinkInv` (what it leaves to the object), `ErrInv` (no failure before "out", the
first one after it, until the skeleton is detached) and `DataInv` (each map's data is unprepared, in its buffer,
handed to the map, lost or released). The two exceptions of `NoFdLeak` and
`MemReleased` are the cases in which it cannot be said otherwise.

**The CRC functions.** `CrcInv` relates the pointer, the loop counter and the number of bytes taken
at every place of the two functions, forwards and backwards. From it, for every size
of a field, no read is outside of it (`NoReadOutside`), and the bytes are taken in the
order of the wire, none twice and none left out (`ReadsInWireOrder`).

Only model-checked:

* liveness (`EveryPacketEnds`, `FlowsExpire`): fairness is out of the prover's reach;
* `RegisterIsCrc`, what the loops of `Crc` compute: induction over the bytes of
  a field, and the reference definition is recursive.

Every other property that a run checks is also a theorem.

## Not modelled

* The other externs of `pna.h` (hashes, counters, meters, digests, random): declared, and
  called by no program.
* The libbpf headers but for `skel_internal.h` and the byte swaps: `bpf_helper_defs.h`,
  `libbpf.h`, `bpf.h`, `btf.h` declare functions that are defined elsewhere;
  `bpf_tracing.h`, `bpf_core_read.h` and `bpf_helpers.h` are macros that the compiler
  expands and that keep no state; no program uses `usdt.bpf.h`. In `skel_internal.h`,
  `skel_map_delete_elem` and `skel_map_get_fd_by_id`, which have no caller.
* Makefiles, `build-simple-p4`, templates and purge scripts as scripts: they run
  once; what the programs see of the templates (sizes, actions, defaults) is
  in the models. `calc.py` is an interactive client; the requests it can send are
  among those of `MCCalc`.
* An XDP stage: the repository has none; its `internal_metadata` is modelled as an
  optional prefix.
* What an earlier user of `skb->cb` leaves in it: outside the repository, see the
  assumptions.

## Plan

1. `Pna`, `FlowTracker` with proofs, `Routing` with `Router`, `RedirectL2`,
   `SimpleL3`, `Ipip`, `ArpRespond` (done).
2. `Word`, `Calc`, `FlowTable`, `FlowTrackerIpv6`, `Tracker`, `Crc`, `Skel` (done).
3. Proofs: `Spec => T!Spec` of `FlowTracker`; the invariants of `Skel`, `Routing`,
   `RedirectL2`, `SimpleL3` and `Calc`; the refinement of `Router` (done).
4. Proofs: `ArpRespond`; `FlowTrackerIpv6` with its bit fields and its refinement of
   `Tracker`; the reads of `Crc` (done).
5. Proofs: `Ipip`, its payload and both checksums (done).
