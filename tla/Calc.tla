-------------------------------- MODULE Calc --------------------------------
(***************************************************************************)
(* calc: a packet that carries a P4 calculator header gets the result of   *)
(* its operation filled in and goes back where it came from; every other   *)
(* packet is dropped.  The parser looks ahead three times, each time at    *)
(* the whole header, before it extracts it.                                *)
(*                                                                         *)
(* The table calculate has constant entries that the control plane may     *)
(* only read, so it is a constant here.                                    *)
(***************************************************************************)
EXTENDS Pna, Word

CONSTANT Frames   \* the contents a received packet may have

vars == pnaVars

CalcLen == 16

P4CALC_ETYPE == 4660       \* 0x1234
P4CALC_P     == 80         \* 'P'
P4CALC_4     == 52         \* '4'
P4CALC_VER   == 1
P4CALC_PLUS  == 43
P4CALC_MINUS == 45
P4CALC_AND   == 38
P4CALC_OR    == 124
P4CALC_CARET == 94

Mac == [1 .. 6 -> Byte]
U64 == [1 .. 8 -> Byte]

-----------------------------------------------------------------------------
\* The contents of a packet that is as long as len; fields behind its end
\* have no meaning.  Operands and result are bytes as on the wire.
Frame == [len : Nat, md : Half \cup {NoMd}, dmac : Mac, smac : Mac, etherType : Half,
          p : Byte, four : Byte, ver : Byte, op : Byte, a : Bytes4, b : Bytes4, res : Bytes4]

ASSUME FramesAssumption == Frames \subseteq Frame

NoMac  == <<0, 0, 0, 0, 0, 0>>
NoWord == <<0, 0, 0, 0>>

NoFrame == [len |-> 0, md |-> NoMd, dmac |-> NoMac, smac |-> NoMac, etherType |-> <<0, 0>>,
            p |-> 0, four |-> 0, ver |-> 0, op |-> 0, a |-> NoWord, b |-> NoWord, res |-> NoWord]

\* struct p4calc_t, struct hdr_md.
P4calc == [valid : BOOLEAN, p : Byte, four : Byte, ver : Byte, op : Byte,
           operand_a : U32, operand_b : U32, res : U32]

HdrMd == [eth : [valid : BOOLEAN, dstAddr : U64, srcAddr : U64, etherType : U16],
          p4calc : P4calc, offset : Nat]

Zero64 == [i \in 1 .. 8 |-> 0]

ZeroP4calc == [valid |-> FALSE, p |-> 0, four |-> 0, ver |-> 0, op |-> 0,
               operand_a |-> <<0, 0>>, operand_b |-> <<0, 0>>, res |-> <<0, 0>>]

ZeroHdrMd == [eth |-> [valid |-> FALSE, dstAddr |-> Zero64, srcAddr |-> Zero64, etherType |-> 0],
              p4calc |-> ZeroP4calc, offset |-> 0]

-----------------------------------------------------------------------------
(* run_parser *)

\* The header as it is read, into a local variable or into the map.
P4calcOf(f) == [valid |-> TRUE, p |-> f.p, four |-> f.four, ver |-> f.ver, op |-> f.op,
                operand_a |-> load_word(f.a), operand_b |-> load_word(f.b), res |-> load_word(f.res)]

parse_p4calc(f, md) ==
  IF TooShort(f, md, CalcLen)
    THEN Reject(md, PacketTooShort)
    ELSE Accept([eth |-> md.eth, p4calc |-> P4calcOf(f), offset |-> md.offset + CalcLen])

\* A lookahead restores the offset.
lookahead_moves(md) == [md EXCEPT !.offset = @ + CalcLen]
lookahead(md) == md

\* p, four and ver are each taken from a lookahead of its own.
check_p4calc(f, md) ==
  LET tmp0 == P4calcOf(f)
      md0  == lookahead(md)
      tmp2 == P4calcOf(f)
      md2  == lookahead(md0)
      tmp4 == P4calcOf(f)
      md4  == lookahead(md2)
  IN CASE TooShort(f, md, CalcLen) \/ TooShort(f, md0, CalcLen) \/ TooShort(f, md2, CalcLen) ->
            Reject(md, PacketTooShort)
       [] OTHER ->
            IF <<tmp0.p, tmp2.four, tmp4.ver>> = <<P4CALC_P, P4CALC_4, P4CALC_VER>>
              THEN parse_p4calc(f, md4)
              ELSE Accept(md4)

\* __builtin_memcpy of 6 bytes into a u64 of the zeroed map.
MacIn64(m) == [i \in 1 .. 8 |-> IF i <= 6 THEN m[i] ELSE 0]

WithEth(f, md) ==
  [eth |-> [valid |-> TRUE, dstAddr |-> MacIn64(f.dmac), srcAddr |-> MacIn64(f.smac),
            etherType |-> load_half(f.etherType)],
   p4calc |-> md.p4calc, offset |-> md.offset + EthLen]

start(f, md) ==
  CASE TooShort(f, md, EthLen) -> Reject(md, PacketTooShort)
    [] ~TooShort(f, md, EthLen) /\ load_half(f.etherType) = P4CALC_ETYPE -> check_p4calc(f, WithEth(f, md))
    [] OTHER -> Accept(WithEth(f, md))

memset_missing(md) == [md EXCEPT !.offset = 0]
memset(md) == ZeroHdrMd

run_parser(f, md) == start(f, memset(md))

-----------------------------------------------------------------------------
(* process *)

\* The map with a result, and with other addresses.
WithAnswer(md, result, dst, src) ==
  LET h == md.p4calc
  IN [eth |-> [valid |-> md.eth.valid, dstAddr |-> dst, srcAddr |-> src, etherType |-> md.eth.etherType],
      p4calc |-> [valid |-> h.valid, p |-> h.p, four |-> h.four, ver |-> h.ver, op |-> h.op,
                  operand_a |-> h.operand_a, operand_b |-> h.operand_b, res |-> result],
      offset |-> md.offset]

\* The result is filled in, the addresses trade places (one of them is
\* taken to host order and back on the way), and the packet goes to p, the
\* device it came from.
send_back_host_order(md, b, p, result) ==
  [md |-> WithAnswer(md, result, md.eth.srcAddr, swab64(md.eth.dstAddr)), cb |-> send_to_port(b, p)]
send_back(md, b, p, result) ==
  LET tmp == swab64(md.eth.dstAddr)
  IN [md |-> WithAnswer(md, result, md.eth.srcAddr, swab64(tmp)), cb |-> send_to_port(b, p)]

operation_add(md, b, p) == send_back(md, b, p, add32(md.p4calc.operand_a, md.p4calc.operand_b))
operation_sub(md, b, p) == send_back(md, b, p, sub32(md.p4calc.operand_a, md.p4calc.operand_b))
operation_and(md, b, p) == send_back(md, b, p, and32(md.p4calc.operand_a, md.p4calc.operand_b))
operation_or(md, b, p)  == send_back(md, b, p, or32(md.p4calc.operand_a, md.p4calc.operand_b))
operation_xor(md, b, p) == send_back(md, b, p, xor32(md.p4calc.operand_a, md.p4calc.operand_b))
operation_drop(md, b)   == [md |-> md, cb |-> drop_packet(b)]

\* The table calculate: the action of the entry for op, or the default one.
calculate_value(op) ==
  CASE op = P4CALC_PLUS  -> "operation_add"
    [] op = P4CALC_MINUS -> "operation_sub"
    [] op = P4CALC_AND   -> "operation_and"
    [] op = P4CALC_OR    -> "operation_or"
    [] op = P4CALC_CARET -> "operation_xor"
    [] OTHER -> "operation_drop"

calculate(md, b, p) ==
  LET action == calculate_value(md.p4calc.op)
  IN CASE action = "operation_add" -> operation_add(md, b, p)
       [] action = "operation_sub" -> operation_sub(md, b, p)
       [] action = "operation_and" -> operation_and(md, b, p)
       [] action = "operation_or"  -> operation_or(md, b, p)
       [] action = "operation_xor" -> operation_xor(md, b, p)
       [] action = "operation_drop" -> operation_drop(md, b)

MainControlNoElse(md, b, p) ==
  IF md.p4calc.valid THEN calculate(md, b, p) ELSE [md |-> md, cb |-> b]
MainControl(md, b, p) ==
  IF md.p4calc.valid THEN calculate(md, b, p) ELSE operation_drop(md, b)

OutHeaderLength(md) ==
  (IF md.eth.valid THEN EthLen ELSE 0) + (IF md.p4calc.valid THEN CalcLen ELSE 0)

\* The first 6 bytes of a u64 are written.
MacOf64(u) == [i \in 1 .. 6 |-> u[i]]

WriteHeaders(f, md) ==
  LET e == md.eth
      h == md.p4calc
  IN [len |-> f.len, md |-> f.md,
      dmac |-> IF e.valid THEN MacOf64(e.dstAddr) ELSE f.dmac,
      smac |-> IF e.valid THEN MacOf64(e.srcAddr) ELSE f.smac,
      etherType |-> IF e.valid THEN emit_half(e.etherType) ELSE f.etherType,
      p |-> IF h.valid THEN h.p ELSE f.p,
      four |-> IF h.valid THEN h.four ELSE f.four,
      ver |-> IF h.valid THEN h.ver ELSE f.ver,
      op |-> IF h.valid THEN h.op ELSE f.op,
      a |-> IF h.valid THEN emit_word(h.operand_a) ELSE f.a,
      b |-> IF h.valid THEN emit_word(h.operand_b) ELSE f.b,
      res |-> IF h.valid THEN emit_word(h.res) ELSE f.res]

Emit(f, md, b) ==
  IF f.len < OutHeaderLength(md)
    THEN [ret |-> TC_ACT_SHOT, frame |-> f, cb |-> b, md |-> md]
    ELSE [ret |-> Continue, frame |-> WriteHeaders(f, md), cb |-> b, md |-> md]

\* (What the deparser leaves in the map is not read before it is zeroed.)
Deparse(f, md, b) ==
  IF b.drop
    THEN {[ret |-> TC_ACT_SHOT, frame |-> f, cb |-> b, md |-> md]}
    ELSE {IF r.ret = TC_ACT_SHOT
            THEN [ret |-> TC_ACT_SHOT, frame |-> r.frame, cb |-> b, md |-> md]
            ELSE Emit(r.frame, md, b) : r \in adjust_room(f, OutHeaderLength(md) - md.offset)}

process(p, f, md, b) ==
  LET r == MainControl(md, b, p) IN Deparse(f, r.md, r.cb)

-----------------------------------------------------------------------------
Init == PnaInit(NoFrame, ZeroHdrMd)

Receive(s) == \E p \in Ports, f \in Frames : Arrive(s, p, f)

Parse(c, s) == TcParseFunc(c, s, run_parser(frame[s], hdrMd[c]))

IngressEarly(c) == pc[c] = "main" /\ EarlyReturn(c)

Process(c) ==
  /\ EntersMain(c)
  /\ \E r \in process(port[cur[c]], RestoreEtherType(frame[cur[c]]), hdrMd[c], cb[cur[c]]) :
       Return(c, r)

Main(c) == IngressEarly(c) \/ Process(c)

(***************************************************************************)
(* The packet sent by s comes back as a packet of its own, n: the client   *)
(* sends an answer again as it is, or another calculator has the wire's    *)
(* other end.  It arrives on the port it left by.                          *)
(***************************************************************************)
ComesBack(s, n) ==
  /\ loc[s] = "sent"
  /\ Arrive(n, cb[s].egress_port, frame[s])

Next ==
  \/ \E s \in Skbs : Receive(s)
  \/ \E s, n \in Skbs : ComesBack(s, n)
  \/ \E c \in Cpus, s \in Skbs : Parse(c, s)
  \/ \E c \in Cpus : Main(c)

Spec == Init /\ [][Next]_vars

-----------------------------------------------------------------------------
(* Properties *)

\* The values the variables take.
TypeOK ==
  /\ loc \in [Skbs -> Locs]
  /\ port \in [Skbs -> Nat]
  /\ frame \in [Skbs -> Frame]
  /\ cb \in [Skbs -> Cb]
  /\ pc \in [Cpus -> {"idle", "main"}]
  /\ cur \in [Cpus -> Skbs \cup {NoSkb}]
  /\ hdrMd \in [Cpus -> HdrMd]
  /\ rcvd \in [Skbs -> Frame]

\* A packet with a calculator header, and one whose operation is known.
IsCalc(f) ==
  /\ f.len >= EthLen + CalcLen
  /\ f.etherType = <<18, 52>>
  /\ <<f.p, f.four, f.ver>> = <<80, 52, 1>>

IsRequest(f) == IsCalc(f) /\ f.op \in {43, 45, 38, 124, 94}

(***************************************************************************)
(* The arithmetic of the calculator said bit by bit about the bytes on the *)
(* wire: bit i of a sum is the sum of the bits and of the carry, and there *)
(* is a carry when some place below makes one and every place between      *)
(* hands it on.                                                            *)
(***************************************************************************)
WireBit(w, i) == Bit(w[4 - i \div 8], i % 8)

Carry(a, b, i) ==
  \E j \in 0 .. i - 1 :
    /\ WireBit(a, j) = 1 /\ WireBit(b, j) = 1
    /\ \A k \in j + 1 .. i - 1 : WireBit(a, k) = 1 \/ WireBit(b, k) = 1

Borrow(a, b, i) ==
  \E j \in 0 .. i - 1 :
    /\ WireBit(a, j) = 0 /\ WireBit(b, j) = 1
    /\ \A k \in j + 1 .. i - 1 : WireBit(a, k) = 0 \/ WireBit(b, k) = 1

ResultBit(op, a, b, i) ==
  LET x == WireBit(a, i)
      y == WireBit(b, i)
  IN CASE op = 43  -> (x + y + IF Carry(a, b, i) THEN 1 ELSE 0) % 2
       [] op = 45  -> (x + y + IF Borrow(a, b, i) THEN 1 ELSE 0) % 2
       [] op = 38  -> IF x = 1 /\ y = 1 THEN 1 ELSE 0
       [] op = 124 -> IF x = 1 \/ y = 1 THEN 1 ELSE 0
       [] op = 94  -> IF x # y THEN 1 ELSE 0

(***************************************************************************)
(* What is sent is the answer to the packet's own request: the result is   *)
(* right in all 32 bits, over carries and borrows that run from the lowest *)
(* byte to the highest and wrap; it goes to the asker, out of the asker's  *)
(* port, and nothing else of the packet has changed.                       *)
(***************************************************************************)
AnsweredRight ==
  \A s \in Skbs : loc[s] = "sent" =>
    LET f == rcvd[s]
        g == frame[s]
    IN /\ IsRequest(f)
       /\ \A i \in 0 .. 31 : WireBit(g.res, i) = ResultBit(f.op, f.a, f.b, i)
       /\ g = [f EXCEPT !.dmac = f.smac, !.smac = f.dmac, !.res = g.res]
       /\ cb[s].egress_port = port[s]

(***************************************************************************)
(* calc.p4: "If an unknown operation is specified or the header is not     *)
(* valid, the packet is dropped", packets that end inside a header and     *)
(* ones of other types included: none reaches the stack.                   *)
(***************************************************************************)
NoneToStack == \A s \in Skbs : loc[s] # "stack" /\ ~cb[s].pass_to_kernel

(***************************************************************************)
(* No request is dropped: three lookaheads and an extraction read the same *)
(* bytes, so a packet that ends with the header, without a payload, is     *)
(* long enough for each, and the deparser finds room for what was parsed.  *)
(***************************************************************************)
RequestsNotDropped == \A s \in Skbs : loc[s] = "dropped" => ~IsRequest(rcvd[s])

(***************************************************************************)
(* An answer is itself a request, and is answered when it comes back; but  *)
(* nothing is added up on the way: the answer to an answer is the request  *)
(* with the same result in it, back with the addresses it first had.       *)
(***************************************************************************)
AnswerToAnswer ==
  \A s, n \in Skbs :
    s # n /\ loc[s] = "sent" /\ loc[n] = "sent" /\ rcvd[n] = frame[s] =>
      frame[n] = [rcvd[s] EXCEPT !.res = frame[s].res]
=============================================================================
