-------------------------------- MODULE Word --------------------------------
(***************************************************************************)
(* 32-bit words, 64-bit words and bit fields.                              *)
(*                                                                         *)
(* A u32 of the host is the pair of its halves, the high one first, so     *)
(* that no number here is larger than 2^31.  A u64 that holds a MAC        *)
(* address is only moved and swapped: it is the sequence of its 8 bytes in *)
(* memory order.  The host is little-endian.                               *)
(***************************************************************************)
EXTENDS Wire

U32   == U16 \X U16
Bytes4 == Byte \X Byte \X Byte \X Byte

-----------------------------------------------------------------------------
(* Byte order *)

\* ___bpf_swab16, ___bpf_swab32, ___bpf_swab64.
swab16(v) == (v % 256) * 256 + v \div 256
swab32(v) == <<swab16(v[2]), swab16(v[1])>>
swab64(m) == [i \in 1 .. 8 |-> m[9 - i]]

\* *(u32 *)p, and the bytes of a u32 of the host, in memory order.
WordAt(b)      == <<b[3] + 256 * b[4], b[1] + 256 * b[2]>>
WordBytes(v)   == <<v[2] % 256, v[2] \div 256, v[1] % 256, v[1] \div 256>>

\* bpf_ntohl(*(u32 *)p).  Deparsing a 32-bit field: htonl, then byte by byte.
load_word(b) == swab32(WordAt(b))
emit_word_raw(v) == WordBytes(v)
emit_word(v) == WordBytes(swab32(v))

-----------------------------------------------------------------------------
(* Arithmetic *)

Bit(x, i) == (x \div 2^i) % 2

\* Op on the lowest n bits of x and y.
Bitwise2(Op(_, _), n, x, y) ==
  LET upTo[i \in 0 .. n] ==
        IF i = 0 THEN 0 ELSE upTo[i - 1] + 2^(i - 1) * Op(Bit(x, i - 1), Bit(y, i - 1))
  IN upTo[n]

AndBit(x, y) == x * y
OrBit(x, y)  == x + y - x * y
XorBit(x, y) == (x + y) % 2

\* The operators of C on a u32.
and32(v, w) == <<Bitwise2(AndBit, 16, v[1], w[1]), Bitwise2(AndBit, 16, v[2], w[2])>>
or32(v, w)  == <<Bitwise2(OrBit, 16, v[1], w[1]), Bitwise2(OrBit, 16, v[2], w[2])>>
xor32(v, w) == <<Bitwise2(XorBit, 16, v[1], w[1]), Bitwise2(XorBit, 16, v[2], w[2])>>

add32(v, w) ==
  LET low == v[2] + w[2]
  IN <<(v[1] + w[1] + low \div 65536) % 65536, low % 65536>>

\* The low half borrows from the high one when it is too small.
sub32(v, w) ==
  LET borrow == IF v[2] < w[2] THEN 1 ELSE 0
  IN <<(v[1] - w[1] - borrow) % 65536, (v[2] - w[2]) % 65536>>

\* Shifts by n bits, n at most 16.
shr32(v, n) == <<v[1] \div 2^n, v[2] \div 2^n + (v[1] % 2^n) * 2^(16 - n)>>
shl32(v, n) == <<((v[1] * 2^n) % 65536) + v[2] \div 2^(16 - n), (v[2] * 2^n) % 65536>>

-----------------------------------------------------------------------------
(* Bit fields *)

\* x & EBPF_MASK(u8, w), and write_partial(a, w, s, v), a being the byte as
\* it is in the packet: w bits of it from bit s on are replaced by v, of
\* which the store to a u8 keeps what fits.
LowBits(x, w) == x % 2^w

write_partial_or(a, w, s, v) == Bitwise2(OrBit, 8, a, (v * 2^s) % 256)
write_partial(a, w, s, v) ==
  LET cleared == a - LowBits(a \div 2^s, w) * 2^s
  IN Bitwise2(OrBit, 8, cleared, (v * 2^s) % 256)
=============================================================================
