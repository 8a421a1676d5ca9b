-------------------------------- MODULE Crc ---------------------------------
(***************************************************************************)
(* crc16_update and crc32_update of the generated headers, which a hash    *)
(* extern calls once for each field: a call goes over the bytes of the     *)
(* field in memory and takes the register along.                           *)
(*                                                                         *)
(* crc16_update works bit by bit; crc32_update takes eight bytes at a time *)
(* out of eight tables, and the bytes that are left one by one.  A field   *)
(* of up to 8 bytes is an integer of the (little-endian) host, so both     *)
(* read it from its last byte to its first; a longer one is an array in    *)
(* network byte order.                                                     *)
(***************************************************************************)
EXTENDS Word, Crc32Table

CONSTANT
  Inputs   \* records of alg ("crc16" or "crc32"), poly, seed and msg, a
           \* sequence of fields, each the sequence of its bytes on the wire

\* data_size is a u16.
ASSUME InputsAssumption ==
  \A x \in Inputs :
    /\ x.alg \in {"crc16", "crc32"}
    /\ x.msg \in Seq(Seq(Byte))
    /\ \A n \in 1 .. Len(x.msg) : Len(x.msg[n]) <= 65535

VARIABLES
  in,       \* the input
  fld,      \* the field at work
  at,       \* "call", "slices", "bytes" or "done"
  tmp,      \* how many bytes of the field have been read
  current,  \* where the next ones are: an offset into the field's memory
  reg       \* the register

crcvars == <<in, fld, at, tmp, current, reg>>

-----------------------------------------------------------------------------
\* How the callers hold a field: struct members are integers up to u64 and
\* byte arrays above.
Memory(f) == IF Len(f) <= 8 THEN [i \in 1 .. Len(f) |-> f[Len(f) + 1 - i]] ELSE f

Field     == in.msg[fld]
data_size == Len(Field)

ByteAt(o)  == Memory(Field)[o + 1]
u32At(o)   == WordAt([i \in 1 .. 4 |-> Memory(Field)[o + i]])

-----------------------------------------------------------------------------
(* crc16_update *)

xor16(x, y) == Bitwise2(XorBit, 16, x, y)

\* The eight shifts of the inner loop.
crc16_byte(r, d, poly) ==
  LET shifted[bit \in 0 .. 8] ==
        IF bit = 0 THEN xor16(r, d)
        ELSE LET s == shifted[bit - 1]
             IN IF s % 2 = 1 THEN xor16(s \div 2, poly) ELSE s \div 2
  IN shifted[8]

Crc16Call ==
  /\ at = "call" /\ in.alg = "crc16" /\ fld <= Len(in.msg)
  /\ current' = IF data_size <= 8 THEN data_size - 1 ELSE 0
  /\ tmp' = 0
  /\ at' = "bytes"
  /\ UNCHANGED <<in, fld, reg>>

Crc16Byte ==
  /\ at = "bytes" /\ in.alg = "crc16" /\ tmp < data_size
  /\ reg' = crc16_byte(reg, ByteAt(current), in.poly)
  /\ current' = IF data_size <= 8 THEN current - 1 ELSE current + 1
  /\ tmp' = tmp + 1
  /\ UNCHANGED <<in, fld, at>>

crc16_finalize(r) == r

-----------------------------------------------------------------------------
(* crc32_update *)

\* The loop starts over at data + 4 when the field is one integer of 8
\* bytes; its two halves are then read backwards, their bytes swapped.
FirstAt(size, cur) == IF size = 8 THEN 4 ELSE cur
NextAt(size, cur)  == IF size = 8 THEN cur - 4 ELSE cur + 4

Dword_no_swap(size, o) == u32At(o)
Dword(size, o) == IF size = 8 THEN swab32(u32At(o)) ELSE u32At(o)

\* One round: a word of each table for each byte, the first byte's from the
\* last table.  (u8)(one >> 8 * n) is byte n of one in memory order.
crc32_slice(r, first, second) ==
  LET one == WordBytes(xor32(first, r))
      two == WordBytes(second)
  IN xor32(xor32(xor32(TableWord(crc32_table_7, one[1]), TableWord(crc32_table_6, one[2])),
                 xor32(TableWord(crc32_table_5, one[3]), TableWord(crc32_table_4, one[4]))),
           xor32(xor32(TableWord(crc32_table_3, two[1]), TableWord(crc32_table_2, two[2])),
                 xor32(TableWord(crc32_table_1, two[3]), TableWord(crc32_table_0, two[4]))))

\* One byte of what is left.
crc32_byte(r, d) ==
  LET key == Bitwise2(XorBit, 8, r[2], d)
  IN xor32(shr32(r, 8), TableWord(crc32_table_0, key))

SliceBytes == 8

Crc32Call ==
  /\ at = "call" /\ in.alg = "crc32" /\ fld <= Len(in.msg)
  /\ current' = 0
  /\ tmp' = 0
  /\ at' = "slices"
  /\ UNCHANGED <<in, fld, reg>>

Crc32Slice ==
  LET at1 == FirstAt(data_size, current)
      at2 == NextAt(data_size, at1)
  IN /\ at = "slices" /\ data_size - tmp >= 8
     /\ reg' = crc32_slice(reg, Dword(data_size, at1), Dword(data_size, at2))
     /\ current' = NextAt(data_size, at2)
     /\ tmp' = tmp + SliceBytes
     /\ UNCHANGED <<in, fld, at>>

\* A field of less than 8 bytes is read from its end.
TailAtPastEnd(size, cur) == IF size < 8 THEN cur + size ELSE cur
TailAt(size, cur) == IF size < 8 THEN cur + size - 1 ELSE cur

Crc32Tail ==
  /\ at = "slices" /\ data_size - tmp < 8
  /\ current' = TailAt(data_size, current)
  /\ at' = "bytes"
  /\ UNCHANGED <<in, fld, tmp, reg>>

Crc32Byte ==
  /\ at = "bytes" /\ in.alg = "crc32" /\ tmp < data_size
  /\ reg' = crc32_byte(reg, ByteAt(current))
  /\ current' = IF data_size < 8 THEN current - 1 ELSE current + 1
  /\ tmp' = tmp + 1
  /\ UNCHANGED <<in, fld, at>>

crc32_finalize(r) == xor32(r, <<65535, 65535>>)

-----------------------------------------------------------------------------
\* The caller goes on to the next field, and finalizes after the last.
CrcReturn ==
  /\ at = "bytes" /\ tmp = data_size
  /\ fld' = fld + 1
  /\ at' = "call"
  /\ UNCHANGED <<in, tmp, current, reg>>

CrcFinalize ==
  /\ at = "call" /\ fld > Len(in.msg)
  /\ reg' = IF in.alg = "crc16" THEN crc16_finalize(reg) ELSE crc32_finalize(reg)
  /\ at' = "done"
  /\ UNCHANGED <<in, fld, tmp, current>>

CrcInit ==
  /\ in \in Inputs
  /\ fld = 1 /\ at = "call" /\ tmp = 0 /\ current = 0
  /\ reg = in.seed

CrcNext ==
  \/ Crc16Call \/ Crc16Byte
  \/ Crc32Call \/ Crc32Slice \/ Crc32Tail \/ Crc32Byte
  \/ CrcReturn \/ CrcFinalize

CrcSpec == CrcInit /\ [][CrcNext]_crcvars

-----------------------------------------------------------------------------
(* Properties *)

\* The values the variables take.
CrcTypeOK ==
  /\ in \in Inputs
  /\ fld \in 1 .. Len(in.msg) + 1
  /\ at \in {"call", "slices", "bytes", "done"}
  /\ reg \in IF in.alg = "crc16" THEN U16 ELSE U32
  /\ at \in {"slices", "bytes"} => tmp \in 0 .. data_size /\ current \in -4 .. data_size

(***************************************************************************)
(* The cyclic redundancy check by definition: the bits of the message, the *)
(* lowest bit of each byte first, are shifted through the register, and    *)
(* the polynomial is subtracted whenever a one falls out.  A register of   *)
(* 16 bits is the low half of a word.                                      *)
(***************************************************************************)
Shifted(r, bit, poly) ==
  LET half == shr32(r, 1)
  IN IF (r[2] + bit) % 2 = 1 THEN xor32(half, poly) ELSE half

ByteShifted(r, byte, poly) ==
  LET after[n \in 0 .. 8] == IF n = 0 THEN r ELSE Shifted(after[n - 1], Bit(byte, n - 1), poly)
  IN after[8]

\* (Bound in singletons, a byte is worked off before the next one is begun.)
CrcOf(seed, poly, bytes) ==
  LET after[n \in 0 .. Len(bytes)] ==
        IF n = 0 THEN seed ELSE CHOOSE r \in {ByteShifted(q, bytes[n], poly) : q \in {after[n - 1]}} : TRUE
  IN after[Len(bytes)]

\* The bytes read so far, in the order they have on the wire.
Joined(msg, n) ==
  LET upTo[i \in 0 .. n] == IF i = 0 THEN <<>> ELSE upTo[i - 1] \o msg[i]
  IN upTo[n]

Consumed ==
  IF at \in {"slices", "bytes"}
    THEN Joined(in.msg, fld - 1) \o SubSeq(Field, 1, tmp)
    ELSE Joined(in.msg, fld - 1)

Poly32 == <<\hedb8, \h8320>>   \* crc32_update does not look at poly

(***************************************************************************)
(* Whatever the fields are, and wherever they are cut, the register is the *)
(* check of the bytes on the wire so far: reading integers backwards and   *)
(* arrays forwards amounts to one pass in network order, and eight bytes   *)
(* through the tables to eight bytes bit by bit.                           *)
(***************************************************************************)
RegisterIsCrc ==
  at # "done" =>
    IF in.alg = "crc16"
      THEN <<0, reg>> = CrcOf(<<0, in.seed>>, <<0, in.poly>>, Consumed)
      ELSE reg = CrcOf(in.seed, Poly32, Consumed)

(***************************************************************************)
(* The pointers that run forwards or backwards through a field are never   *)
(* read through outside of it, at a size of 8 and at either side of it.    *)
(***************************************************************************)
NextReads ==
  CASE at = "slices" /\ data_size - tmp >= 8 ->
         LET at1 == FirstAt(data_size, current)
             at2 == NextAt(data_size, at1)
         IN (at1 .. at1 + 3) \cup (at2 .. at2 + 3)
    [] at = "bytes" /\ tmp < data_size -> {current}
    [] OTHER -> {}

ReadsInBounds == NextReads # {} => NextReads \subseteq 0 .. data_size - 1
=============================================================================
