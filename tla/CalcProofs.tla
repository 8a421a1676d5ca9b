------------------------------ MODULE CalcProofs ----------------------------
(***************************************************************************)
(* calc: the results are right for all operands, bit by bit, and the       *)
(* pipeline delivers them, for any number of CPUs and packets.             *)
(***************************************************************************)
EXTENDS Calc, PnaProofs

-----------------------------------------------------------------------------
(* Bits *)

\* The 16 bits of a half, and the half that 16 bits make up, four by four.
Bits16 == [0 .. 15 -> {0, 1}]

BitsOf(x) == [i \in 0 .. 15 |-> Bit(x, i)]

Nibble(a, b, c, d) == a + 2 * b + 4 * c + 8 * d

Weight(t) ==
  Nibble(t[0], t[1], t[2], t[3]) + 16 * Nibble(t[4], t[5], t[6], t[7])
    + 256 * Nibble(t[8], t[9], t[10], t[11]) + 4096 * Nibble(t[12], t[13], t[14], t[15])

\* x is made up of the nibbles a, b, c and d, the lowest one first; they are
\* the nibbles of x.
MadeOf(x, a, b, c, d) == x = a + 16 * b + 256 * c + 4096 * d

HasNibbles(x, a, b, c, d) ==
  x % 16 = a /\ (x \div 16) % 16 = b /\ (x \div 256) % 16 = c /\ (x \div 4096) % 16 = d

\* a, b, c and d are the lowest bits of n, the lowest one first.
LowBits4(n, a, b, c, d) ==
  n % 2 = a /\ (n \div 2) % 2 = b /\ (n \div 4) % 2 = c /\ (n \div 8) % 2 = d

(***************************************************************************)
(* Four bits are those of the nibble they make up.                         *)
(***************************************************************************)
LEMMA NibbleBits ==
  ASSUME NEW a \in {0, 1}, NEW b \in {0, 1}, NEW c \in {0, 1}, NEW d \in {0, 1}
  PROVE  Nibble(a, b, c, d) \in 0 .. 15 /\ LowBits4(Nibble(a, b, c, d), a, b, c, d)
BY DEF Nibble, LowBits4

(***************************************************************************)
(* A nibble is what its four bits make up.                                 *)
(***************************************************************************)
LEMMA NibbleOfBits ==
  ASSUME NEW n \in 0 .. 15, NEW a, NEW b, NEW c, NEW d, LowBits4(n, a, b, c, d)
  PROVE  Nibble(a, b, c, d) = n
<1>1. Nibble(n % 2, (n \div 2) % 2, (n \div 4) % 2, (n \div 8) % 2) = n
  BY DEF Nibble
<1> QED
  BY <1>1, Zenon DEF LowBits4

(***************************************************************************)
(* A number has one lowest, one second lowest bit and so on.               *)
(***************************************************************************)
LEMMA SameLowBits ==
  ASSUME NEW n, NEW a, NEW b, NEW c, NEW d, NEW e, NEW f, NEW g, NEW h,
         LowBits4(n, a, b, c, d), LowBits4(n, e, f, g, h)
  PROVE  a = e /\ b = f /\ c = g /\ d = h
BY DEF LowBits4

(***************************************************************************)
(* A number and its lowest nibble.                                         *)
(***************************************************************************)
LEMMA ByNibble ==
  ASSUME NEW y \in Nat
  PROVE  y = 16 * (y \div 16) + (y % 16) /\ y % 16 \in 0 .. 15 /\ y \div 16 \in Nat
OBVIOUS

(***************************************************************************)
(* A half is four nibbles.                                                 *)
(***************************************************************************)
LEMMA HalfNibbles ==
  ASSUME NEW x \in U16
  PROVE  /\ x % 16 \in 0 .. 15 /\ (x \div 16) % 16 \in 0 .. 15
         /\ (x \div 256) % 16 \in 0 .. 15 /\ (x \div 4096) % 16 \in 0 .. 15
         /\ x = (x % 16) + 16 * ((x \div 16) % 16) + 256 * ((x \div 256) % 16)
                  + 4096 * ((x \div 4096) % 16)
<1> DEFINE y == x \div 16
           z == x \div 256
           w == x \div 4096
<1>1. x \in Nat /\ x < 65536
  BY DEF U16
<1>2. y \div 16 = z /\ z \div 16 = w /\ w % 16 = w /\ w \in 0 .. 15
  BY <1>1
<1>3. x = 16 * y + (x % 16) /\ x % 16 \in 0 .. 15 /\ y \in Nat
  BY <1>1, ByNibble
<1> HIDE DEF y, z, w
<1>4. y = 16 * z + (y % 16) /\ y % 16 \in 0 .. 15 /\ z \in Nat
  BY <1>2, <1>3, ByNibble
<1>5. z = 16 * w + (z % 16) /\ z % 16 \in 0 .. 15
  BY <1>2, <1>4, ByNibble
<1>6. x = (x % 16) + 16 * (y % 16) + 256 * (z % 16) + 4096 * (w % 16)
  <2> DEFINE a == x % 16
             b == y % 16
             c == z % 16
             d == w % 16
  <2>1. d = w /\ a \in 0 .. 15 /\ b \in 0 .. 15 /\ c \in 0 .. 15 
    BY <1>2, <1>3, <1>4, <1>5
  <2>2. x = 16 * y + a /\ y = 16 * z + b /\ z = 16 * w + c
    BY <1>3, <1>4, <1>5
  <2> HIDE DEF a, b, c, d
  <2> QED
    BY <1>1, <1>2, <1>3, <1>4, <2>1, <2>2
<1> QED
  BY <1>2, <1>3, <1>4, <1>5, <1>6 DEF y, z, w

(***************************************************************************)
(* Four nibbles make up a half, of which they are the nibbles.             *)
(***************************************************************************)
LEMMA NibblesMake ==
  ASSUME NEW a \in 0 .. 15, NEW b \in 0 .. 15, NEW c \in 0 .. 15, NEW d \in 0 .. 15,
         NEW x, MadeOf(x, a, b, c, d)
  PROVE  x \in U16 /\ HasNibbles(x, a, b, c, d)
<1> USE DEF MadeOf
<1>1. x \in Nat /\ x <= 65535
  OBVIOUS
<1>2. x % 16 = a /\ x \div 16 = b + 16 * c + 256 * d
  OBVIOUS
<1>3. (x \div 16) % 16 = b
  BY <1>2
<1>4. x \div 256 = c + 16 * d
  OBVIOUS
<1>5. (x \div 256) % 16 = c
  BY <1>4
<1>6. x \div 4096 = d
  OBVIOUS
<1>7. x \in U16
  BY <1>1, BoundsU16
<1> QED
  BY <1>2, <1>3, <1>5, <1>6, <1>7 DEF HasNibbles
(***************************************************************************)
(* The bits of a half are those of its nibbles.                            *)
(***************************************************************************)
LEMMA BitValues ==
  ASSUME NEW x \in U16
  PROVE  LET t == BitsOf(x)
         IN /\ t \in Bits16
            /\ LowBits4(x % 16, t[0], t[1], t[2], t[3])
            /\ LowBits4((x \div 16) % 16, t[4], t[5], t[6], t[7])
            /\ LowBits4((x \div 256) % 16, t[8], t[9], t[10], t[11])
            /\ LowBits4((x \div 4096) % 16, t[12], t[13], t[14], t[15])
<1> DEFINE t == BitsOf(x)
<1>1. x \in Nat
  BY DEF U16
<1>2. /\ 2^0 = 1 /\ 2^1 = 2 /\ 2^2 = 4 /\ 2^3 = 8 /\ 2^4 = 16 /\ 2^5 = 32 /\ 2^6 = 64 /\ 2^7 = 128
      /\ 2^8 = 256 /\ 2^9 = 512 /\ 2^10 = 1024 /\ 2^11 = 2048
      /\ 2^12 = 4096 /\ 2^13 = 8192 /\ 2^14 = 16384 /\ 2^15 = 32768
  OBVIOUS
<1>3. ASSUME NEW y \in Nat, NEW a, NEW b, NEW c, NEW d
      PROVE  LowBits4(y % 16, a, b, c, d) <=> LowBits4(y, a, b, c, d)
  <2>1. /\ y % 2 = (y % 16) % 2 /\ (y \div 2) % 2 = ((y % 16) \div 2) % 2
        /\ (y \div 4) % 2 = ((y % 16) \div 4) % 2 /\ (y \div 8) % 2 = ((y % 16) \div 8) % 2
    OBVIOUS
  <2> QED
    BY <2>1 DEF LowBits4
<1>4. /\ x \div 16 \in Nat /\ x \div 256 \in Nat /\ x \div 4096 \in Nat
      /\ x \div 32 = (x \div 16) \div 2 /\ x \div 64 = (x \div 16) \div 4
      /\ x \div 128 = (x \div 16) \div 8 /\ x \div 512 = (x \div 256) \div 2
      /\ x \div 1024 = (x \div 256) \div 4 /\ x \div 2048 = (x \div 256) \div 8
      /\ x \div 8192 = (x \div 4096) \div 2 /\ x \div 16384 = (x \div 4096) \div 4
      /\ x \div 32768 = (x \div 4096) \div 8
  BY <1>1
<1>5. \A i \in 0 .. 15 : t[i] = (x \div 2^i) % 2
  BY DEF BitsOf, Bit
<1>6. /\ t[0] = x % 2 /\ t[1] = (x \div 2) % 2 /\ t[2] = (x \div 4) % 2 /\ t[3] = (x \div 8) % 2
      /\ t[4] = (x \div 16) % 2 /\ t[5] = (x \div 32) % 2
      /\ t[6] = (x \div 64) % 2 /\ t[7] = (x \div 128) % 2
      /\ t[8] = (x \div 256) % 2 /\ t[9] = (x \div 512) % 2
      /\ t[10] = (x \div 1024) % 2 /\ t[11] = (x \div 2048) % 2
      /\ t[12] = (x \div 4096) % 2 /\ t[13] = (x \div 8192) % 2
      /\ t[14] = (x \div 16384) % 2 /\ t[15] = (x \div 32768) % 2
  BY <1>1, <1>2, <1>5
<1> HIDE DEF t
<1>7. LowBits4(x % 16, t[0], t[1], t[2], t[3])
  BY <1>1, <1>3, <1>6 DEF LowBits4
<1>8. LowBits4((x \div 16) % 16, t[4], t[5], t[6], t[7])
  <2>1. LowBits4(x \div 16, t[4], t[5], t[6], t[7])
    BY <1>4, <1>6 DEF LowBits4
  <2> QED
    BY <1>3, <1>4, <2>1
<1>9. LowBits4((x \div 256) % 16, t[8], t[9], t[10], t[11])
  <2>1. LowBits4(x \div 256, t[8], t[9], t[10], t[11])
    BY <1>4, <1>6 DEF LowBits4
  <2> QED
    BY <1>3, <1>4, <2>1
<1>10. LowBits4((x \div 4096) % 16, t[12], t[13], t[14], t[15])
  <2>1. LowBits4(x \div 4096, t[12], t[13], t[14], t[15])
    BY <1>4, <1>6 DEF LowBits4
  <2> QED
    BY <1>3, <1>4, <2>1
<1>11. t \in Bits16
  <2>1. ASSUME NEW y \in Nat, NEW a, NEW b, NEW c, NEW d, LowBits4(y, a, b, c, d)
        PROVE  a \in {0, 1} /\ b \in {0, 1} /\ c \in {0, 1} /\ d \in {0, 1}
    BY <2>1 DEF LowBits4
  <2>2. x % 16 \in Nat /\ (x \div 16) % 16 \in Nat /\ (x \div 256) % 16 \in Nat /\ (x \div 4096) % 16 \in Nat
    BY <1>1, <1>4
  <2>3. t[0] \in {0, 1} /\ t[1] \in {0, 1} /\ t[2] \in {0, 1} /\ t[3] \in {0, 1}
    BY <1>7, <2>1, <2>2
  <2>4. t[4] \in {0, 1} /\ t[5] \in {0, 1} /\ t[6] \in {0, 1} /\ t[7] \in {0, 1}
    BY <1>8, <2>1, <2>2
  <2>5. t[8] \in {0, 1} /\ t[9] \in {0, 1} /\ t[10] \in {0, 1} /\ t[11] \in {0, 1}
    BY <1>9, <2>1, <2>2
  <2>6. t[12] \in {0, 1} /\ t[13] \in {0, 1} /\ t[14] \in {0, 1} /\ t[15] \in {0, 1}
    BY <1>10, <2>1, <2>2
  <2>7. \A i \in 0 .. 15 : t[i] \in {0, 1}
    BY <2>3, <2>4, <2>5, <2>6
  <2>8. t = [i \in 0 .. 15 |-> t[i]]
    BY DEF t, BitsOf
  <2> QED
    BY <2>7, <2>8 DEF Bits16
<1> QED
  BY <1>7, <1>8, <1>9, <1>10, <1>11 DEF t

(***************************************************************************)
(* A half is what its bits make up.                                        *)
(***************************************************************************)
LEMMA HalfIsBits ==
  ASSUME NEW x \in U16
  PROVE  Weight(BitsOf(x)) = x
<1> DEFINE a == x % 16
           b == (x \div 16) % 16
           c == (x \div 256) % 16
           d == (x \div 4096) % 16
           t == BitsOf(x)
<1>1. /\ a \in 0 .. 15 /\ b \in 0 .. 15 /\ c \in 0 .. 15 /\ d \in 0 .. 15
      /\ x = a + 16 * b + 256 * c + 4096 * d
  BY HalfNibbles
<1>2. /\ LowBits4(a, t[0], t[1], t[2], t[3]) /\ LowBits4(b, t[4], t[5], t[6], t[7])
      /\ LowBits4(c, t[8], t[9], t[10], t[11]) /\ LowBits4(d, t[12], t[13], t[14], t[15])
  BY BitValues
<1> HIDE DEF a, b, c, d, t
<1>3. /\ Nibble(t[0], t[1], t[2], t[3]) = a /\ Nibble(t[4], t[5], t[6], t[7]) = b
      /\ Nibble(t[8], t[9], t[10], t[11]) = c /\ Nibble(t[12], t[13], t[14], t[15]) = d
  BY <1>1, <1>2, NibbleOfBits
<1> QED
  BY <1>1, <1>3 DEF Weight, t

(***************************************************************************)
(* Bits make up a half, of which they are the bits.                        *)
(***************************************************************************)
LEMMA BitsAreHalf ==
  ASSUME NEW t \in Bits16
  PROVE  Weight(t) \in U16 /\ BitsOf(Weight(t)) = t
<1> DEFINE a == Nibble(t[0], t[1], t[2], t[3])
           b == Nibble(t[4], t[5], t[6], t[7])
           c == Nibble(t[8], t[9], t[10], t[11])
           d == Nibble(t[12], t[13], t[14], t[15])
           x == Weight(t)
           u == BitsOf(x)
<1>1. \A i \in 0 .. 15 : t[i] \in {0, 1}
  BY DEF Bits16
<1>2. /\ a \in 0 .. 15 /\ LowBits4(a, t[0], t[1], t[2], t[3])
      /\ b \in 0 .. 15 /\ LowBits4(b, t[4], t[5], t[6], t[7])
      /\ c \in 0 .. 15 /\ LowBits4(c, t[8], t[9], t[10], t[11])
      /\ d \in 0 .. 15 /\ LowBits4(d, t[12], t[13], t[14], t[15])
  BY <1>1, NibbleBits
<1>3. MadeOf(x, a, b, c, d)
  BY DEF Weight, MadeOf
<1> HIDE DEF a, b, c, d, x
<1>4. a \in 0 .. 15 /\ b \in 0 .. 15 /\ c \in 0 .. 15 /\ d \in 0 .. 15
  BY <1>2
<1>5. x \in U16 /\ HasNibbles(x, a, b, c, d)
  BY <1>3, <1>4, NibblesMake
<1>6. /\ u \in Bits16
      /\ LowBits4(x % 16, u[0], u[1], u[2], u[3])
      /\ LowBits4((x \div 16) % 16, u[4], u[5], u[6], u[7])
      /\ LowBits4((x \div 256) % 16, u[8], u[9], u[10], u[11])
      /\ LowBits4((x \div 4096) % 16, u[12], u[13], u[14], u[15])
  BY <1>5, BitValues
<1> HIDE DEF u
<1>7. /\ LowBits4(a, u[0], u[1], u[2], u[3]) /\ LowBits4(b, u[4], u[5], u[6], u[7])
      /\ LowBits4(c, u[8], u[9], u[10], u[11]) /\ LowBits4(d, u[12], u[13], u[14], u[15])
  BY <1>5, <1>6 DEF HasNibbles
<1>8. /\ u[0] = t[0] /\ u[1] = t[1] /\ u[2] = t[2] /\ u[3] = t[3]
      /\ u[4] = t[4] /\ u[5] = t[5] /\ u[6] = t[6] /\ u[7] = t[7]
      /\ u[8] = t[8] /\ u[9] = t[9] /\ u[10] = t[10] /\ u[11] = t[11]
      /\ u[12] = t[12] /\ u[13] = t[13] /\ u[14] = t[14] /\ u[15] = t[15]
  <2>1. u[0] = t[0] /\ u[1] = t[1] /\ u[2] = t[2] /\ u[3] = t[3]
    BY <1>2, <1>7, SameLowBits
  <2>2. u[4] = t[4] /\ u[5] = t[5] /\ u[6] = t[6] /\ u[7] = t[7]
    BY <1>2, <1>7, SameLowBits
  <2>3. u[8] = t[8] /\ u[9] = t[9] /\ u[10] = t[10] /\ u[11] = t[11]
    BY <1>2, <1>7, SameLowBits
  <2>4. u[12] = t[12] /\ u[13] = t[13] /\ u[14] = t[14] /\ u[15] = t[15]
    BY <1>2, <1>7, SameLowBits
  <2> QED
    BY <2>1, <2>2, <2>3, <2>4
<1>9. \A i \in 0 .. 15 : u[i] = t[i]
  BY <1>8
<1>10. u = t
  BY <1>6, <1>9 DEF Bits16
<1> QED
  BY <1>5, <1>10 DEF x, u

(***************************************************************************)
(* The bits of two bytes are those of the half they make up.               *)
(***************************************************************************)
LEMMA ByteBits ==
  ASSUME NEW x \in Byte, NEW y \in Byte, NEW k \in 0 .. 7
  PROVE  Bit(x * 256 + y, k) = Bit(y, k) /\ Bit(x * 256 + y, k + 8) = Bit(x, k)
<1>1. x \in 0 .. 255 /\ y \in 0 .. 255
  BY DEF Byte
<1>2. k = 0 \/ k = 1 \/ k = 2 \/ k = 3 \/ k = 4 \/ k = 5 \/ k = 6 \/ k = 7
  OBVIOUS
<1>3. CASE k = 0
  <2>1. ((x * 256 + y) \div 1) % 2 = (y \div 1) % 2
    BY <1>1
  <2>2. ((x * 256 + y) \div 256) % 2 = (x \div 1) % 2
    BY <1>1
  <2> QED
    BY <1>3, <2>1, <2>2, BitWeights DEF Bit
<1>4. CASE k = 1
  <2>1. ((x * 256 + y) \div 2) % 2 = (y \div 2) % 2
    BY <1>1
  <2>2. ((x * 256 + y) \div 512) % 2 = (x \div 2) % 2
    BY <1>1
  <2> QED
    BY <1>4, <2>1, <2>2, BitWeights DEF Bit
<1>5. CASE k = 2
  <2>1. ((x * 256 + y) \div 4) % 2 = (y \div 4) % 2
    BY <1>1
  <2>2. ((x * 256 + y) \div 1024) % 2 = (x \div 4) % 2
    BY <1>1
  <2> QED
    BY <1>5, <2>1, <2>2, BitWeights DEF Bit
<1>6. CASE k = 3
  <2>1. ((x * 256 + y) \div 8) % 2 = (y \div 8) % 2
    BY <1>1
  <2>2. ((x * 256 + y) \div 2048) % 2 = (x \div 8) % 2
    BY <1>1
  <2> QED
    BY <1>6, <2>1, <2>2, BitWeights DEF Bit
<1>7. CASE k = 4
  <2>1. ((x * 256 + y) \div 16) % 2 = (y \div 16) % 2
    BY <1>1
  <2>2. ((x * 256 + y) \div 4096) % 2 = (x \div 16) % 2
    BY <1>1
  <2> QED
    BY <1>7, <2>1, <2>2, BitWeights DEF Bit
<1>8. CASE k = 5
  <2>1. ((x * 256 + y) \div 32) % 2 = (y \div 32) % 2
    BY <1>1
  <2>2. ((x * 256 + y) \div 8192) % 2 = (x \div 32) % 2
    BY <1>1
  <2> QED
    BY <1>8, <2>1, <2>2, BitWeights DEF Bit
<1>9. CASE k = 6
  <2>1. ((x * 256 + y) \div 64) % 2 = (y \div 64) % 2
    BY <1>1
  <2>2. ((x * 256 + y) \div 16384) % 2 = (x \div 64) % 2
    BY <1>1
  <2> QED
    BY <1>9, <2>1, <2>2, BitWeights DEF Bit
<1>10. CASE k = 7
  <2>1. ((x * 256 + y) \div 128) % 2 = (y \div 128) % 2
    BY <1>1
  <2>2. ((x * 256 + y) \div 32768) % 2 = (x \div 128) % 2
    BY <1>1
  <2> QED
    BY <1>10, <2>1, <2>2, BitWeights DEF Bit
<1> QED
  BY <1>2, <1>3, <1>4, <1>5, <1>6, <1>7, <1>8, <1>9, <1>10

(***************************************************************************)
(* A word in the packet, as it is read, and as it is written again:        *)
(* load_word and the deparser's bpf_htonl agree.                           *)
(***************************************************************************)
LEMMA WordRead ==
  ASSUME NEW b \in Bytes4
  PROVE  /\ b[1] \in Byte /\ b[2] \in Byte /\ b[3] \in Byte /\ b[4] \in Byte
         /\ load_word(b) = <<b[1] * 256 + b[2], b[3] * 256 + b[4]>> /\ load_word(b) \in U32
<1>1. b[1] \in Byte /\ b[2] \in Byte /\ b[3] \in Byte /\ b[4] \in Byte
  BY DEF Bytes4
<1>2. ASSUME NEW x \in Byte, NEW y \in Byte
      PROVE  swab16(x + 256 * y) = x * 256 + y /\ x * 256 + y \in U16
  <2>1. y * 256 + x = x + 256 * y
    BY DEF Byte
  <2> QED
    BY <2>1, JoinBytes DEF swab16
<1>3. swab16(b[1] + 256 * b[2]) = b[1] * 256 + b[2] /\ b[1] * 256 + b[2] \in U16
  BY <1>1, <1>2
<1>4. swab16(b[3] + 256 * b[4]) = b[3] * 256 + b[4] /\ b[3] * 256 + b[4] \in U16
  BY <1>1, <1>2
<1>5. load_word(b) = <<swab16(b[1] + 256 * b[2]), swab16(b[3] + 256 * b[4])>>
  BY DEF load_word, swab32, WordAt
<1> QED
  BY <1>1, <1>3, <1>4, <1>5 DEF U32

(***************************************************************************)
(* A word of the host, as it is written, and as it is read again.          *)
(***************************************************************************)
LEMMA WordWritten ==
  ASSUME NEW v \in U32
  PROVE  emit_word(v) \in Bytes4 /\ load_word(emit_word(v)) = v
<1>1. v[1] \in U16 /\ v[2] \in U16 /\ v = <<v[1], v[2]>>
  BY DEF U32
<1>2. ASSUME NEW x \in U16
      PROVE  /\ swab16(x) % 256 = x \div 256 /\ swab16(x) \div 256 = x % 256
             /\ x \div 256 \in Byte /\ x % 256 \in Byte /\ (x \div 256) * 256 + (x % 256) = x
  <2>1. swab16(x) = htons(x)
    BY DEF swab16, htons
  <2> QED
    BY <2>1, HtonsBytes, SplitU16
<1>3. emit_word(v) = <<swab16(v[1]) % 256, swab16(v[1]) \div 256, swab16(v[2]) % 256, swab16(v[2]) \div 256>>
  BY DEF emit_word, swab32, WordBytes
<1>4. emit_word(v) = <<v[1] \div 256, v[1] % 256, v[2] \div 256, v[2] % 256>>
  BY <1>1, <1>2, <1>3
<1>5. emit_word(v) \in Bytes4
  BY <1>1, <1>2, <1>4 DEF Bytes4
<1>6. load_word(emit_word(v)) = <<(v[1] \div 256) * 256 + (v[1] % 256), (v[2] \div 256) * 256 + (v[2] % 256)>>
  BY <1>4, <1>5, WordRead
<1> QED
  BY <1>1, <1>2, <1>5, <1>6

(***************************************************************************)
(* A word that is read and written again is in the packet as before.       *)
(***************************************************************************)
LEMMA WordRoundTrip ==
  ASSUME NEW b \in Bytes4
  PROVE  emit_word(load_word(b)) = b
<1>1. /\ b[1] \in Byte /\ b[2] \in Byte /\ b[3] \in Byte /\ b[4] \in Byte
      /\ load_word(b) = <<b[1] * 256 + b[2], b[3] * 256 + b[4]>>
  BY WordRead
<1>2. b = <<b[1], b[2], b[3], b[4]>>
  BY DEF Bytes4
<1>3. ASSUME NEW x \in Byte, NEW y \in Byte
      PROVE  swab16(x * 256 + y) % 256 = x /\ swab16(x * 256 + y) \div 256 = y
  <2>1. x * 256 + y \in U16 /\ (x * 256 + y) \div 256 = x /\ (x * 256 + y) % 256 = y
    BY JoinBytes
  <2>2. swab16(x * 256 + y) = htons(x * 256 + y)
    BY DEF swab16, htons
  <2> QED
    BY <2>1, <2>2, HtonsBytes
<1>4. swab16(b[1] * 256 + b[2]) % 256 = b[1] /\ swab16(b[1] * 256 + b[2]) \div 256 = b[2]
  BY <1>1, <1>3
<1>5. swab16(b[3] * 256 + b[4]) % 256 = b[3] /\ swab16(b[3] * 256 + b[4]) \div 256 = b[4]
  BY <1>1, <1>3
<1>6. emit_word(<<b[1] * 256 + b[2], b[3] * 256 + b[4]>>)
        = <<swab16(b[1] * 256 + b[2]) % 256, swab16(b[1] * 256 + b[2]) \div 256,
            swab16(b[3] * 256 + b[4]) % 256, swab16(b[3] * 256 + b[4]) \div 256>>
  BY DEF emit_word, swab32, WordBytes
<1> QED
  BY <1>1, <1>2, <1>4, <1>5, <1>6

(***************************************************************************)
(* The bits of a word on the wire are those of its two halves in the host. *)
(***************************************************************************)
LEMMA WireBits ==
  ASSUME NEW w \in Bytes4, NEW i \in 0 .. 15
  PROVE  /\ WireBit(w, i) = BitsOf(load_word(w)[2])[i]
         /\ WireBit(w, i + 16) = BitsOf(load_word(w)[1])[i]
<1>1. /\ w[1] \in Byte /\ w[2] \in Byte /\ w[3] \in Byte /\ w[4] \in Byte
      /\ load_word(w)[1] = w[1] * 256 + w[2] /\ load_word(w)[2] = w[3] * 256 + w[4]
  BY WordRead
<1>2. BitsOf(load_word(w)[2])[i] = Bit(w[3] * 256 + w[4], i) /\ BitsOf(load_word(w)[1])[i] = Bit(w[1] * 256 + w[2], i)
  BY <1>1 DEF BitsOf
<1>3. CASE i \in 0 .. 7
  <2>1. 4 - i \div 8 = 4 /\ i % 8 = i /\ 4 - (i + 16) \div 8 = 2 /\ (i + 16) % 8 = i
    BY <1>3
  <2>2. WireBit(w, i) = Bit(w[4], i) /\ WireBit(w, i + 16) = Bit(w[2], i)
    BY <2>1 DEF WireBit
  <2>3. Bit(w[3] * 256 + w[4], i) = Bit(w[4], i) /\ Bit(w[1] * 256 + w[2], i) = Bit(w[2], i)
    BY <1>1, <1>3, ByteBits
  <2> QED
    BY <1>2, <2>2, <2>3
<1>4. CASE i \in 8 .. 15
  <2> DEFINE k == i - 8
  <2>1. 4 - i \div 8 = 3 /\ i % 8 = k /\ 4 - (i + 16) \div 8 = 1 /\ (i + 16) % 8 = k /\ k \in 0 .. 7 /\ i = k + 8
    BY <1>4
  <2> HIDE DEF k
  <2>2. WireBit(w, i) = Bit(w[3], k) /\ WireBit(w, i + 16) = Bit(w[1], k)
    BY <2>1 DEF WireBit
  <2>3. Bit(w[3] * 256 + w[4], k + 8) = Bit(w[3], k) /\ Bit(w[1] * 256 + w[2], k + 8) = Bit(w[1], k)
    BY <1>1, <2>1, ByteBits
  <2> QED
    BY <1>2, <2>1, <2>2, <2>3
<1> QED
  BY <1>3, <1>4

-----------------------------------------------------------------------------
(* Bitwise operators *)

(***************************************************************************)
(* All that adds up the bits of p comes to what they make up.              *)
(***************************************************************************)
LEMMA SumValue ==
  ASSUME NEW p \in Bits16, NEW h, AddsUp(h, p, 16)
  PROVE  h[16] = Weight(p)
<1>1. /\ p[0] \in {0, 1} /\ p[1] \in {0, 1} /\ p[2] \in {0, 1} /\ p[3] \in {0, 1}
      /\ p[4] \in {0, 1} /\ p[5] \in {0, 1} /\ p[6] \in {0, 1} /\ p[7] \in {0, 1}
      /\ p[8] \in {0, 1} /\ p[9] \in {0, 1} /\ p[10] \in {0, 1} /\ p[11] \in {0, 1}
      /\ p[12] \in {0, 1} /\ p[13] \in {0, 1} /\ p[14] \in {0, 1} /\ p[15] \in {0, 1}
  BY DEF Bits16
<1>2. \A i \in 0 .. 16 : h[i] = IF i = 0 THEN 0 ELSE h[i - 1] + 2^(i - 1) * p[i - 1]
  BY DEF AddsUp
<1>3. /\ h[0] = 0
      /\ h[1] = h[0] + 2^0 * p[0] /\ h[2] = h[1] + 2^1 * p[1]
      /\ h[3] = h[2] + 2^2 * p[2] /\ h[4] = h[3] + 2^3 * p[3]
      /\ h[5] = h[4] + 2^4 * p[4] /\ h[6] = h[5] + 2^5 * p[5]
      /\ h[7] = h[6] + 2^6 * p[6] /\ h[8] = h[7] + 2^7 * p[7]
      /\ h[9] = h[8] + 2^8 * p[8] /\ h[10] = h[9] + 2^9 * p[9]
      /\ h[11] = h[10] + 2^10 * p[10] /\ h[12] = h[11] + 2^11 * p[11]
      /\ h[13] = h[12] + 2^12 * p[12] /\ h[14] = h[13] + 2^13 * p[13]
      /\ h[15] = h[14] + 2^14 * p[14] /\ h[16] = h[15] + 2^15 * p[15]
  BY <1>2
<1>4. h[4] = Nibble(p[0], p[1], p[2], p[3]) /\ h[4] \in Int
  BY <1>1, <1>3, BitWeights DEF Nibble
<1>5. h[8] = h[4] + 16 * Nibble(p[4], p[5], p[6], p[7]) /\ h[8] \in Int
  BY <1>1, <1>3, <1>4, BitWeights DEF Nibble
<1>6. h[12] = h[8] + 256 * Nibble(p[8], p[9], p[10], p[11]) /\ h[12] \in Int
  BY <1>1, <1>3, <1>5, BitWeights DEF Nibble
<1>7. h[16] = h[12] + 4096 * Nibble(p[12], p[13], p[14], p[15])
  BY <1>1, <1>3, <1>6, BitWeights DEF Nibble
<1> QED
  BY <1>4, <1>5, <1>6, <1>7 DEF Weight

(***************************************************************************)
(* And, bit by bit.                                                        *)
(***************************************************************************)
LEMMA AndBits ==
  ASSUME NEW x \in U16, NEW y \in U16
  PROVE  /\ Bitwise2(AndBit, 16, x, y) \in U16
         /\ \A i \in 0 .. 15 : BitsOf(Bitwise2(AndBit, 16, x, y))[i] = AndBit(BitsOf(x)[i], BitsOf(y)[i])
<1> DEFINE p == [i \in 0 .. 15 |-> AndBit(Bit(x, i), Bit(y, i))]
           F(f) == f = [i \in 0 .. 16 |-> IF i = 0 THEN 0
                                          ELSE f[i - 1] + 2^(i - 1) * AndBit(Bit(x, i - 1), Bit(y, i - 1))]
           h == CHOOSE f : F(f)
<1>1. \A i \in 0 .. 15 : BitsOf(x)[i] \in {0, 1} /\ BitsOf(y)[i] \in {0, 1}
  BY BitValues DEF Bits16
<1>2. \A i \in 0 .. 15 : p[i] = AndBit(BitsOf(x)[i], BitsOf(y)[i])
  BY DEF BitsOf
<1>3. p \in Bits16
  <2>1. \A b, c \in {0, 1} : AndBit(b, c) \in {0, 1}
    BY DEF AndBit
  <2> QED
    BY <1>1, <1>2, <2>1 DEF Bits16
<1>4. ASSUME NEW f
      PROVE  F(f) <=> AddsUp(f, p, 16)
  <2>1. \A i \in 0 .. 16 : i # 0 => p[i - 1] = AndBit(Bit(x, i - 1), Bit(y, i - 1))
    OBVIOUS
  <2> HIDE DEF p
  <2>2. [i \in 0 .. 16 |-> IF i = 0 THEN 0 ELSE f[i - 1] + 2^(i - 1) * p[i - 1]]
          = [i \in 0 .. 16 |-> IF i = 0 THEN 0
                               ELSE f[i - 1] + 2^(i - 1) * AndBit(Bit(x, i - 1), Bit(y, i - 1))]
    BY <2>1, Zenon
  <2> QED
    BY <2>2, Zenon DEF AddsUp
<1> HIDE DEF p, F
<1>5. \E f : F(f)
  BY <1>4, SumExists DEF HasSum
<1>6. F(h)
  BY <1>5, Zenon
<1>7. Bitwise2(AndBit, 16, x, y) = h[16]
  BY DEF Bitwise2, F
<1> HIDE DEF h
<1>8. h[16] = Weight(p)
  BY <1>3, <1>4, <1>6, SumValue
<1>9. Weight(p) \in U16 /\ BitsOf(Weight(p)) = p
  BY <1>3, BitsAreHalf
<1> QED
  BY <1>2, <1>7, <1>8, <1>9, Zenon

(***************************************************************************)
(* Or, bit by bit.                                                         *)
(***************************************************************************)
LEMMA OrBits ==
  ASSUME NEW x \in U16, NEW y \in U16
  PROVE  /\ Bitwise2(OrBit, 16, x, y) \in U16
         /\ \A i \in 0 .. 15 : BitsOf(Bitwise2(OrBit, 16, x, y))[i] = OrBit(BitsOf(x)[i], BitsOf(y)[i])
<1> DEFINE p == [i \in 0 .. 15 |-> OrBit(Bit(x, i), Bit(y, i))]
           F(f) == f = [i \in 0 .. 16 |-> IF i = 0 THEN 0
                                          ELSE f[i - 1] + 2^(i - 1) * OrBit(Bit(x, i - 1), Bit(y, i - 1))]
           h == CHOOSE f : F(f)
<1>1. \A i \in 0 .. 15 : BitsOf(x)[i] \in {0, 1} /\ BitsOf(y)[i] \in {0, 1}
  BY BitValues DEF Bits16
<1>2. \A i \in 0 .. 15 : p[i] = OrBit(BitsOf(x)[i], BitsOf(y)[i])
  BY DEF BitsOf
<1>3. p \in Bits16
  <2>1. \A b, c \in {0, 1} : OrBit(b, c) \in {0, 1}
    BY DEF OrBit
  <2> QED
    BY <1>1, <1>2, <2>1 DEF Bits16
<1>4. ASSUME NEW f
      PROVE  F(f) <=> AddsUp(f, p, 16)
  <2>1. \A i \in 0 .. 16 : i # 0 => p[i - 1] = OrBit(Bit(x, i - 1), Bit(y, i - 1))
    OBVIOUS
  <2> HIDE DEF p
  <2>2. [i \in 0 .. 16 |-> IF i = 0 THEN 0 ELSE f[i - 1] + 2^(i - 1) * p[i - 1]]
          = [i \in 0 .. 16 |-> IF i = 0 THEN 0
                               ELSE f[i - 1] + 2^(i - 1) * OrBit(Bit(x, i - 1), Bit(y, i - 1))]
    BY <2>1, Zenon
  <2> QED
    BY <2>2, Zenon DEF AddsUp
<1> HIDE DEF p, F
<1>5. \E f : F(f)
  BY <1>4, SumExists DEF HasSum
<1>6. F(h)
  BY <1>5, Zenon
<1>7. Bitwise2(OrBit, 16, x, y) = h[16]
  BY DEF Bitwise2, F
<1> HIDE DEF h
<1>8. h[16] = Weight(p)
  BY <1>3, <1>4, <1>6, SumValue
<1>9. Weight(p) \in U16 /\ BitsOf(Weight(p)) = p
  BY <1>3, BitsAreHalf
<1> QED
  BY <1>2, <1>7, <1>8, <1>9, Zenon

(***************************************************************************)
(* Exclusive or, bit by bit.                                               *)
(***************************************************************************)
LEMMA XorBits ==
  ASSUME NEW x \in U16, NEW y \in U16
  PROVE  /\ Bitwise2(XorBit, 16, x, y) \in U16
         /\ \A i \in 0 .. 15 : BitsOf(Bitwise2(XorBit, 16, x, y))[i] = XorBit(BitsOf(x)[i], BitsOf(y)[i])
<1> DEFINE p == [i \in 0 .. 15 |-> XorBit(Bit(x, i), Bit(y, i))]
           F(f) == f = [i \in 0 .. 16 |-> IF i = 0 THEN 0
                                          ELSE f[i - 1] + 2^(i - 1) * XorBit(Bit(x, i - 1), Bit(y, i - 1))]
           h == CHOOSE f : F(f)
<1>1. \A i \in 0 .. 15 : BitsOf(x)[i] \in {0, 1} /\ BitsOf(y)[i] \in {0, 1}
  BY BitValues DEF Bits16
<1>2. \A i \in 0 .. 15 : p[i] = XorBit(BitsOf(x)[i], BitsOf(y)[i])
  BY DEF BitsOf
<1>3. p \in Bits16
  <2>1. \A b, c \in {0, 1} : XorBit(b, c) \in {0, 1}
    BY DEF XorBit
  <2> QED
    BY <1>1, <1>2, <2>1 DEF Bits16
<1>4. ASSUME NEW f
      PROVE  F(f) <=> AddsUp(f, p, 16)
  <2>1. \A i \in 0 .. 16 : i # 0 => p[i - 1] = XorBit(Bit(x, i - 1), Bit(y, i - 1))
    OBVIOUS
  <2> HIDE DEF p
  <2>2. [i \in 0 .. 16 |-> IF i = 0 THEN 0 ELSE f[i - 1] + 2^(i - 1) * p[i - 1]]
          = [i \in 0 .. 16 |-> IF i = 0 THEN 0
                               ELSE f[i - 1] + 2^(i - 1) * XorBit(Bit(x, i - 1), Bit(y, i - 1))]
    BY <2>1, Zenon
  <2> QED
    BY <2>2, Zenon DEF AddsUp
<1> HIDE DEF p, F
<1>5. \E f : F(f)
  BY <1>4, SumExists DEF HasSum
<1>6. F(h)
  BY <1>5, Zenon
<1>7. Bitwise2(XorBit, 16, x, y) = h[16]
  BY DEF Bitwise2, F
<1> HIDE DEF h
<1>8. h[16] = Weight(p)
  BY <1>3, <1>4, <1>6, SumValue
<1>9. Weight(p) \in U16 /\ BitsOf(Weight(p)) = p
  BY <1>3, BitsAreHalf
<1> QED
  BY <1>2, <1>7, <1>8, <1>9, Zenon

-----------------------------------------------------------------------------
(* Sums and differences *)

\* The nibble of t that starts with bit k.
NibbleAt(t, k) == Nibble(t[k], t[k + 1], t[k + 2], t[k + 3])

\* Bits x and y with carries c give bits s.
Adds(x, y, c, s) == \A i \in 0 .. 15 : x[i] + y[i] + c[i] = s[i] + 2 * c[i + 1]

(***************************************************************************)
(* Four places of an addition, each of which hands its carry on.           *)
(***************************************************************************)
LEMMA AddPlaces ==
  ASSUME NEW x \in Bits16, NEW y \in Bits16, NEW s \in Bits16, NEW c \in [0 .. 16 -> {0, 1}],
         Adds(x, y, c, s), NEW k \in {0, 4, 8, 12}
  PROVE  /\ NibbleAt(x, k) + NibbleAt(y, k) + c[k] = NibbleAt(s, k) + 16 * c[k + 4]
         /\ NibbleAt(x, k) \in Int /\ NibbleAt(y, k) \in Int /\ NibbleAt(s, k) \in Int
         /\ c[k] \in {0, 1} /\ c[k + 4] \in {0, 1}
<1> DEFINE x0 == x[k]  x1 == x[k + 1]  x2 == x[k + 2]  x3 == x[k + 3]
           y0 == y[k]  y1 == y[k + 1]  y2 == y[k + 2]  y3 == y[k + 3]
           s0 == s[k]  s1 == s[k + 1]  s2 == s[k + 2]  s3 == s[k + 3]
           c0 == c[k]  c1 == c[k + 1]  c2 == c[k + 2]  c3 == c[k + 3]  c4 == c[k + 4]
<1>1. /\ x0 \in {0, 1} /\ x1 \in {0, 1} /\ x2 \in {0, 1} /\ x3 \in {0, 1}
      /\ y0 \in {0, 1} /\ y1 \in {0, 1} /\ y2 \in {0, 1} /\ y3 \in {0, 1}
      /\ s0 \in {0, 1} /\ s1 \in {0, 1} /\ s2 \in {0, 1} /\ s3 \in {0, 1}
      /\ c0 \in {0, 1} /\ c1 \in {0, 1} /\ c2 \in {0, 1} /\ c3 \in {0, 1} /\ c4 \in {0, 1}
  BY DEF Bits16
<1>2. /\ x0 + y0 + c0 = s0 + 2 * c1 /\ x1 + y1 + c1 = s1 + 2 * c2
      /\ x2 + y2 + c2 = s2 + 2 * c3 /\ x3 + y3 + c3 = s3 + 2 * c4
  <2>1. /\ k \in 0 .. 15 /\ k + 1 \in 0 .. 15 /\ k + 2 \in 0 .. 15 /\ k + 3 \in 0 .. 15
        /\ (k + 1) + 1 = k + 2 /\ (k + 2) + 1 = k + 3 /\ (k + 3) + 1 = k + 4
    OBVIOUS
  <2> QED
    BY <2>1, Zenon DEF Adds
<1> HIDE DEF x0, x1, x2, x3, y0, y1, y2, y3, s0, s1, s2, s3, c0, c1, c2, c3, c4
<1>3. /\ Nibble(x0, x1, x2, x3) + Nibble(y0, y1, y2, y3) + c0 = Nibble(s0, s1, s2, s3) + 16 * c4
      /\ Nibble(x0, x1, x2, x3) \in Int /\ Nibble(y0, y1, y2, y3) \in Int
      /\ Nibble(s0, s1, s2, s3) \in Int
  BY <1>1, <1>2 DEF Nibble
<1>4. NibbleAt(x, k) = Nibble(x0, x1, x2, x3)
  BY Zenon DEF NibbleAt, x0, x1, x2, x3
<1>5. NibbleAt(y, k) = Nibble(y0, y1, y2, y3)
  BY Zenon DEF NibbleAt, y0, y1, y2, y3
<1>6. NibbleAt(s, k) = Nibble(s0, s1, s2, s3)
  BY Zenon DEF NibbleAt, s0, s1, s2, s3
<1> QED
  BY <1>1, <1>3, <1>4, <1>5, <1>6 DEF c0, c4

(***************************************************************************)
(* The sixteen places of an addition: the halves that the bits make up add *)
(* up, but for the last carry.                                             *)
(***************************************************************************)
LEMMA AddWeights ==
  ASSUME NEW x \in Bits16, NEW y \in Bits16, NEW s \in Bits16, NEW c \in [0 .. 16 -> {0, 1}],
         Adds(x, y, c, s)
  PROVE  Weight(x) + Weight(y) + c[0] = Weight(s) + 65536 * c[16]
<1>1. ASSUME NEW k \in {0, 4, 8, 12}
      PROVE  /\ NibbleAt(x, k) + NibbleAt(y, k) + c[k] = NibbleAt(s, k) + 16 * c[k + 4]
             /\ NibbleAt(x, k) \in Int /\ NibbleAt(y, k) \in Int /\ NibbleAt(s, k) \in Int
             /\ c[k] \in {0, 1} /\ c[k + 4] \in {0, 1}
  BY AddPlaces
<1> DEFINE x0 == NibbleAt(x, 0)  x1 == NibbleAt(x, 4)  x2 == NibbleAt(x, 8)  x3 == NibbleAt(x, 12)
           y0 == NibbleAt(y, 0)  y1 == NibbleAt(y, 4)  y2 == NibbleAt(y, 8)  y3 == NibbleAt(y, 12)
           s0 == NibbleAt(s, 0)  s1 == NibbleAt(s, 4)  s2 == NibbleAt(s, 8)  s3 == NibbleAt(s, 12)
           c0 == c[0]  c1 == c[4]  c2 == c[8]  c3 == c[12]  c4 == c[16]
<1>2. x0 + y0 + c0 = s0 + 16 * c1 /\ x0 \in Int /\ y0 \in Int /\ s0 \in Int /\ c0 \in Int /\ c1 \in Int
  BY <1>1
<1>3. x1 + y1 + c1 = s1 + 16 * c2 /\ x1 \in Int /\ y1 \in Int /\ s1 \in Int /\ c2 \in Int
  BY <1>1
<1>4. x2 + y2 + c2 = s2 + 16 * c3 /\ x2 \in Int /\ y2 \in Int /\ s2 \in Int /\ c3 \in Int
  BY <1>1
<1>5. x3 + y3 + c3 = s3 + 16 * c4 /\ x3 \in Int /\ y3 \in Int /\ s3 \in Int /\ c4 \in Int
  BY <1>1
<1>6. /\ Weight(x) = x0 + 16 * x1 + 256 * x2 + 4096 * x3
      /\ Weight(y) = y0 + 16 * y1 + 256 * y2 + 4096 * y3
      /\ Weight(s) = s0 + 16 * s1 + 256 * s2 + 4096 * s3
  BY DEF Weight, NibbleAt
<1> HIDE DEF x0, x1, x2, x3, y0, y1, y2, y3, s0, s1, s2, s3, c0, c1, c2, c3, c4
<1>7. (x0 + 16 * x1 + 256 * x2 + 4096 * x3) + (y0 + 16 * y1 + 256 * y2 + 4096 * y3) + c0
        = (s0 + 16 * s1 + 256 * s2 + 4096 * s3) + 65536 * c4
  BY <1>2, <1>3, <1>4, <1>5
<1>8. Weight(x) + Weight(y) + c0 = Weight(s) + 65536 * c4
  BY <1>6, <1>7
<1> QED
  BY <1>8 DEF c0, c4

(***************************************************************************)
(* Carry, and likewise Borrow, goes from a place to the next: a place      *)
(* makes one, or hands on the one it got.                                  *)
(***************************************************************************)
LEMMA CarryStep ==
  ASSUME NEW a, NEW b, NEW i \in Nat
  PROVE  /\ ~Carry(a, b, 0) /\ ~Borrow(a, b, 0)
         /\ Carry(a, b, i + 1) <=>
              \/ WireBit(a, i) = 1 /\ WireBit(b, i) = 1
              \/ (WireBit(a, i) = 1 \/ WireBit(b, i) = 1) /\ Carry(a, b, i)
         /\ Borrow(a, b, i + 1) <=>
              \/ WireBit(a, i) = 0 /\ WireBit(b, i) = 1
              \/ (WireBit(a, i) = 0 \/ WireBit(b, i) = 1) /\ Borrow(a, b, i)
<1>1. ~Carry(a, b, 0) /\ ~Borrow(a, b, 0)
  BY DEF Carry, Borrow
<1>2. /\ 0 .. (i + 1) - 1 = (0 .. i - 1) \cup {i} /\ i \notin 0 .. i - 1
      /\ i + 1 .. (i + 1) - 1 = {}
      /\ \A j \in 0 .. i - 1 : j + 1 .. (i + 1) - 1 = (j + 1 .. i - 1) \cup {i}
  OBVIOUS
<1>3. Carry(a, b, i + 1) <=>
              \/ WireBit(a, i) = 1 /\ WireBit(b, i) = 1
              \/ (WireBit(a, i) = 1 \/ WireBit(b, i) = 1) /\ Carry(a, b, i)
  BY <1>2, Zenon DEF Carry
<1>4. Borrow(a, b, i + 1) <=>
              \/ WireBit(a, i) = 0 /\ WireBit(b, i) = 1
              \/ (WireBit(a, i) = 0 \/ WireBit(b, i) = 1) /\ Borrow(a, b, i)
  BY <1>2, Zenon DEF Borrow
<1> QED
  BY <1>1, <1>3, <1>4

\* A carry as a number.
Num(b) == IF b THEN 1 ELSE 0

(***************************************************************************)
(* The bits of a word on the wire, as bits.                                *)
(***************************************************************************)
LEMMA WireBitType ==
  ASSUME NEW w \in Bytes4, NEW n \in 0 .. 31
  PROVE  WireBit(w, n) \in {0, 1}
<1>1. load_word(w)[1] \in U16 /\ load_word(w)[2] \in U16
  BY WordRead DEF U32
<1>2. \A i \in 0 .. 15 : BitsOf(load_word(w)[1])[i] \in {0, 1} /\ BitsOf(load_word(w)[2])[i] \in {0, 1}
  BY <1>1, BitValues DEF Bits16
<1>3. CASE n \in 0 .. 15
  BY <1>2, <1>3, WireBits
<1>4. CASE n \notin 0 .. 15
  <2>1. n - 16 \in 0 .. 15 /\ n = (n - 16) + 16
    BY <1>4
  <2> QED
    BY <1>2, <2>1, WireBits
<1> QED
  BY <1>3, <1>4

(***************************************************************************)
(* One place of an addition and of a subtraction, on the wire: a borrow is *)
(* what has to be added to the difference.                                 *)
(***************************************************************************)
LEMMA Column ==
  ASSUME NEW a \in Bytes4, NEW b \in Bytes4, NEW n \in 0 .. 31
  PROVE  /\ ResultBit(43, a, b, n) \in {0, 1} /\ ResultBit(45, a, b, n) \in {0, 1}
         /\ WireBit(a, n) + WireBit(b, n) + Num(Carry(a, b, n))
              = ResultBit(43, a, b, n) + 2 * Num(Carry(a, b, n + 1))
         /\ ResultBit(45, a, b, n) + WireBit(b, n) + Num(Borrow(a, b, n))
              = WireBit(a, n) + 2 * Num(Borrow(a, b, n + 1))
<1> DEFINE x == WireBit(a, n)
           y == WireBit(b, n)
<1>1. x \in {0, 1} /\ y \in {0, 1}
  BY WireBitType
<1>2. /\ ResultBit(43, a, b, n) = (x + y + Num(Carry(a, b, n))) % 2
      /\ ResultBit(45, a, b, n) = (x + y + Num(Borrow(a, b, n))) % 2
  BY DEF ResultBit, Num
<1>3. /\ Carry(a, b, n + 1) <=> (x = 1 /\ y = 1) \/ ((x = 1 \/ y = 1) /\ Carry(a, b, n))
      /\ Borrow(a, b, n + 1) <=> (x = 0 /\ y = 1) \/ ((x = 0 \/ y = 1) /\ Borrow(a, b, n))
  <2>1. n \in Nat
    OBVIOUS
  <2> QED
    BY <2>1, CarryStep
<1> HIDE DEF x, y
<1>4. /\ (x + y + Num(Carry(a, b, n))) % 2 \in {0, 1}
      /\ x + y + Num(Carry(a, b, n)) = ((x + y + Num(Carry(a, b, n))) % 2) + 2 * Num(Carry(a, b, n + 1))
  BY <1>1, <1>3 DEF Num
<1>5. /\ (x + y + Num(Borrow(a, b, n))) % 2 \in {0, 1}
      /\ ((x + y + Num(Borrow(a, b, n))) % 2) + y + Num(Borrow(a, b, n)) = x + 2 * Num(Borrow(a, b, n + 1))
  BY <1>1, <1>3 DEF Num
<1> QED
  BY <1>2, <1>4, <1>5 DEF x, y

(***************************************************************************)
(* A result whose halves have the right bits has the right bits on the     *)
(* wire.                                                                   *)
(***************************************************************************)
LEMMA FromHalves ==
  ASSUME NEW r \in U32, NEW op, NEW a, NEW b,
         \A i \in 0 .. 15 : /\ BitsOf(r[2])[i] = ResultBit(op, a, b, i)
                            /\ BitsOf(r[1])[i] = ResultBit(op, a, b, i + 16)
  PROVE  \A n \in 0 .. 31 : WireBit(emit_word(r), n) = ResultBit(op, a, b, n)
<1> DEFINE w == emit_word(r)
<1>1. w \in Bytes4 /\ load_word(w) = r
  BY WordWritten
<1> HIDE DEF w
<1>2. \A i \in 0 .. 15 : /\ WireBit(w, i) = ResultBit(op, a, b, i)
                         /\ WireBit(w, i + 16) = ResultBit(op, a, b, i + 16)
  BY <1>1, WireBits
<1>3. ASSUME NEW n \in 0 .. 31
      PROVE  WireBit(w, n) = ResultBit(op, a, b, n)
  <2>1. CASE n \in 0 .. 15
    BY <1>2, <2>1, Zenon
  <2>2. CASE n \notin 0 .. 15
    <3>1. n - 16 \in 0 .. 15 /\ n = (n - 16) + 16
      BY <2>2
    <3>2. WireBit(w, (n - 16) + 16) = ResultBit(op, a, b, (n - 16) + 16)
      BY <1>2, <3>1, Zenon
    <3> QED
      BY <3>1, <3>2, Zenon
  <2> QED
    BY <2>1, <2>2
<1> QED
  BY <1>3 DEF w

(***************************************************************************)
(* A sum has the right bits, with the carry from the low to the high half. *)
(***************************************************************************)
LEMMA SumRight ==
  ASSUME NEW a \in Bytes4, NEW b \in Bytes4
  PROVE  LET r == add32(load_word(a), load_word(b))
         IN r \in U32 /\ \A n \in 0 .. 31 : WireBit(emit_word(r), n) = ResultBit(43, a, b, n)
<1> DEFINE v1 == load_word(a)[1]  v2 == load_word(a)[2]
           w1 == load_word(b)[1]  w2 == load_word(b)[2]
           r  == add32(load_word(a), load_word(b))
           low   == [i \in 0 .. 15 |-> ResultBit(43, a, b, i)]
           high  == [i \in 0 .. 15 |-> ResultBit(43, a, b, i + 16)]
           lowC  == [i \in 0 .. 16 |-> Num(Carry(a, b, i))]
           highC == [i \in 0 .. 16 |-> Num(Carry(a, b, i + 16))]
<1>1. /\ v1 \in U16 /\ v2 \in U16 /\ w1 \in U16 /\ w2 \in U16
      /\ load_word(a) = <<v1, v2>> /\ load_word(b) = <<w1, w2>>
  BY WordRead DEF U32
<1>2. /\ \A i \in 0 .. 15 : i \in 0 .. 31 /\ i + 16 \in 0 .. 31 /\ (i + 16) + 1 = (i + 1) + 16
      /\ \A i \in 0 .. 15 : i + 1 \in 0 .. 16 /\ i \in 0 .. 16
  OBVIOUS
<1>3. low \in Bits16 /\ high \in Bits16
  BY <1>2, Column DEF Bits16
<1>4. lowC \in [0 .. 16 -> {0, 1}] /\ highC \in [0 .. 16 -> {0, 1}]
  BY DEF Num
<1>5. /\ BitsOf(v1) \in Bits16 /\ BitsOf(v2) \in Bits16 /\ BitsOf(w1) \in Bits16 /\ BitsOf(w2) \in Bits16
      /\ Weight(BitsOf(v1)) = v1 /\ Weight(BitsOf(v2)) = v2
      /\ Weight(BitsOf(w1)) = w1 /\ Weight(BitsOf(w2)) = w2
  BY <1>1, BitValues, HalfIsBits
<1>6. \A i \in 0 .. 15 : /\ WireBit(a, i) = BitsOf(v2)[i] /\ WireBit(a, i + 16) = BitsOf(v1)[i]
                         /\ WireBit(b, i) = BitsOf(w2)[i] /\ WireBit(b, i + 16) = BitsOf(w1)[i]
  BY WireBits
<1>7. lowC[0] = 0 /\ lowC[16] = highC[0]
  <2>1. ~Carry(a, b, 0)
    BY CarryStep
  <2> QED
    BY <2>1 DEF Num
<1>8. Adds(BitsOf(v2), BitsOf(w2), lowC, low)
  BY <1>2, <1>6, Column DEF Adds
<1>9. Adds(BitsOf(v1), BitsOf(w1), highC, high)
  BY <1>2, <1>6, Column DEF Adds
<1> DEFINE s == Weight(low)  t == Weight(high)  c == lowC[16]  d == highC[16]
<1>10. s \in U16 /\ t \in U16 /\ BitsOf(s) = low /\ BitsOf(t) = high
  BY <1>3, BitsAreHalf
<1>11. c \in {0, 1} /\ d \in {0, 1}
  BY <1>4
<1>12. v2 + w2 + 0 = s + 65536 * c /\ v1 + w1 + c = t + 65536 * d
  <2>1. Weight(BitsOf(v2)) + Weight(BitsOf(w2)) + lowC[0] = Weight(low) + 65536 * lowC[16]
    BY <1>3, <1>4, <1>5, <1>8, AddWeights
  <2>2. Weight(BitsOf(v1)) + Weight(BitsOf(w1)) + highC[0] = Weight(high) + 65536 * highC[16]
    BY <1>3, <1>4, <1>5, <1>9, AddWeights
  <2> HIDE DEF v1, v2, w1, w2, low, high, lowC, highC
  <2> QED
    BY <1>5, <1>7, <2>1, <2>2
<1> HIDE DEF v1, v2, w1, w2, s, t, c, d
<1>13. /\ v1 \in Int /\ 0 <= v1 /\ v1 <= 65535 /\ v2 \in Int /\ 0 <= v2 /\ v2 <= 65535
       /\ w1 \in Int /\ 0 <= w1 /\ w1 <= 65535 /\ w2 \in Int /\ 0 <= w2 /\ w2 <= 65535
       /\ s \in Int /\ 0 <= s /\ s <= 65535 /\ t \in Int /\ 0 <= t /\ t <= 65535
  BY <1>1, <1>10, U16Bounds
<1>14. /\ (v2 + w2) % 65536 = s /\ (v2 + w2) \div 65536 = c
       /\ (v1 + w1 + c) % 65536 = t
  <2>1. v2 + w2 = s + 65536 * c /\ v1 + w1 + c = t + 65536 * d
    BY <1>12, <1>13, <1>11
  <2> QED
    BY <1>11, <1>13, <2>1
<1>15. r = <<t, s>>
  <2>1. r = <<(v1 + w1 + (v2 + w2) \div 65536) % 65536, (v2 + w2) % 65536>>
    BY <1>1 DEF add32
  <2> QED
    BY <1>14, <2>1
<1>16. r \in U32
  BY <1>10, <1>15 DEF U32
<1>17. \A i \in 0 .. 15 : /\ BitsOf(r[2])[i] = ResultBit(43, a, b, i)
                          /\ BitsOf(r[1])[i] = ResultBit(43, a, b, i + 16)
  <2>1. r[1] = t /\ r[2] = s
    BY <1>15
  <2>2. BitsOf(r[2]) = low /\ BitsOf(r[1]) = high
    BY <1>10, <2>1
  <2> HIDE DEF r
  <2> QED
    BY <2>2
<1> HIDE DEF r
<1>18. \A n \in 0 .. 31 : WireBit(emit_word(r), n) = ResultBit(43, a, b, n)
  BY <1>16, <1>17, FromHalves
<1> QED
  BY <1>16, <1>18 DEF r

(***************************************************************************)
(* A difference has the right bits, with the borrow between its halves.    *)
(***************************************************************************)
LEMMA DifferenceRight ==
  ASSUME NEW a \in Bytes4, NEW b \in Bytes4
  PROVE  LET r == sub32(load_word(a), load_word(b))
         IN r \in U32 /\ \A n \in 0 .. 31 : WireBit(emit_word(r), n) = ResultBit(45, a, b, n)
<1> DEFINE v1 == load_word(a)[1]  v2 == load_word(a)[2]
           w1 == load_word(b)[1]  w2 == load_word(b)[2]
           r  == sub32(load_word(a), load_word(b))
           low   == [i \in 0 .. 15 |-> ResultBit(45, a, b, i)]
           high  == [i \in 0 .. 15 |-> ResultBit(45, a, b, i + 16)]
           lowC  == [i \in 0 .. 16 |-> Num(Borrow(a, b, i))]
           highC == [i \in 0 .. 16 |-> Num(Borrow(a, b, i + 16))]
<1>1. /\ v1 \in U16 /\ v2 \in U16 /\ w1 \in U16 /\ w2 \in U16
      /\ load_word(a) = <<v1, v2>> /\ load_word(b) = <<w1, w2>>
  BY WordRead DEF U32
<1>2. /\ \A i \in 0 .. 15 : i \in 0 .. 31 /\ i + 16 \in 0 .. 31 /\ (i + 16) + 1 = (i + 1) + 16
      /\ \A i \in 0 .. 15 : i + 1 \in 0 .. 16 /\ i \in 0 .. 16
  OBVIOUS
<1>3. low \in Bits16 /\ high \in Bits16
  BY <1>2, Column DEF Bits16
<1>4. lowC \in [0 .. 16 -> {0, 1}] /\ highC \in [0 .. 16 -> {0, 1}]
  BY DEF Num
<1>5. /\ BitsOf(v1) \in Bits16 /\ BitsOf(v2) \in Bits16 /\ BitsOf(w1) \in Bits16 /\ BitsOf(w2) \in Bits16
      /\ Weight(BitsOf(v1)) = v1 /\ Weight(BitsOf(v2)) = v2
      /\ Weight(BitsOf(w1)) = w1 /\ Weight(BitsOf(w2)) = w2
  BY <1>1, BitValues, HalfIsBits
<1>6. \A i \in 0 .. 15 : /\ WireBit(a, i) = BitsOf(v2)[i] /\ WireBit(a, i + 16) = BitsOf(v1)[i]
                         /\ WireBit(b, i) = BitsOf(w2)[i] /\ WireBit(b, i + 16) = BitsOf(w1)[i]
  BY WireBits
<1>7. lowC[0] = 0 /\ lowC[16] = highC[0]
  <2>1. ~Borrow(a, b, 0)
    BY CarryStep
  <2> QED
    BY <2>1 DEF Num
<1>8. Adds(low, BitsOf(w2), lowC, BitsOf(v2))
  BY <1>2, <1>6, Column DEF Adds
<1>9. Adds(high, BitsOf(w1), highC, BitsOf(v1))
  BY <1>2, <1>6, Column DEF Adds
<1> DEFINE s == Weight(low)  t == Weight(high)  c == lowC[16]  d == highC[16]
<1>10. s \in U16 /\ t \in U16 /\ BitsOf(s) = low /\ BitsOf(t) = high
  BY <1>3, BitsAreHalf
<1>11. c \in {0, 1} /\ d \in {0, 1}
  BY <1>4
<1>12. s + w2 + 0 = v2 + 65536 * c /\ t + w1 + c = v1 + 65536 * d
  <2>1. Weight(low) + Weight(BitsOf(w2)) + lowC[0] = Weight(BitsOf(v2)) + 65536 * lowC[16]
    BY <1>3, <1>4, <1>5, <1>8, AddWeights
  <2>2. Weight(high) + Weight(BitsOf(w1)) + highC[0] = Weight(BitsOf(v1)) + 65536 * highC[16]
    BY <1>3, <1>4, <1>5, <1>9, AddWeights
  <2> HIDE DEF v1, v2, w1, w2, low, high, lowC, highC
  <2> QED
    BY <1>5, <1>7, <2>1, <2>2
<1> HIDE DEF v1, v2, w1, w2, s, t, c, d
<1>13. /\ v1 \in Int /\ 0 <= v1 /\ v1 <= 65535 /\ v2 \in Int /\ 0 <= v2 /\ v2 <= 65535
       /\ w1 \in Int /\ 0 <= w1 /\ w1 <= 65535 /\ w2 \in Int /\ 0 <= w2 /\ w2 <= 65535
       /\ s \in Int /\ 0 <= s /\ s <= 65535 /\ t \in Int /\ 0 <= t /\ t <= 65535
  BY <1>1, <1>10, U16Bounds
<1>14. /\ (v2 - w2) % 65536 = s /\ c = (IF v2 < w2 THEN 1 ELSE 0)
       /\ (v1 - w1 - c) % 65536 = t
  <2>1. v2 - w2 = s - 65536 * c /\ v1 - w1 - c = t - 65536 * d
    BY <1>12, <1>13, <1>11
  <2> QED
    BY <1>11, <1>13, <2>1
<1>15. r = <<t, s>>
  <2>1. r = <<(v1 - w1 - (IF v2 < w2 THEN 1 ELSE 0)) % 65536, (v2 - w2) % 65536>>
    BY <1>1 DEF sub32
  <2> QED
    BY <1>14, <2>1
<1>16. r \in U32
  BY <1>10, <1>15 DEF U32
<1>17. \A i \in 0 .. 15 : /\ BitsOf(r[2])[i] = ResultBit(45, a, b, i)
                          /\ BitsOf(r[1])[i] = ResultBit(45, a, b, i + 16)
  <2>1. r[1] = t /\ r[2] = s
    BY <1>15
  <2>2. BitsOf(r[2]) = low /\ BitsOf(r[1]) = high
    BY <1>10, <2>1
  <2> HIDE DEF r
  <2> QED
    BY <2>2
<1> HIDE DEF r
<1>18. \A n \in 0 .. 31 : WireBit(emit_word(r), n) = ResultBit(45, a, b, n)
  BY <1>16, <1>17, FromHalves
<1> QED
  BY <1>16, <1>18 DEF r

(***************************************************************************)
(* The bits of a conjunction.                                              *)
(***************************************************************************)
LEMMA AndRight ==
  ASSUME NEW a \in Bytes4, NEW b \in Bytes4
  PROVE  LET r == and32(load_word(a), load_word(b))
         IN r \in U32 /\ \A n \in 0 .. 31 : WireBit(emit_word(r), n) = ResultBit(38, a, b, n)
<1> DEFINE v1 == load_word(a)[1]  v2 == load_word(a)[2]
           w1 == load_word(b)[1]  w2 == load_word(b)[2]
           r  == and32(load_word(a), load_word(b))
           r1 == Bitwise2(AndBit, 16, v1, w1)
           r2 == Bitwise2(AndBit, 16, v2, w2)
<1>1. v1 \in U16 /\ v2 \in U16 /\ w1 \in U16 /\ w2 \in U16
  BY WordRead DEF U32
<1>2. r = <<r1, r2>>
  BY Zenon DEF and32
<1>3. /\ r1 \in U16 /\ \A i \in 0 .. 15 : BitsOf(r1)[i] = AndBit(BitsOf(v1)[i], BitsOf(w1)[i])
      /\ r2 \in U16 /\ \A i \in 0 .. 15 : BitsOf(r2)[i] = AndBit(BitsOf(v2)[i], BitsOf(w2)[i])
  BY <1>1, AndBits
<1>4. \A i \in 0 .. 15 : /\ WireBit(a, i) = BitsOf(v2)[i] /\ WireBit(a, i + 16) = BitsOf(v1)[i]
                         /\ WireBit(b, i) = BitsOf(w2)[i] /\ WireBit(b, i + 16) = BitsOf(w1)[i]
  BY WireBits
<1>5. \A n \in 0 .. 31 : ResultBit(38, a, b, n) = AndBit(WireBit(a, n), WireBit(b, n))
  <2>1. \A x, y \in {0, 1} : AndBit(x, y) = IF x = 1 /\ y = 1 THEN 1 ELSE 0
    BY DEF AndBit
  <2> QED
    BY <2>1, WireBitType DEF ResultBit
<1> HIDE DEF r1, r2
<1>6. r \in U32 /\ r[1] = r1 /\ r[2] = r2
  BY <1>2, <1>3 DEF U32
<1> HIDE DEF r, v1, v2, w1, w2
<1>7. \A i \in 0 .. 15 : /\ BitsOf(r[2])[i] = ResultBit(38, a, b, i)
                         /\ BitsOf(r[1])[i] = ResultBit(38, a, b, i + 16)
  <2>1. \A i \in 0 .. 15 : i \in 0 .. 31 /\ i + 16 \in 0 .. 31
    OBVIOUS
  <2> QED
    BY <1>3, <1>4, <1>5, <1>6, <2>1
<1>8. \A n \in 0 .. 31 : WireBit(emit_word(r), n) = ResultBit(38, a, b, n)
  BY <1>6, <1>7, FromHalves
<1> QED
  BY <1>6, <1>8 DEF r

(***************************************************************************)
(* The bits of a disjunction.                                              *)
(***************************************************************************)
LEMMA OrRight ==
  ASSUME NEW a \in Bytes4, NEW b \in Bytes4
  PROVE  LET r == or32(load_word(a), load_word(b))
         IN r \in U32 /\ \A n \in 0 .. 31 : WireBit(emit_word(r), n) = ResultBit(124, a, b, n)
<1> DEFINE v1 == load_word(a)[1]  v2 == load_word(a)[2]
           w1 == load_word(b)[1]  w2 == load_word(b)[2]
           r  == or32(load_word(a), load_word(b))
           r1 == Bitwise2(OrBit, 16, v1, w1)
           r2 == Bitwise2(OrBit, 16, v2, w2)
<1>1. v1 \in U16 /\ v2 \in U16 /\ w1 \in U16 /\ w2 \in U16
  BY WordRead DEF U32
<1>2. r = <<r1, r2>>
  BY Zenon DEF or32
<1>3. /\ r1 \in U16 /\ \A i \in 0 .. 15 : BitsOf(r1)[i] = OrBit(BitsOf(v1)[i], BitsOf(w1)[i])
      /\ r2 \in U16 /\ \A i \in 0 .. 15 : BitsOf(r2)[i] = OrBit(BitsOf(v2)[i], BitsOf(w2)[i])
  BY <1>1, OrBits
<1>4. \A i \in 0 .. 15 : /\ WireBit(a, i) = BitsOf(v2)[i] /\ WireBit(a, i + 16) = BitsOf(v1)[i]
                         /\ WireBit(b, i) = BitsOf(w2)[i] /\ WireBit(b, i + 16) = BitsOf(w1)[i]
  BY WireBits
<1>5. \A n \in 0 .. 31 : ResultBit(124, a, b, n) = OrBit(WireBit(a, n), WireBit(b, n))
  <2>1. \A x, y \in {0, 1} : OrBit(x, y) = IF x = 1 \/ y = 1 THEN 1 ELSE 0
    BY DEF OrBit
  <2> QED
    BY <2>1, WireBitType DEF ResultBit
<1> HIDE DEF r1, r2
<1>6. r \in U32 /\ r[1] = r1 /\ r[2] = r2
  BY <1>2, <1>3 DEF U32
<1> HIDE DEF r, v1, v2, w1, w2
<1>7. \A i \in 0 .. 15 : /\ BitsOf(r[2])[i] = ResultBit(124, a, b, i)
                         /\ BitsOf(r[1])[i] = ResultBit(124, a, b, i + 16)
  <2>1. \A i \in 0 .. 15 : i \in 0 .. 31 /\ i + 16 \in 0 .. 31
    OBVIOUS
  <2> QED
    BY <1>3, <1>4, <1>5, <1>6, <2>1
<1>8. \A n \in 0 .. 31 : WireBit(emit_word(r), n) = ResultBit(124, a, b, n)
  BY <1>6, <1>7, FromHalves
<1> QED
  BY <1>6, <1>8 DEF r

(***************************************************************************)
(* The bits of an exclusive disjunction.                                   *)
(***************************************************************************)
LEMMA XorRight ==
  ASSUME NEW a \in Bytes4, NEW b \in Bytes4
  PROVE  LET r == xor32(load_word(a), load_word(b))
         IN r \in U32 /\ \A n \in 0 .. 31 : WireBit(emit_word(r), n) = ResultBit(94, a, b, n)
<1> DEFINE v1 == load_word(a)[1]  v2 == load_word(a)[2]
           w1 == load_word(b)[1]  w2 == load_word(b)[2]
           r  == xor32(load_word(a), load_word(b))
           r1 == Bitwise2(XorBit, 16, v1, w1)
           r2 == Bitwise2(XorBit, 16, v2, w2)
<1>1. v1 \in U16 /\ v2 \in U16 /\ w1 \in U16 /\ w2 \in U16
  BY WordRead DEF U32
<1>2. r = <<r1, r2>>
  BY Zenon DEF xor32
<1>3. /\ r1 \in U16 /\ \A i \in 0 .. 15 : BitsOf(r1)[i] = XorBit(BitsOf(v1)[i], BitsOf(w1)[i])
      /\ r2 \in U16 /\ \A i \in 0 .. 15 : BitsOf(r2)[i] = XorBit(BitsOf(v2)[i], BitsOf(w2)[i])
  BY <1>1, XorBits
<1>4. \A i \in 0 .. 15 : /\ WireBit(a, i) = BitsOf(v2)[i] /\ WireBit(a, i + 16) = BitsOf(v1)[i]
                         /\ WireBit(b, i) = BitsOf(w2)[i] /\ WireBit(b, i + 16) = BitsOf(w1)[i]
  BY WireBits
<1>5. \A n \in 0 .. 31 : ResultBit(94, a, b, n) = XorBit(WireBit(a, n), WireBit(b, n))
  <2>1. \A x, y \in {0, 1} : XorBit(x, y) = IF x # y THEN 1 ELSE 0
    BY DEF XorBit
  <2> QED
    BY <2>1, WireBitType DEF ResultBit
<1> HIDE DEF r1, r2
<1>6. r \in U32 /\ r[1] = r1 /\ r[2] = r2
  BY <1>2, <1>3 DEF U32
<1> HIDE DEF r, v1, v2, w1, w2
<1>7. \A i \in 0 .. 15 : /\ BitsOf(r[2])[i] = ResultBit(94, a, b, i)
                         /\ BitsOf(r[1])[i] = ResultBit(94, a, b, i + 16)
  <2>1. \A i \in 0 .. 15 : i \in 0 .. 31 /\ i + 16 \in 0 .. 31
    OBVIOUS
  <2> QED
    BY <1>3, <1>4, <1>5, <1>6, <2>1
<1>8. \A n \in 0 .. 31 : WireBit(emit_word(r), n) = ResultBit(94, a, b, n)
  BY <1>6, <1>7, FromHalves
<1> QED
  BY <1>6, <1>8 DEF r

\* What the table calculate computes for an operation that it has.
Result(op, v, w) ==
  CASE op = 43  -> add32(v, w)
    [] op = 45  -> sub32(v, w)
    [] op = 38  -> and32(v, w)
    [] op = 124 -> or32(v, w)
    [] op = 94  -> xor32(v, w)

Operations == {43, 45, 38, 124, 94}

(***************************************************************************)
(* The calculator is right in all 32 bits, for all operands: carries and   *)
(* borrows that run from the lowest byte to the highest and wrap included. *)
(***************************************************************************)
THEOREM ResultRight ==
  ASSUME NEW a \in Bytes4, NEW b \in Bytes4, NEW op \in Operations
  PROVE  LET r == Result(op, load_word(a), load_word(b))
         IN r \in U32 /\ \A n \in 0 .. 31 : WireBit(emit_word(r), n) = ResultBit(op, a, b, n)
<1> DEFINE v == load_word(a)
           w == load_word(b)
<1>1. op = 43 \/ op = 45 \/ op = 38 \/ op = 124 \/ op = 94
  BY DEF Operations
<1>2. CASE op = 43
  <2>1. Result(op, v, w) = add32(v, w)
    BY <1>2 DEF Result
  <2>2. /\ add32(v, w) \in U32
        /\ \A n \in 0 .. 31 : WireBit(emit_word(add32(v, w)), n) = ResultBit(43, a, b, n)
    BY SumRight, Zenon
  <2> QED
    BY <1>2, <2>1, <2>2
<1>3. CASE op = 45
  <2>1. Result(op, v, w) = sub32(v, w)
    BY <1>3 DEF Result
  <2>2. /\ sub32(v, w) \in U32
        /\ \A n \in 0 .. 31 : WireBit(emit_word(sub32(v, w)), n) = ResultBit(45, a, b, n)
    BY DifferenceRight, Zenon
  <2> QED
    BY <1>3, <2>1, <2>2
<1>4. CASE op = 38
  <2>1. Result(op, v, w) = and32(v, w)
    BY <1>4 DEF Result
  <2>2. /\ and32(v, w) \in U32
        /\ \A n \in 0 .. 31 : WireBit(emit_word(and32(v, w)), n) = ResultBit(38, a, b, n)
    BY AndRight, Zenon
  <2> QED
    BY <1>4, <2>1, <2>2
<1>5. CASE op = 124
  <2>1. Result(op, v, w) = or32(v, w)
    BY <1>5 DEF Result
  <2>2. /\ or32(v, w) \in U32
        /\ \A n \in 0 .. 31 : WireBit(emit_word(or32(v, w)), n) = ResultBit(124, a, b, n)
    BY OrRight, Zenon
  <2> QED
    BY <1>5, <2>1, <2>2
<1>6. CASE op = 94
  <2>1. Result(op, v, w) = xor32(v, w)
    BY <1>6 DEF Result
  <2>2. /\ xor32(v, w) \in U32
        /\ \A n \in 0 .. 31 : WireBit(emit_word(xor32(v, w)), n) = ResultBit(94, a, b, n)
    BY XorRight, Zenon
  <2> QED
    BY <1>6, <2>1, <2>2
<1> QED
  BY <1>1, <1>2, <1>3, <1>4, <1>5, <1>6

-----------------------------------------------------------------------------
(* The parser *)

EthHdr == [valid : BOOLEAN, dstAddr : U64, srcAddr : U64, etherType : U16]

\* The map after the Ethernet header, and after the calculator's.
EthMd(f) == WithEth(f, ZeroHdrMd)

CalcMd(f) == [eth |-> EthMd(f).eth, p4calc |-> P4calcOf(f), offset |-> EthMd(f).offset + CalcLen]

\* What a packet leaves in the map; none is rejected.
Extracted(f) == IF f.len < 14 THEN ZeroHdrMd ELSE IF IsCalc(f) THEN CalcMd(f) ELSE EthMd(f)

(***************************************************************************)
(* The fields of a packet.                                                 *)
(***************************************************************************)
LEMMA FrameFields ==
  ASSUME NEW f \in Frame
  PROVE  /\ f.len \in Nat /\ f.md \in Half \cup {NoMd} /\ f.dmac \in Mac /\ f.smac \in Mac
         /\ f.etherType \in Half /\ f.p \in Byte /\ f.four \in Byte /\ f.ver \in Byte /\ f.op \in Byte
         /\ f.a \in Bytes4 /\ f.b \in Bytes4 /\ f.res \in Bytes4
BY DEF Frame

(***************************************************************************)
(* A packet is made up of its fields.                                      *)
(***************************************************************************)
LEMMA FrameIsFields ==
  ASSUME NEW f \in Frame
  PROVE  f = [len |-> f.len, md |-> f.md, dmac |-> f.dmac, smac |-> f.smac, etherType |-> f.etherType,
              p |-> f.p, four |-> f.four, ver |-> f.ver, op |-> f.op, a |-> f.a, b |-> f.b, res |-> f.res]
BY DEF Frame

(***************************************************************************)
(* A MAC address in a u64, and taken out of it again, is the same one; and *)
(* so is a u64 that is swapped twice.                                      *)
(***************************************************************************)
LEMMA MacRoundTrip ==
  ASSUME NEW m \in Mac
  PROVE  /\ MacIn64(m) \in U64 /\ MacOf64(MacIn64(m)) = m
         /\ swab64(swab64(MacIn64(m))) = MacIn64(m)
<1>1. MacIn64(m) \in U64
  BY DEF Mac, U64, MacIn64, Byte
<1>2. MacOf64(MacIn64(m)) = m
  BY DEF Mac, MacIn64, MacOf64
<1>3. ASSUME NEW u \in U64
      PROVE  swab64(swab64(u)) = u
  <2>1. \A i \in 1 .. 8 : 9 - i \in 1 .. 8 /\ 9 - (9 - i) = i
    OBVIOUS
  <2>2. \A i \in 1 .. 8 : swab64(swab64(u))[i] = u[i]
    BY <2>1 DEF swab64
  <2>3. swab64(swab64(u)) = [i \in 1 .. 8 |-> swab64(swab64(u))[i]] /\ u = [i \in 1 .. 8 |-> u[i]]
    BY DEF swab64, U64
  <2> HIDE DEF swab64
  <2> QED
    BY <2>2, <2>3, Zenon
<1> QED
  BY <1>1, <1>2, <1>3

(***************************************************************************)
(* Every step of the parser leaves a well-formed struct hdr_md.            *)
(***************************************************************************)
LEMMA MdTypes ==
  ASSUME NEW f \in Frame
  PROVE  ZeroHdrMd \in HdrMd /\ EthMd(f) \in HdrMd /\ CalcMd(f) \in HdrMd /\ Extracted(f) \in HdrMd
<1>1. HdrMd = [eth : EthHdr, p4calc : P4calc, offset : Nat]
  BY DEF HdrMd, EthHdr
<1>2. 0 \in Byte /\ 0 \in U16 /\ <<0, 0>> \in U32 /\ Zero64 \in U64
  <2>1. 0 \in Byte /\ 0 \in U16
    BY DEF Byte, U16
  <2> QED
    BY <2>1 DEF U32, U64, Zero64
<1>3. ZeroP4calc \in P4calc
  BY <1>2 DEF ZeroP4calc, P4calc
<1>4. [valid |-> FALSE, dstAddr |-> Zero64, srcAddr |-> Zero64, etherType |-> 0] \in EthHdr
  BY <1>2 DEF EthHdr
<1>5. ZeroHdrMd \in HdrMd /\ ZeroHdrMd.p4calc = ZeroP4calc /\ ZeroHdrMd.offset = 0
  BY <1>1, <1>3, <1>4 DEF ZeroHdrMd
<1>6. P4calcOf(f) \in P4calc
  <2>1. /\ f.p \in Byte /\ f.four \in Byte /\ f.ver \in Byte /\ f.op \in Byte
        /\ load_word(f.a) \in U32 /\ load_word(f.b) \in U32 /\ load_word(f.res) \in U32
    BY FrameFields, WordRead
  <2> QED
    BY <2>1 DEF P4calcOf, P4calc
<1>7. [valid |-> TRUE, dstAddr |-> MacIn64(f.dmac), srcAddr |-> MacIn64(f.smac),
       etherType |-> load_half(f.etherType)] \in EthHdr
  <2>1. MacIn64(f.dmac) \in U64 /\ MacIn64(f.smac) \in U64 /\ load_half(f.etherType) \in U16
    BY FrameFields, MacRoundTrip, HalfBytes
  <2> QED
    BY <2>1 DEF EthHdr
<1>8. EthMd(f) \in HdrMd
  BY <1>1, <1>3, <1>5, <1>7 DEF EthMd, WithEth, EthLen
<1>9. CalcMd(f) \in HdrMd
  BY <1>1, <1>6, <1>8 DEF CalcMd, CalcLen
<1> QED
  BY <1>5, <1>8, <1>9 DEF Extracted

(***************************************************************************)
(* The fields of the three maps.                                           *)
(***************************************************************************)
LEMMA MdFields ==
  ASSUME NEW f \in Frame
  PROVE  /\ ZeroHdrMd.eth.valid = FALSE /\ ZeroHdrMd.p4calc.valid = FALSE /\ ZeroHdrMd.offset = 0
         /\ EthMd(f).eth = [valid |-> TRUE, dstAddr |-> MacIn64(f.dmac), srcAddr |-> MacIn64(f.smac),
                            etherType |-> load_half(f.etherType)]
         /\ EthMd(f).eth.valid = TRUE /\ EthMd(f).p4calc.valid = FALSE /\ EthMd(f).offset = 14
         /\ CalcMd(f).eth = EthMd(f).eth /\ CalcMd(f).p4calc = P4calcOf(f)
         /\ CalcMd(f).p4calc.valid = TRUE /\ CalcMd(f).offset = 30
<1>1. /\ ZeroHdrMd.eth = [valid |-> FALSE, dstAddr |-> Zero64, srcAddr |-> Zero64, etherType |-> 0]
      /\ ZeroHdrMd.p4calc = ZeroP4calc /\ ZeroHdrMd.offset = 0 /\ ZeroP4calc.valid = FALSE
  BY DEF ZeroHdrMd, ZeroP4calc
<1>2. /\ EthMd(f).eth = [valid |-> TRUE, dstAddr |-> MacIn64(f.dmac), srcAddr |-> MacIn64(f.smac),
                         etherType |-> load_half(f.etherType)]
      /\ EthMd(f).p4calc = ZeroP4calc /\ EthMd(f).offset = 14
  BY <1>1 DEF EthMd, WithEth, EthLen
<1>3. CalcMd(f).eth = EthMd(f).eth /\ CalcMd(f).p4calc = P4calcOf(f) /\ CalcMd(f).offset = 30
  BY <1>2 DEF CalcMd, CalcLen
<1>4. P4calcOf(f).valid = TRUE
  BY DEF P4calcOf
<1> QED
  BY <1>1, <1>2, <1>3, <1>4

(***************************************************************************)
(* An etherType of 0x1234 is the bytes 18 and 52.                          *)
(***************************************************************************)
LEMMA CalcTypeBytes ==
  ASSUME NEW b \in Half
  PROVE  (load_half(b) = P4CALC_ETYPE) <=> (b = <<18, 52>>)
<1>1. b[1] \in Byte /\ b[2] \in Byte /\ b = <<b[1], b[2]>>
  BY HalfBytes
<1>2. ASSUME NEW x \in Byte, NEW y \in Byte
      PROVE  (x * 256 + y = 4660) <=> (x = 18 /\ y = 52)
  BY <1>2 DEF Byte
<1>3. (b = <<18, 52>>) <=> (b[1] = 18 /\ b[2] = 52)
  BY <1>1
<1> QED
  BY <1>1, <1>2, <1>3 DEF load_half, P4CALC_ETYPE

(***************************************************************************)
(* What run_parser makes of a packet, whatever the map held before: three  *)
(* lookaheads and an extraction agree on what is long enough.              *)
(***************************************************************************)
LEMMA ParserResult ==
  ASSUME NEW f \in Frame, NEW md
  PROVE  run_parser(f, md).ret # TC_ACT_SHOT /\ run_parser(f, md).md = Extracted(f)
<1> DEFINE e == EthMd(f)
<1>1. run_parser(f, md) = start(f, ZeroHdrMd)
  BY DEF run_parser, memset
<1>2. f.len \in Nat /\ f.etherType \in Half
  BY FrameFields
<1>3. ASSUME NEW m
      PROVE  Accept(m).ret # TC_ACT_SHOT /\ Accept(m).md = m /\ Reject(m, PacketTooShort) = Accept(m)
  BY DEF Accept, Reject, NoError, PacketTooShort, TC_ACT_SHOT, Continue
<1>4. /\ TooShort(f, ZeroHdrMd, EthLen) <=> f.len < 14
      /\ TooShort(f, e, CalcLen) <=> f.len < 30
  <2>1. ZeroHdrMd.offset = 0 /\ EthMd(f).offset = 14
    BY MdFields
  <2>2. ZeroHdrMd.offset + EthLen = 14 /\ EthMd(f).offset + CalcLen = 30
    BY <2>1 DEF EthLen, CalcLen
  <2> QED
    BY <2>2 DEF TooShort
<1>5. (load_half(f.etherType) = P4CALC_ETYPE) <=> (f.etherType = <<18, 52>>)
  BY <1>2, CalcTypeBytes
<1>6. IsCalc(f) <=> ~(f.len < 30) /\ f.etherType = <<18, 52>> /\ <<f.p, f.four, f.ver>> = <<80, 52, 1>>
  BY <1>2 DEF IsCalc, EthLen, CalcLen
<1>7. e = WithEth(f, ZeroHdrMd)
  BY DEF EthMd
<1> HIDE DEF e
<1>8. CASE f.len < 14
  <2>1. start(f, ZeroHdrMd) = Accept(ZeroHdrMd) /\ Extracted(f) = ZeroHdrMd
    BY <1>3, <1>4, <1>8 DEF start, Extracted
  <2> QED
    BY <1>1, <1>3, <2>1
<1>9. CASE ~(f.len < 14) /\ f.etherType # <<18, 52>>
  <2>1. start(f, ZeroHdrMd) = Accept(e) /\ Extracted(f) = e
    BY <1>4, <1>5, <1>6, <1>7, <1>9 DEF start, Extracted, e
  <2> QED
    BY <1>1, <1>3, <2>1
<1>10. CASE ~(f.len < 14) /\ f.etherType = <<18, 52>>
  <2>1. start(f, ZeroHdrMd) = check_p4calc(f, e)
    BY <1>4, <1>5, <1>7, <1>10 DEF start
  <2>2. CASE f.len < 30
    <3>1. check_p4calc(f, e) = Accept(e) /\ Extracted(f) = e
      BY <1>3, <1>4, <1>6, <1>10, <2>2 DEF check_p4calc, lookahead, Extracted, e
    <3> QED
      BY <1>1, <1>3, <2>1, <3>1
  <2> DEFINE h == P4calcOf(f)
             is == <<h.p, h.four, h.ver>> = <<80, 52, 1>>
  <2>3. h.p = f.p /\ h.four = f.four /\ h.ver = f.ver
    BY DEF P4calcOf
  <2>4. CASE ~(f.len < 30)
    <3>1. check_p4calc(f, e) = IF is THEN parse_p4calc(f, e) ELSE Accept(e)
      BY <1>4, <2>4, Zenon DEF check_p4calc, lookahead, P4CALC_P, P4CALC_4, P4CALC_VER
    <3>2. parse_p4calc(f, e) = Accept(CalcMd(f))
      BY <1>4, <2>4, Zenon DEF parse_p4calc, CalcMd, e
    <3>3. is <=> IsCalc(f)
      BY <1>6, <1>10, <2>3, <2>4
    <3>4. check_p4calc(f, e) = Accept(Extracted(f))
      BY <1>10, <3>1, <3>2, <3>3, Zenon DEF Extracted, e
    <3> QED
      BY <1>1, <1>3, <2>1, <3>4
  <2> QED
    BY <2>2, <2>4
<1> QED
  BY <1>8, <1>9, <1>10

-----------------------------------------------------------------------------
(* The answer *)

\* A packet with other addresses, another etherType and another result.
With(f, dmac, smac, e, res) ==
  [len |-> f.len, md |-> f.md, dmac |-> dmac, smac |-> smac, etherType |-> e,
   p |-> f.p, four |-> f.four, ver |-> f.ver, op |-> f.op, a |-> f.a, b |-> f.b, res |-> res]

\* The result of a packet's operation, and the answer to it.
ResultOf(f) == Result(f.op, load_word(f.a), load_word(f.b))

Ans(f) == With(f, f.smac, f.dmac, f.etherType, emit_word(ResultOf(f)))

(***************************************************************************)
(* It is a packet still, with those fields.                                *)
(***************************************************************************)
LEMMA WithFields ==
  ASSUME NEW f \in Frame, NEW d \in Mac, NEW s \in Mac, NEW e \in Half, NEW r \in Bytes4
  PROVE  /\ With(f, d, s, e, r) \in Frame
         /\ With(f, d, s, e, r).len = f.len /\ With(f, d, s, e, r).md = f.md
         /\ With(f, d, s, e, r).dmac = d /\ With(f, d, s, e, r).smac = s
         /\ With(f, d, s, e, r).etherType = e /\ With(f, d, s, e, r).p = f.p
         /\ With(f, d, s, e, r).four = f.four /\ With(f, d, s, e, r).ver = f.ver
         /\ With(f, d, s, e, r).op = f.op /\ With(f, d, s, e, r).a = f.a
         /\ With(f, d, s, e, r).b = f.b /\ With(f, d, s, e, r).res = r
<1>1. /\ f.len \in Nat /\ f.md \in Half \cup {NoMd} /\ f.p \in Byte /\ f.four \in Byte /\ f.ver \in Byte
      /\ f.op \in Byte /\ f.a \in Bytes4 /\ f.b \in Bytes4
  BY FrameFields
<1> QED
  BY <1>1 DEF With, Frame

\* The same, said with EXCEPT.
Swapped(f, d, s, r) == [f EXCEPT !.dmac = d, !.smac = s, !.res = r]
WithResult(f, r)    == [f EXCEPT !.res = r]

(***************************************************************************)
(* It is the same.                                                         *)
(***************************************************************************)
LEMMA WithExcept ==
  ASSUME NEW f \in Frame, NEW d \in Mac, NEW s \in Mac, NEW r \in Bytes4
  PROVE  /\ Swapped(f, d, s, r) = With(f, d, s, f.etherType, r)
         /\ WithResult(f, r) = With(f, f.dmac, f.smac, f.etherType, r)
<1> DEFINE F == [len : Nat, md : Half \cup {NoMd}, dmac : Mac, smac : Mac, etherType : Half,
                 p : Byte, four : Byte, ver : Byte, op : Byte, a : Bytes4, b : Bytes4, res : Bytes4]
           h == [f EXCEPT !.dmac = d]
           k == [h EXCEPT !.smac = s]
<1>1. f \in F
  BY DEF Frame
<1>2. h \in F /\ h = With(f, d, f.smac, f.etherType, f.res)
  BY <1>1 DEF With
<1>3. Swapped(f, d, s, r) = [k EXCEPT !.res = r]
  BY DEF Swapped
<1> HIDE DEF h
<1>4. k \in F /\ k = With(f, d, s, f.etherType, f.res)
  BY <1>2 DEF With
<1> HIDE DEF k
<1>5. [k EXCEPT !.res = r] = With(f, d, s, f.etherType, r)
  BY <1>4 DEF With
<1>6. WithResult(f, r) = With(f, f.dmac, f.smac, f.etherType, r)
  BY <1>1 DEF With, WithResult
<1> QED
  BY <1>3, <1>5, <1>6

(***************************************************************************)
(* The result of a request is a word, and is right.                        *)
(***************************************************************************)
LEMMA RequestResult ==
  ASSUME NEW f \in Frame, IsRequest(f)
  PROVE  /\ ResultOf(f) \in U32 /\ emit_word(ResultOf(f)) \in Bytes4
         /\ \A n \in 0 .. 31 : WireBit(emit_word(ResultOf(f)), n) = ResultBit(f.op, f.a, f.b, n)
<1>1. f.a \in Bytes4 /\ f.b \in Bytes4 /\ f.op \in Operations
  BY FrameFields DEF IsRequest, Operations
<1>2. /\ ResultOf(f) \in U32
      /\ \A n \in 0 .. 31 : WireBit(emit_word(ResultOf(f)), n) = ResultBit(f.op, f.a, f.b, n)
  BY <1>1, ResultRight, Zenon DEF ResultOf
<1> QED
  BY <1>2, WordWritten

(***************************************************************************)
(* The answer to a request is a packet, and a request itself; it differs   *)
(* in addresses and result only, and the answer to it is the request with  *)
(* the same result.                                                        *)
(***************************************************************************)
LEMMA AnswerIs ==
  ASSUME NEW f \in Frame, IsRequest(f)
  PROVE  /\ Ans(f) \in Frame /\ Ans(f).res = emit_word(ResultOf(f))
         /\ Ans(f) = Swapped(f, f.smac, f.dmac, Ans(f).res)
         /\ Ans(Ans(f)) = WithResult(f, Ans(f).res)
<1> DEFINE g == Ans(f)
           w == emit_word(ResultOf(f))
<1>1. f.dmac \in Mac /\ f.smac \in Mac /\ f.etherType \in Half /\ w \in Bytes4
  BY FrameFields, RequestResult
<1>2. g = With(f, f.smac, f.dmac, f.etherType, w)
  BY DEF Ans
<1> HIDE DEF w
<1>3. /\ g \in Frame /\ g.len = f.len /\ g.md = f.md /\ g.dmac = f.smac /\ g.smac = f.dmac
      /\ g.etherType = f.etherType /\ g.p = f.p /\ g.four = f.four /\ g.ver = f.ver
      /\ g.op = f.op /\ g.a = f.a /\ g.b = f.b /\ g.res = w
  BY <1>1, <1>2, WithFields
<1>4. g = Swapped(f, f.smac, f.dmac, w)
  BY <1>1, <1>2, WithExcept
<1>5. WithResult(f, w) = With(f, f.dmac, f.smac, f.etherType, w)
  BY <1>1, WithExcept
<1> HIDE DEF g
<1>6. Ans(g) = With(g, g.smac, g.dmac, g.etherType, emit_word(ResultOf(g)))
  BY DEF Ans
<1>7. ResultOf(g) = ResultOf(f)
  BY <1>3 DEF ResultOf
<1>8. Ans(g) = With(f, f.dmac, f.smac, f.etherType, w)
  BY <1>3, <1>6, <1>7, Zenon DEF With, w
<1>9. g.res = w /\ Ans(g) = WithResult(f, w)
  BY <1>3, <1>5, <1>8, Zenon
<1> QED
  BY <1>3, <1>4, <1>9, Zenon DEF g, w

(***************************************************************************)
(* The metadata of an XDP program replaces the etherType only.             *)
(***************************************************************************)
LEMMA Restored ==
  ASSUME NEW f \in Frame
  PROVE  /\ \E e \in Half : RestoreEtherType(f) = With(f, f.dmac, f.smac, e, f.res)
         /\ RestoreEtherType(f) \in Frame /\ RestoreEtherType(f).len = f.len
<1>1. f \in [len : Nat, md : Half \cup {NoMd}, dmac : Mac, smac : Mac, etherType : Half,
             p : Byte, four : Byte, ver : Byte, op : Byte, a : Bytes4, b : Bytes4, res : Bytes4]
  BY DEF Frame
<1>2. \E e \in Half : RestoreEtherType(f) = With(f, f.dmac, f.smac, e, f.res)
  <2>1. CASE f.md = NoMd
    <3>1. RestoreEtherType(f) = f
      BY <2>1 DEF RestoreEtherType
    <3>2. f.etherType \in Half
      BY <1>1
    <3> WITNESS f.etherType \in Half
    <3> QED
      BY <1>1, <3>1 DEF With
  <2>2. CASE f.md # NoMd
    <3>1. RestoreEtherType(f) = [f EXCEPT !.etherType = f.md]
      BY <2>2 DEF RestoreEtherType
    <3>2. f.md \in Half
      BY <1>1, <2>2
    <3> WITNESS f.md \in Half
    <3> QED
      BY <1>1, <3>1 DEF With
  <2> QED
    BY <2>1, <2>2
<1>3. PICK e \in Half : RestoreEtherType(f) = With(f, f.dmac, f.smac, e, f.res)
  BY <1>2
<1>4. f.dmac \in Mac /\ f.smac \in Mac /\ f.res \in Bytes4
  BY FrameFields
<1>5. /\ With(f, f.dmac, f.smac, e, f.res) \in Frame
      /\ With(f, f.dmac, f.smac, e, f.res).len = f.len
  BY <1>4, WithFields
<1> QED
  BY <1>2, <1>3, <1>5

\* What send_back leaves in the map for a packet.
AnswerMd(f) == WithAnswer(CalcMd(f), ResultOf(f), MacIn64(f.smac), MacIn64(f.dmac))

(***************************************************************************)
(* It is a struct hdr_md with the same headers.                            *)
(***************************************************************************)
LEMMA AnswerMdIs ==
  ASSUME NEW f \in Frame, IsRequest(f)
  PROVE  /\ AnswerMd(f) \in HdrMd
         /\ AnswerMd(f).eth = [valid |-> TRUE, dstAddr |-> MacIn64(f.smac), srcAddr |-> MacIn64(f.dmac),
                               etherType |-> load_half(f.etherType)]
         /\ AnswerMd(f).p4calc = [valid |-> TRUE, p |-> f.p, four |-> f.four, ver |-> f.ver, op |-> f.op,
                                  operand_a |-> load_word(f.a), operand_b |-> load_word(f.b),
                                  res |-> ResultOf(f)]
         /\ AnswerMd(f).offset = 30
<1> DEFINE m == CalcMd(f)
           E == [valid |-> TRUE, dstAddr |-> MacIn64(f.smac), srcAddr |-> MacIn64(f.dmac),
                 etherType |-> load_half(f.etherType)]
           H == [valid |-> TRUE, p |-> f.p, four |-> f.four, ver |-> f.ver, op |-> f.op,
                 operand_a |-> load_word(f.a), operand_b |-> load_word(f.b), res |-> ResultOf(f)]
<1>1. /\ m.eth = [valid |-> TRUE, dstAddr |-> MacIn64(f.dmac), srcAddr |-> MacIn64(f.smac),
                  etherType |-> load_half(f.etherType)]
      /\ m.p4calc = P4calcOf(f) /\ m.offset = 30
  BY MdFields
<1> HIDE DEF m
<1>2. m.eth.valid = TRUE /\ m.eth.etherType = load_half(f.etherType)
  BY <1>1
<1>3. /\ m.p4calc.valid = TRUE /\ m.p4calc.p = f.p /\ m.p4calc.four = f.four /\ m.p4calc.ver = f.ver
      /\ m.p4calc.op = f.op /\ m.p4calc.operand_a = load_word(f.a) /\ m.p4calc.operand_b = load_word(f.b)
  BY <1>1 DEF P4calcOf
<1>4. AnswerMd(f) = WithAnswer(m, ResultOf(f), MacIn64(f.smac), MacIn64(f.dmac))
  BY DEF AnswerMd, m
<1>5. AnswerMd(f) = [eth |-> E, p4calc |-> H, offset |-> 30]
  BY <1>1, <1>2, <1>3, <1>4, Zenon DEF WithAnswer
<1>6. E \in EthHdr
  <2>1. MacIn64(f.dmac) \in U64 /\ MacIn64(f.smac) \in U64 /\ load_half(f.etherType) \in U16
    BY FrameFields, MacRoundTrip, HalfBytes
  <2> QED
    BY <2>1 DEF EthHdr
<1>7. H \in P4calc
  <2>1. /\ f.p \in Byte /\ f.four \in Byte /\ f.ver \in Byte /\ f.op \in Byte
        /\ load_word(f.a) \in U32 /\ load_word(f.b) \in U32 /\ ResultOf(f) \in U32
    BY FrameFields, WordRead, RequestResult
  <2> QED
    BY <2>1 DEF P4calc
<1>8. HdrMd = [eth : EthHdr, p4calc : P4calc, offset : Nat]
  BY DEF HdrMd, EthHdr
<1> HIDE DEF E, H
<1>9. AnswerMd(f) \in HdrMd /\ AnswerMd(f).eth = E /\ AnswerMd(f).p4calc = H /\ AnswerMd(f).offset = 30
  BY <1>5, <1>6, <1>7, <1>8
<1> QED
  BY <1>9, Zenon DEF E, H

(***************************************************************************)
(* The deparser writes the answer: what was read and not changed becomes   *)
(* the received bytes again, an etherType that the metadata of an XDP      *)
(* program had replaced included.                                          *)
(***************************************************************************)
LEMMA Written ==
  ASSUME NEW f \in Frame, IsRequest(f)
  PROVE  WriteHeaders(RestoreEtherType(f), AnswerMd(f)) = Ans(f)
<1> DEFINE m == AnswerMd(f)
           g == RestoreEtherType(f)
<1>1. PICK e \in Half : g = With(f, f.dmac, f.smac, e, f.res)
  BY Restored
<1>2. g.len = f.len /\ g.md = f.md
  BY <1>1 DEF With
<1>3. /\ m.eth.valid = TRUE /\ m.eth.dstAddr = MacIn64(f.smac) /\ m.eth.srcAddr = MacIn64(f.dmac)
      /\ m.eth.etherType = load_half(f.etherType)
  <2>1. m.eth = [valid |-> TRUE, dstAddr |-> MacIn64(f.smac), srcAddr |-> MacIn64(f.dmac),
                 etherType |-> load_half(f.etherType)]
    BY AnswerMdIs
  <2> QED
    BY <2>1
<1>4. /\ m.p4calc.valid = TRUE /\ m.p4calc.p = f.p /\ m.p4calc.four = f.four /\ m.p4calc.ver = f.ver
      /\ m.p4calc.op = f.op /\ m.p4calc.operand_a = load_word(f.a) /\ m.p4calc.operand_b = load_word(f.b)
      /\ m.p4calc.res = ResultOf(f)
  <2>1. m.p4calc = [valid |-> TRUE, p |-> f.p, four |-> f.four, ver |-> f.ver, op |-> f.op,
                    operand_a |-> load_word(f.a), operand_b |-> load_word(f.b), res |-> ResultOf(f)]
    BY AnswerMdIs
  <2> QED
    BY <2>1
<1>5. /\ MacOf64(MacIn64(f.smac)) = f.smac /\ MacOf64(MacIn64(f.dmac)) = f.dmac
      /\ emit_half(load_half(f.etherType)) = f.etherType
      /\ emit_word(load_word(f.a)) = f.a /\ emit_word(load_word(f.b)) = f.b
  BY FrameFields, MacRoundTrip, FieldRoundTrip, WordRoundTrip
<1> HIDE DEF m, g
<1>6. WriteHeaders(g, m) =
        [len |-> g.len, md |-> g.md, dmac |-> MacOf64(m.eth.dstAddr), smac |-> MacOf64(m.eth.srcAddr),
         etherType |-> emit_half(m.eth.etherType), p |-> m.p4calc.p, four |-> m.p4calc.four,
         ver |-> m.p4calc.ver, op |-> m.p4calc.op, a |-> emit_word(m.p4calc.operand_a),
         b |-> emit_word(m.p4calc.operand_b), res |-> emit_word(m.p4calc.res)]
  BY <1>3, <1>4, Zenon DEF WriteHeaders
<1>7. WriteHeaders(g, m) = With(f, f.smac, f.dmac, f.etherType, emit_word(ResultOf(f)))
  BY <1>2, <1>3, <1>4, <1>5, <1>6, Zenon DEF With
<1> QED
  BY <1>7, Zenon DEF Ans, m, g

-----------------------------------------------------------------------------
(* The main block and the deparser *)

(***************************************************************************)
(* The actions of the table calculate differ in the result only: the       *)
(* address that is taken to host order and back is the same again.         *)
(***************************************************************************)
LEMMA SendBack ==
  ASSUME NEW f \in Frame, NEW b, NEW p, NEW r
  PROVE  send_back(CalcMd(f), b, p, r) =
           [md |-> WithAnswer(CalcMd(f), r, MacIn64(f.smac), MacIn64(f.dmac)), cb |-> send_to_port(b, p)]
<1> DEFINE m == CalcMd(f)
<1>1. m.eth = [valid |-> TRUE, dstAddr |-> MacIn64(f.dmac), srcAddr |-> MacIn64(f.smac),
               etherType |-> load_half(f.etherType)]
  BY MdFields
<1> HIDE DEF m
<1>2. m.eth.dstAddr = MacIn64(f.dmac) /\ m.eth.srcAddr = MacIn64(f.smac)
  BY <1>1
<1>3. swab64(swab64(MacIn64(f.dmac))) = MacIn64(f.dmac)
  BY FrameFields, MacRoundTrip
<1>4. send_back(m, b, p, r) =
        [md |-> WithAnswer(m, r, MacIn64(f.smac), MacIn64(f.dmac)), cb |-> send_to_port(b, p)]
  BY <1>2, <1>3, Zenon DEF send_back
<1> QED
  BY <1>4, Zenon DEF m

(***************************************************************************)
(* The entry of the table calculate for the operation of a packet.         *)
(***************************************************************************)
LEMMA Calculated ==
  ASSUME NEW f \in Frame, NEW b, NEW p
  PROVE  /\ f.op \in Operations => calculate(CalcMd(f), b, p) = send_back(CalcMd(f), b, p, ResultOf(f))
         /\ f.op \notin Operations => calculate(CalcMd(f), b, p) = operation_drop(CalcMd(f), b)
<1> DEFINE m == CalcMd(f)
           x == load_word(f.a)
           y == load_word(f.b)
<1>1. m.p4calc.op = f.op /\ m.p4calc.operand_a = x /\ m.p4calc.operand_b = y
  <2>1. m.p4calc = P4calcOf(f)
    BY MdFields
  <2> QED
    BY <2>1 DEF P4calcOf
<1>2. ResultOf(f) = Result(f.op, x, y)
  BY DEF ResultOf
<1> HIDE DEF m, x, y
<1> USE DEF P4CALC_PLUS, P4CALC_MINUS, P4CALC_AND, P4CALC_OR, P4CALC_CARET
<1>3. CASE f.op = 43
  <2>1. calculate_value(f.op) = "operation_add" /\ Result(f.op, x, y) = add32(x, y)
    BY <1>3 DEF calculate_value, Result
  <2> QED
    BY <1>1, <1>2, <1>3, <2>1 DEF calculate, operation_add, Operations, m
<1>4. CASE f.op = 45
  <2>1. calculate_value(f.op) = "operation_sub" /\ Result(f.op, x, y) = sub32(x, y)
    BY <1>4 DEF calculate_value, Result
  <2> QED
    BY <1>1, <1>2, <1>4, <2>1 DEF calculate, operation_sub, Operations, m
<1>5. CASE f.op = 38
  <2>1. calculate_value(f.op) = "operation_and" /\ Result(f.op, x, y) = and32(x, y)
    BY <1>5 DEF calculate_value, Result
  <2> QED
    BY <1>1, <1>2, <1>5, <2>1 DEF calculate, operation_and, Operations, m
<1>6. CASE f.op = 124
  <2>1. calculate_value(f.op) = "operation_or" /\ Result(f.op, x, y) = or32(x, y)
    BY <1>6 DEF calculate_value, Result
  <2> QED
    BY <1>1, <1>2, <1>6, <2>1 DEF calculate, operation_or, Operations, m
<1>7. CASE f.op = 94
  <2>1. calculate_value(f.op) = "operation_xor" /\ Result(f.op, x, y) = xor32(x, y)
    BY <1>7 DEF calculate_value, Result
  <2> QED
    BY <1>1, <1>2, <1>7, <2>1 DEF calculate, operation_xor, Operations, m
<1>8. CASE f.op \notin Operations
  <2>1. calculate_value(f.op) = "operation_drop"
    BY <1>8 DEF calculate_value, Operations
  <2> QED
    BY <1>1, <1>8, <2>1 DEF calculate, m
<1> QED
  BY <1>3, <1>4, <1>5, <1>6, <1>7, <1>8 DEF Operations

(***************************************************************************)
(* A request is answered, everything else is marked to be dropped: a       *)
(* packet without the header, and one whose operation is unknown.          *)
(***************************************************************************)
LEMMA MainResult ==
  ASSUME NEW f \in Frame, NEW b, NEW p
  PROVE  /\ IsRequest(f) =>
              MainControl(Extracted(f), b, p) = [md |-> AnswerMd(f), cb |-> send_to_port(b, p)]
         /\ ~IsRequest(f) =>
              MainControl(Extracted(f), b, p) = [md |-> Extracted(f), cb |-> drop_packet(b)]
<1>1. IsRequest(f) <=> IsCalc(f) /\ f.op \in Operations
  BY DEF IsRequest, Operations
<1>2. CASE IsCalc(f)
  <2>1. Extracted(f) = CalcMd(f)
    <3>1. ~(f.len < 14)
      <4>1. f.len \in Nat /\ f.len >= 30
        BY <1>2, FrameFields DEF IsCalc, EthLen, CalcLen
      <4> QED
        BY <4>1
    <3> QED
      BY <1>2, <3>1 DEF Extracted
  <2>2. MainControl(CalcMd(f), b, p) = calculate(CalcMd(f), b, p)
    <3>1. CalcMd(f).p4calc.valid = TRUE
      BY MdFields
    <3> QED
      BY <3>1, Zenon DEF MainControl
  <2>3. CASE f.op \in Operations
    <3>1. calculate(CalcMd(f), b, p) = send_back(CalcMd(f), b, p, ResultOf(f))
      BY <2>3, Calculated
    <3>2. send_back(CalcMd(f), b, p, ResultOf(f)) = [md |-> AnswerMd(f), cb |-> send_to_port(b, p)]
      BY SendBack, Zenon DEF AnswerMd
    <3> QED
      BY <1>1, <1>2, <2>1, <2>2, <2>3, <3>1, <3>2, Zenon
  <2>4. CASE f.op \notin Operations
    <3>1. calculate(CalcMd(f), b, p) = operation_drop(CalcMd(f), b)
      BY <2>4, Calculated
    <3> QED
      BY <1>1, <2>1, <2>2, <2>4, <3>1, Zenon DEF operation_drop
  <2> QED
    BY <2>3, <2>4
<1>3. CASE ~IsCalc(f)
  <2>1. Extracted(f).p4calc.valid = FALSE
    <3>1. ZeroHdrMd.p4calc.valid = FALSE /\ EthMd(f).p4calc.valid = FALSE
      BY MdFields
    <3> QED
      BY <1>3, <3>1 DEF Extracted
  <2>2. MainControl(Extracted(f), b, p) = [md |-> Extracted(f), cb |-> drop_packet(b)]
    BY <2>1, Zenon DEF MainControl, operation_drop
  <2> QED
    BY <1>1, <1>3, <2>2
<1> QED
  BY <1>2, <1>3

(***************************************************************************)
(* What the deparser comes to: the packet is dropped as its metadata say,  *)
(* or an answer is written, for which it need not make room.               *)
(***************************************************************************)
LEMMA Deparsed ==
  ASSUME NEW g, NEW md, NEW b
  PROVE  /\ b.drop => Deparse(g, md, b) = {[ret |-> TC_ACT_SHOT, frame |-> g, cb |-> b, md |-> md]}
         /\ ~b.drop /\ OutHeaderLength(md) = 30 /\ md.offset = 30 /\ ~(g.len < 30) =>
              Deparse(g, md, b) = {[ret |-> Continue, frame |-> WriteHeaders(g, md), cb |-> b, md |-> md]}
<1>1. CASE b.drop
  BY <1>1, Zenon DEF Deparse
<1>2. ASSUME ~b.drop, OutHeaderLength(md) = 30, md.offset = 30, ~(g.len < 30)
      PROVE  Deparse(g, md, b) = {[ret |-> Continue, frame |-> WriteHeaders(g, md), cb |-> b, md |-> md]}
  <2>1. Emit(g, md, b) = [ret |-> Continue, frame |-> WriteHeaders(g, md), cb |-> b, md |-> md]
    BY <1>2, Zenon DEF Emit
  <2>2. OutHeaderLength(md) - md.offset = 0
    BY <1>2
  <2>3. adjust_room(g, OutHeaderLength(md) - md.offset) = {[ret |-> Continue, frame |-> g]}
    BY <2>2, Zenon DEF adjust_room
  <2> DEFINE R == [ret |-> Continue, frame |-> g]
             F(r) == IF r.ret = TC_ACT_SHOT
                       THEN [ret |-> TC_ACT_SHOT, frame |-> r.frame, cb |-> b, md |-> md]
                       ELSE Emit(r.frame, md, b)
  <2>4. Deparse(g, md, b) = {F(r) : r \in {R}}
    BY <1>2, <2>3, Zenon DEF Deparse
  <2>5. R.ret # TC_ACT_SHOT /\ R.frame = g
    BY DEF TC_ACT_SHOT, Continue
  <2>6. F(R) = Emit(g, md, b)
    <3> HIDE DEF R
    <3> QED
      BY <2>5, Zenon
  <2> HIDE DEF R, F
  <2>7. {F(r) : r \in {R}} = {F(R)}
    OBVIOUS
  <2> QED
    BY <2>1, <2>4, <2>6, <2>7, Zenon
<1> QED
  BY <1>1, <1>2

(***************************************************************************)
(* Where process() and what follows take a packet.                         *)
(***************************************************************************)
LEMMA ProcessLeaves ==
  ASSUME NEW c, NEW f \in Frame, NEW b \in Cb, NEW p \in Nat \ {0},
         \E r \in process(p, RestoreEtherType(f), Extracted(f), b) : Return(c, r)
  PROVE  /\ IsRequest(f) => Leave(c, "sent", Ans(f), send_to_port(b, p), AnswerMd(f))
         /\ ~IsRequest(f) => Leave(c, "dropped", RestoreEtherType(f), drop_packet(b), Extracted(f))
<1> DEFINE g == RestoreEtherType(f)
           m == MainControl(Extracted(f), b, p)
<1>1. \E r \in Deparse(g, m.md, m.cb) : Return(c, r)
  BY Zenon DEF process
<1>2. CASE IsRequest(f)
  <2> DEFINE a == AnswerMd(f)
             d == send_to_port(b, p)
  <2>1. m = [md |-> a, cb |-> d]
    BY <1>2, MainResult, Zenon
  <2>2. d.drop = FALSE /\ d.egress_port = p
    BY CbTypes
  <2>3. WriteHeaders(g, a) = Ans(f)
    BY <1>2, Written
  <2>4. OutHeaderLength(a) = 30 /\ a.offset = 30
    <3>1. /\ a.eth = [valid |-> TRUE, dstAddr |-> MacIn64(f.smac), srcAddr |-> MacIn64(f.dmac),
                      etherType |-> load_half(f.etherType)]
          /\ a.p4calc = [valid |-> TRUE, p |-> f.p, four |-> f.four, ver |-> f.ver, op |-> f.op,
                         operand_a |-> load_word(f.a), operand_b |-> load_word(f.b), res |-> ResultOf(f)]
          /\ a.offset = 30
      BY <1>2, AnswerMdIs
    <3> HIDE DEF a
    <3>2. a.eth.valid = TRUE /\ a.p4calc.valid = TRUE
      BY <3>1
    <3> QED
      BY <3>1, <3>2 DEF OutHeaderLength, EthLen, CalcLen
  <2>5. ~(g.len < 30)
    <3>1. g.len = f.len /\ f.len \in Nat
      BY Restored, FrameFields
    <3>2. f.len >= 30
      BY <1>2 DEF IsRequest, IsCalc, EthLen, CalcLen
    <3> HIDE DEF g
    <3> QED
      BY <3>1, <3>2
  <2> HIDE DEF m, g, a, d
  <2>6. m.md = a /\ m.cb = d
    BY <2>1
  <2>7. Deparse(g, a, d) = {[ret |-> Continue, frame |-> WriteHeaders(g, a), cb |-> d, md |-> a]}
    BY <2>2, <2>4, <2>5, Deparsed
  <2>8. Return(c, [ret |-> Continue, frame |-> Ans(f), cb |-> d, md |-> a])
    BY <1>1, <2>3, <2>6, <2>7, Zenon
  <2>9. ~d.drop /\ d.egress_port # 0
    BY <2>2
  <2>10. Leave(c, "sent", Ans(f), d, a)
    BY <2>8, <2>9, ReturnLeaves, Zenon
  <2> QED
    BY <1>2, <2>10, Zenon DEF a, d
<1>3. CASE ~IsRequest(f)
  <2> DEFINE d == drop_packet(b)
  <2>1. m = [md |-> Extracted(f), cb |-> d]
    BY <1>3, MainResult, Zenon
  <2>2. d.drop
    BY CbTypes
  <2> HIDE DEF m, g, d
  <2>3. m.md = Extracted(f) /\ m.cb = d
    BY <2>1
  <2>4. Deparse(g, Extracted(f), d) = {[ret |-> TC_ACT_SHOT, frame |-> g, cb |-> d, md |-> Extracted(f)]}
    BY <2>2, Deparsed
  <2>5. Return(c, [ret |-> TC_ACT_SHOT, frame |-> g, cb |-> d, md |-> Extracted(f)])
    BY <1>1, <2>3, <2>4, Zenon
  <2>6. Leave(c, "dropped", g, d, Extracted(f))
    BY <2>5, ReturnLeaves, Zenon
  <2> QED
    BY <1>3, <2>6, Zenon DEF d, g
<1> QED
  BY <1>2, <1>3

-----------------------------------------------------------------------------
(* The inductive invariant *)

\* The types of the variables.
PnaOK == PnaTyped(Frame, HdrMd, {"idle", "main"})

\* The headers in a CPU's map are those of its packet as received, and of
\* no packet parsed before.
ScratchInv == \A c \in Cpus : pc[c] # "idle" => hdrMd[c] = Extracted(rcvd[cur[c]])

\* A packet received as r on device p that is at l with contents f and
\* metadata b.
SkbOK(l, f, b, r, p) ==
  /\ l \in {"new", "ingress", "cpu"} => f = r
  /\ l # "new" => p # 0
  /\ l # "stack" /\ b.pass_to_kernel = FALSE
  /\ l = "sent" => IsRequest(r) /\ f = Ans(r) /\ b.egress_port = p
  /\ l = "dropped" => ~IsRequest(r)

SkbInv == \A s \in Skbs : SkbOK(loc[s], frame[s], cb[s], rcvd[s], port[s])

IndInv == PnaOK /\ CpuInv /\ ScratchInv /\ SkbInv

(***************************************************************************)
(* What a CPU that has a packet at work knows of it.                       *)
(***************************************************************************)
LEMMA AtWork ==
  ASSUME IndInv, NEW c \in Cpus, pc[c] # "idle"
  PROVE  /\ cur[c] \in Skbs /\ rcvd[cur[c]] \in Frame /\ frame[cur[c]] = rcvd[cur[c]]
         /\ port[cur[c]] \in Nat \ {0} /\ cb[cur[c]] \in Cb /\ cb[cur[c]].pass_to_kernel = FALSE
         /\ hdrMd[c] = Extracted(rcvd[cur[c]]) /\ hdrMd[c] \in HdrMd
<1>1. cur[c] \in Skbs /\ loc[cur[c]] = "cpu"
  BY DEF IndInv, CpuInv
<1>2. rcvd[cur[c]] \in Frame /\ cb[cur[c]] \in Cb /\ hdrMd[c] \in HdrMd /\ port[cur[c]] \in Nat
  BY <1>1 DEF IndInv, PnaOK, PnaTyped
<1>3. frame[cur[c]] = rcvd[cur[c]] /\ cb[cur[c]].pass_to_kernel = FALSE /\ port[cur[c]] # 0
  BY <1>1 DEF IndInv, SkbInv, SkbOK
<1> QED
  BY <1>1, <1>2, <1>3 DEF IndInv, ScratchInv

(***************************************************************************)
(* A CPU that lets go of its packet keeps the invariant, if the packet it  *)
(* leaves behind is in order.                                              *)
(***************************************************************************)
LEMMA LeaveInv ==
  ASSUME IndInv, NEW c \in Cpus, pc[c] # "idle", NEW l \in {"sent", "dropped"},
         NEW f \in Frame, NEW b \in Cb, NEW md \in HdrMd, Leave(c, l, f, b, md),
         SkbOK(l, f, b, rcvd[cur[c]], port[cur[c]])
  PROVE  IndInv'
<1> USE DEF IndInv
<1>1. /\ PnaOK' /\ CpuInv'
      /\ cur[c] \in Skbs
      /\ loc'[cur[c]] = l /\ frame'[cur[c]] = f /\ cb'[cur[c]] = b
      /\ rcvd'[cur[c]] = rcvd[cur[c]] /\ port'[cur[c]] = port[cur[c]]
      /\ pc'[c] = "idle"
      /\ \A t \in Skbs : t # cur[c] => SameSkb(t)
      /\ \A d \in Cpus : d # c => SameCpu(d) /\ (pc[d] # "idle" => cur[d] # cur[c])
  BY LeaveStep DEF PnaOK
<1>2. SkbInv'
  <2> SUFFICES ASSUME NEW s \in Skbs
               PROVE  SkbOK(loc'[s], frame'[s], cb'[s], rcvd'[s], port'[s])
    BY DEF SkbInv
  <2>1. CASE s = cur[c]
    BY <1>1, <2>1
  <2>2. CASE s # cur[c]
    BY <1>1, <2>2 DEF SameSkb, SkbInv
  <2> QED
    BY <2>1, <2>2
<1>3. ScratchInv'
  <2> SUFFICES ASSUME NEW d \in Cpus, pc'[d] # "idle"
               PROVE  hdrMd'[d] = Extracted(rcvd'[cur'[d]])
    BY DEF ScratchInv
  <2>1. d # c /\ SameCpu(d) /\ pc[d] # "idle"
    BY <1>1 DEF SameCpu
  <2>2. cur[d] \in Skbs /\ cur[d] # cur[c]
    BY <1>1, <2>1 DEF CpuInv
  <2>3. rcvd'[cur'[d]] = rcvd[cur[d]]
    BY <1>1, <2>1, <2>2 DEF SameCpu, SameSkb
  <2> QED
    BY <2>1, <2>3 DEF SameCpu, ScratchInv
<1> QED
  BY <1>1, <1>2, <1>3

(***************************************************************************)
(* A packet that arrives.                                                  *)
(***************************************************************************)
LEMMA ArriveInv ==
  ASSUME IndInv, NEW s \in Skbs, NEW p \in Nat \ {0}, NEW f \in Frame, Arrive(s, p, f)
  PROVE  IndInv'
<1> USE DEF IndInv
<1>1. /\ PnaOK' /\ CpuInv'
      /\ loc[s] = "new" /\ loc'[s] = "ingress" /\ port'[s] = p
      /\ frame'[s] = f /\ rcvd'[s] = f /\ cb'[s] = cb[s]
      /\ \A t \in Skbs : t # s => SameSkb(t)
      /\ \A c \in Cpus : SameCpu(c) /\ (pc[c] # "idle" => cur[c] # s)
  BY ArriveStep DEF PnaOK
<1>2. SkbInv'
  <2>1. SkbOK(loc'[s], frame'[s], cb'[s], rcvd'[s], port'[s])
    BY <1>1 DEF SkbInv, SkbOK
  <2>2. \A t \in Skbs : t # s => SkbOK(loc'[t], frame'[t], cb'[t], rcvd'[t], port'[t])
    BY <1>1 DEF SkbInv, SameSkb
  <2> QED
    BY <2>1, <2>2 DEF SkbInv
<1>3. ScratchInv'
  <2>1. ASSUME NEW c \in Cpus, pc'[c] # "idle"
        PROVE  rcvd'[cur'[c]] = rcvd[cur[c]] /\ pc[c] # "idle"
    <3>1. pc[c] # "idle" /\ cur'[c] = cur[c] /\ cur[c] # s
      BY <1>1, <2>1 DEF SameCpu
    <3>2. cur[c] \in Skbs
      BY <3>1 DEF CpuInv
    <3> QED
      BY <1>1, <3>1, <3>2 DEF SameSkb
  <2> QED
    BY <1>1, <2>1 DEF ScratchInv, SameCpu
<1> QED
  BY <1>1, <1>2, <1>3

(***************************************************************************)
(* A packet received from outside, on a device that has an index, and an   *)
(* answer that comes back to the device it left by.                        *)
(***************************************************************************)
LEMMA ReceiveInv ==
  ASSUME IndInv, NEW n \in Skbs, Receive(n) \/ \E s \in Skbs : ComesBack(s, n)
  PROVE  IndInv'
<1>1. CASE Receive(n)
  <2>1. PICK p \in Ports, f \in Frames : Arrive(n, p, f)
    BY <1>1 DEF Receive
  <2>2. p \in Nat \ {0} /\ f \in Frame
    BY PortsAssumption, FramesAssumption
  <2> QED
    BY <2>1, <2>2, ArriveInv
<1>2. CASE \E s \in Skbs : ComesBack(s, n)
  <2>1. PICK s \in Skbs : loc[s] = "sent" /\ Arrive(n, cb[s].egress_port, frame[s])
    BY <1>2 DEF ComesBack
  <2>2. frame[s] \in Frame /\ port[s] \in Nat
    BY DEF IndInv, PnaOK, PnaTyped
  <2>3. cb[s].egress_port = port[s] /\ port[s] # 0
    BY <2>1 DEF IndInv, SkbInv, SkbOK
  <2> QED
    BY <2>1, <2>2, <2>3, ArriveInv
<1> QED
  BY <1>1, <1>2

(***************************************************************************)
(* A packet that is parsed.                                                *)
(***************************************************************************)
LEMMA ParseInv ==
  ASSUME IndInv, NEW c \in Cpus, NEW s \in Skbs, Parse(c, s)
  PROVE  IndInv'
<1> USE DEF IndInv
<1> DEFINE r == run_parser(frame[s], hdrMd[c])
<1>1. TcParseFunc(c, s, r)
  BY DEF Parse
<1>2. frame[s] \in Frame
  BY DEF PnaOK, PnaTyped
<1>3. r.ret # TC_ACT_SHOT /\ r.md = Extracted(frame[s]) /\ r.md \in HdrMd
  BY <1>2, ParserResult, MdTypes
<1> HIDE DEF r
<1>4. /\ PnaOK' /\ CpuInv'
      /\ pc[c] = "idle" /\ loc[s] = "ingress"
      /\ port'[s] = port[s] /\ frame'[s] = frame[s] /\ rcvd'[s] = rcvd[s] /\ cb'[s] = cb[s]
      /\ loc'[s] = "cpu" /\ pc'[c] = "main" /\ cur'[c] = s /\ hdrMd'[c] = r.md
      /\ \A t \in Skbs : t # s => SameSkb(t)
      /\ \A d \in Cpus : d # c => SameCpu(d) /\ (pc[d] # "idle" => cur[d] # s)
  BY <1>1, <1>3, ParseStep DEF PnaOK
<1>5. frame[s] = rcvd[s]
  BY <1>4 DEF SkbInv, SkbOK
<1>6. SkbInv'
  <2>1. SkbOK(loc'[s], frame'[s], cb'[s], rcvd'[s], port'[s])
    BY <1>4 DEF SkbInv, SkbOK
  <2>2. \A t \in Skbs : t # s => SkbOK(loc'[t], frame'[t], cb'[t], rcvd'[t], port'[t])
    BY <1>4 DEF SkbInv, SameSkb
  <2> QED
    BY <2>1, <2>2 DEF SkbInv
<1>7. ScratchInv'
  <2> SUFFICES ASSUME NEW d \in Cpus, pc'[d] # "idle"
               PROVE  hdrMd'[d] = Extracted(rcvd'[cur'[d]])
    BY DEF ScratchInv
  <2>1. CASE d = c
    BY <1>3, <1>4, <1>5, <2>1
  <2>2. CASE d # c
    <3>1. SameCpu(d) /\ pc[d] # "idle" /\ cur[d] # s
      BY <1>4, <2>2 DEF SameCpu
    <3>2. cur[d] \in Skbs
      BY <3>1 DEF CpuInv
    <3>3. rcvd'[cur'[d]] = rcvd[cur[d]]
      BY <1>4, <3>1, <3>2 DEF SameCpu, SameSkb
    <3> QED
      BY <3>1, <3>3 DEF SameCpu, ScratchInv
  <2> QED
    BY <2>1, <2>2
<1> QED
  BY <1>4, <1>6, <1>7

(***************************************************************************)
(* The main block, and its early returns: a packet too short for the       *)
(* metadata in front of it is no request.                                  *)
(***************************************************************************)
LEMMA MainInv ==
  ASSUME IndInv, NEW c \in Cpus, Main(c)
  PROVE  IndInv'
<1> DEFINE f == rcvd[cur[c]]
           b == cb[cur[c]]
           p == port[cur[c]]
<1>1. pc[c] # "idle"
  BY DEF Main, IngressEarly, EarlyReturn, PassToKernel, MetadataShot, Process, EntersMain
<1>2. /\ f \in Frame /\ frame[cur[c]] = f /\ p \in Nat \ {0} /\ b \in Cb /\ b.pass_to_kernel = FALSE
      /\ hdrMd[c] = Extracted(f) /\ hdrMd[c] \in HdrMd
  BY <1>1, AtWork
<1>3. CASE IngressEarly(c)
  <2>1. MetadataFails(f) /\ Leave(c, "dropped", f, b, hdrMd[c])
    BY <1>2, <1>3 DEF IngressEarly, EarlyReturn, PassToKernel, MetadataShot
  <2>2. ~IsRequest(f)
    <3>1. f.len \in Nat /\ f.len < 14
      BY <1>2, <2>1, FrameFields DEF MetadataFails
    <3>2. ~(f.len >= 30)
      BY <3>1
    <3> QED
      BY <3>2 DEF IsRequest, IsCalc, EthLen, CalcLen
  <2>3. SkbOK("dropped", f, b, f, p)
    BY <1>2, <2>2 DEF SkbOK
  <2> HIDE DEF f, b, p
  <2> QED
    BY <1>1, <1>2, <2>1, <2>3, LeaveInv DEF f, b, p
<1>4. CASE Process(c)
  <2>1. \E r \in process(p, RestoreEtherType(f), Extracted(f), b) : Return(c, r)
    BY <1>2, <1>4, Zenon DEF Process
  <2>2. CASE IsRequest(f)
    <3>1. Leave(c, "sent", Ans(f), send_to_port(b, p), AnswerMd(f))
      BY <1>2, <2>1, <2>2, ProcessLeaves, Zenon
    <3>2. /\ send_to_port(b, p) \in Cb /\ send_to_port(b, p).egress_port = p
          /\ send_to_port(b, p).pass_to_kernel = FALSE
      BY <1>2, CbTypes
    <3>3. Ans(f) \in Frame /\ AnswerMd(f) \in HdrMd
      BY <1>2, <2>2, AnswerIs, AnswerMdIs
    <3>4. SkbOK("sent", Ans(f), send_to_port(b, p), f, p)
      BY <1>2, <2>2, <3>2 DEF SkbOK
    <3> QED
      BY <1>1, <3>1, <3>2, <3>3, <3>4, LeaveInv
  <2>3. CASE ~IsRequest(f)
    <3>1. Leave(c, "dropped", RestoreEtherType(f), drop_packet(b), hdrMd[c])
      BY <1>2, <2>1, <2>3, ProcessLeaves
    <3>2. drop_packet(b) \in Cb /\ drop_packet(b).pass_to_kernel = FALSE /\ RestoreEtherType(f) \in Frame
      BY <1>2, CbTypes, Restored
    <3>3. SkbOK("dropped", RestoreEtherType(f), drop_packet(b), f, p)
      BY <1>2, <2>3, <3>2 DEF SkbOK
    <3> QED
      BY <1>1, <1>2, <3>1, <3>2, <3>3, LeaveInv
  <2> QED
    BY <2>2, <2>3
<1> QED
  BY <1>3, <1>4 DEF Main

-----------------------------------------------------------------------------
(* The theorems *)

(***************************************************************************)
(* The inductive invariant holds in every reachable state.                 *)
(***************************************************************************)
THEOREM Invariance == Spec => []IndInv
<1>1. Init => IndInv
  <2> SUFFICES ASSUME Init
               PROVE  IndInv
    OBVIOUS
  <2>1. NoFrame \in Frame
    <3>1. 0 \in Byte
      BY DEF Byte
    <3>2. NoMac \in Mac
      BY <3>1 DEF NoMac, Mac
    <3>3. NoWord \in Bytes4 /\ <<0, 0>> \in Half
      BY <3>1 DEF NoWord, Bytes4, Half
    <3> QED
      BY <3>1, <3>2, <3>3 DEF NoFrame, Frame, NoMd
  <2>2. ZeroHdrMd \in HdrMd
    BY <2>1, MdTypes
  <2>3. /\ PnaOK /\ CpuInv
        /\ loc = [s \in Skbs |-> "new"] /\ cb = [s \in Skbs |-> ZeroCb] /\ pc = [c \in Cpus |-> "idle"]
    BY <2>1, <2>2, InitStep DEF Init, PnaOK
  <2>4. \A s \in Skbs : frame[s] = rcvd[s]
    BY DEF Init, PnaInit
  <2>5. ScratchInv
    BY <2>3 DEF ScratchInv
  <2>6. SkbInv
    BY <2>3, <2>4 DEF SkbInv, SkbOK, ZeroCb
  <2> QED
    BY <2>3, <2>5, <2>6 DEF IndInv
<1>2. IndInv /\ [Next]_vars => IndInv'
  <2>1. IndInv /\ UNCHANGED vars => IndInv'
    BY DEF vars, pnaVars, IndInv, PnaOK, PnaTyped, CpuInv, ScratchInv, SkbInv
  <2> QED
    BY <2>1, ReceiveInv, ParseInv, MainInv DEF Next
<1> QED
  BY <1>1, <1>2, PTL DEF Spec

(***************************************************************************)
(* The variables of the pipeline have their types.                         *)
(***************************************************************************)
THEOREM TypeCorrect == Spec => []TypeOK
<1>1. IndInv => TypeOK
  BY DEF IndInv, PnaOK, PnaTyped, TypeOK
<1> QED
  BY <1>1, Invariance, PTL

(***************************************************************************)
(* What is sent answers the packet's own request, right in all 32 bits, to *)
(* the asker and out of the port it came by; nothing else has changed.     *)
(***************************************************************************)
THEOREM AnswersRight == Spec => []AnsweredRight
<1>1. IndInv => AnsweredRight
  <2> SUFFICES ASSUME IndInv, NEW s \in Skbs, loc[s] = "sent"
               PROVE  LET f == rcvd[s]
                          g == frame[s]
                      IN /\ IsRequest(f)
                         /\ \A i \in 0 .. 31 : WireBit(g.res, i) = ResultBit(f.op, f.a, f.b, i)
                         /\ g = [f EXCEPT !.dmac = f.smac, !.smac = f.dmac, !.res = g.res]
                         /\ cb[s].egress_port = port[s]
    BY Zenon DEF AnsweredRight
  <2> DEFINE f == rcvd[s]
             g == frame[s]
  <2>1. f \in Frame /\ IsRequest(f) /\ g = Ans(f) /\ cb[s].egress_port = port[s]
    BY DEF IndInv, PnaOK, PnaTyped, SkbInv, SkbOK
  <2> HIDE DEF f, g
  <2>2. g.res = emit_word(ResultOf(f)) /\ g = Swapped(f, f.smac, f.dmac, g.res)
    BY <2>1, AnswerIs, Zenon
  <2>3. \A i \in 0 .. 31 : WireBit(g.res, i) = ResultBit(f.op, f.a, f.b, i)
    BY <2>1, <2>2, RequestResult, Zenon
  <2>4. g = [f EXCEPT !.dmac = f.smac, !.smac = f.dmac, !.res = g.res]
    BY <2>2, Zenon DEF Swapped
  <2> QED
    BY <2>1, <2>3, <2>4, Zenon DEF f, g
<1> QED
  BY <1>1, Invariance, PTL

(***************************************************************************)
(* No packet reaches the stack, or is marked for it.                       *)
(***************************************************************************)
THEOREM KernelNeverReached == Spec => []NoneToStack
<1>1. IndInv => NoneToStack
  BY DEF IndInv, SkbInv, SkbOK, NoneToStack
<1> QED
  BY <1>1, Invariance, PTL

(***************************************************************************)
(* No request is dropped: neither by a lookahead that finds the packet too *)
(* short nor by the deparser for want of room.                             *)
(***************************************************************************)
THEOREM RequestsAnswered == Spec => []RequestsNotDropped
<1>1. IndInv => RequestsNotDropped
  BY DEF IndInv, SkbInv, SkbOK, RequestsNotDropped
<1> QED
  BY <1>1, Invariance, PTL

(***************************************************************************)
(* The answer to an answer is the request with the result in it.           *)
(***************************************************************************)
THEOREM AnswersDoNotAddUp == Spec => []AnswerToAnswer
<1>1. IndInv => AnswerToAnswer
  <2> SUFFICES ASSUME IndInv, NEW s \in Skbs, NEW n \in Skbs, loc[s] = "sent", loc[n] = "sent",
                      rcvd[n] = frame[s]
               PROVE  frame[n] = [rcvd[s] EXCEPT !.res = frame[s].res]
    BY Zenon DEF AnswerToAnswer
  <2>1. rcvd[s] \in Frame /\ IsRequest(rcvd[s]) /\ frame[s] = Ans(rcvd[s])
    BY DEF IndInv, PnaOK, PnaTyped, SkbInv, SkbOK
  <2>2. frame[n] = Ans(rcvd[n])
    BY DEF IndInv, SkbInv, SkbOK
  <2>3. Ans(Ans(rcvd[s])) = WithResult(rcvd[s], Ans(rcvd[s]).res)
    BY <2>1, AnswerIs
  <2>4. frame[n] = WithResult(rcvd[s], frame[s].res)
    BY <2>1, <2>2, <2>3, Zenon
  <2> QED
    BY <2>4, Zenon DEF WithResult
<1> QED
  BY <1>1, Invariance, PTL
=============================================================================
