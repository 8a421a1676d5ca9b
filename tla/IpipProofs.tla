----------------------------- MODULE IpipProofs -----------------------------
(***************************************************************************)
(* tunnels/ipip: the inductive invariant from which its properties follow, *)
(* for any number of CPUs, packets and entries of fwd_table, and any       *)
(* contents of the packets, tunnels in tunnels included.                   *)
(***************************************************************************)
EXTENDS Ipip, PnaProofs

-----------------------------------------------------------------------------
(* Sequences of headers *)

(***************************************************************************)
(* The headers of a packet, and the packet without its first one.          *)
(***************************************************************************)
LEMMA Ips ==
  ASSUME NEW S, NEW s \in Seq(S)
  PROVE  /\ Len(s) \in Nat /\ DOMAIN s = 1 .. Len(s)
         /\ \A i \in 1 .. Len(s) : s[i] \in S
         /\ Len(s) >= 1 => /\ Tail(s) \in Seq(S) /\ Len(Tail(s)) = Len(s) - 1
                           /\ \A i \in 1 .. Len(s) - 1 : Tail(s)[i] = s[i + 1]
OBVIOUS

(***************************************************************************)
(* Sequences of the same length with the same elements are the same.       *)
(***************************************************************************)
LEMMA SameIps ==
  ASSUME NEW S, NEW s \in Seq(S), NEW t, DOMAIN t = DOMAIN s, t = [i \in DOMAIN t |-> t[i]],
         \A i \in DOMAIN s : t[i] = s[i]
  PROVE  t = s
<1>1. s = [i \in 1 .. Len(s) |-> s[i]] /\ DOMAIN s = 1 .. Len(s)
  OBVIOUS
<1> QED
  BY <1>1

(***************************************************************************)
(* Writing no header, or the header that is there, changes nothing (Over). *)
(***************************************************************************)
LEMMA OverSame ==
  ASSUME NEW S, NEW s \in Seq(S)
  PROVE  /\ Over(s, <<>> \o <<>>) = s
         /\ Len(s) >= 1 => Over(s, <<s[1]>> \o <<>>) = s /\ Over(s, <<>> \o <<s[1]>>) = s
<1>1. DOMAIN s = 1 .. Len(s) /\ Len(s) \in Nat
  OBVIOUS
<1>2. ASSUME NEW hs, DOMAIN Over(s, hs) = DOMAIN s, \A i \in DOMAIN s : Over(s, hs)[i] = s[i]
      PROVE  Over(s, hs) = s
  <2>1. Over(s, hs) = [i \in DOMAIN Over(s, hs) |-> Over(s, hs)[i]]
    BY DEF Over
  <2> QED
    BY <1>2, <2>1, SameIps
<1>3. Over(s, <<>> \o <<>>) = s
  <2> DEFINE hs == <<>> \o <<>>
  <2>1. Len(hs) = 0
    OBVIOUS
  <2> HIDE DEF hs
  <2>2. DOMAIN Over(s, hs) = DOMAIN s /\ \A i \in DOMAIN s : Over(s, hs)[i] = s[i]
    BY <1>1, <2>1 DEF Over
  <2>3. Over(s, hs) = s
    BY <1>2, <2>2
  <2> QED
    BY <2>3 DEF hs
<1>4. ASSUME Len(s) >= 1
      PROVE  Over(s, <<s[1]>> \o <<>>) = s
  <2> DEFINE hs == <<s[1]>> \o <<>>
  <2>1. Len(hs) = 1 /\ hs[1] = s[1]
    OBVIOUS
  <2> HIDE DEF hs
  <2>2. DOMAIN Over(s, hs) = DOMAIN s /\ \A i \in DOMAIN s : Over(s, hs)[i] = s[i]
    BY <1>1, <1>4, <2>1 DEF Over
  <2>3. Over(s, hs) = s
    BY <1>2, <2>2
  <2> QED
    BY <2>3 DEF hs
<1>5. ASSUME Len(s) >= 1
      PROVE  Over(s, <<>> \o <<s[1]>>) = s
  <2> DEFINE hs == <<>> \o <<s[1]>>
  <2>1. Len(hs) = 1 /\ hs[1] = s[1]
    OBVIOUS
  <2> HIDE DEF hs
  <2>2. DOMAIN Over(s, hs) = DOMAIN s /\ \A i \in DOMAIN s : Over(s, hs)[i] = s[i]
    BY <1>1, <1>5, <2>1 DEF Over
  <2>3. Over(s, hs) = s
    BY <1>2, <2>2
  <2> QED
    BY <2>3 DEF hs
<1> QED
  BY <1>3, <1>4, <1>5

\* The headers s with a in front, and the first of them replaced by b.
Pushed(s, a, b) == <<a, b>> \o Tail(s)

PushedOver(S, s, z, a, b) ==
  /\ Over(<<z>> \o s, <<a>> \o <<b>>) = Pushed(s, a, b)
  /\ Pushed(s, a, b) \in Seq(S) /\ Len(Pushed(s, a, b)) = Len(s) + 1
  /\ Pushed(s, a, b)[1] = a /\ Pushed(s, a, b)[2] = b
  /\ Tail(Pushed(s, a, b)) = <<b>> \o Tail(s)

(***************************************************************************)
(* Two headers written where room was made for one: a new one is in front, *)
(* the first of the old ones is replaced, the others have moved behind.    *)
(***************************************************************************)
LEMMA OverPushed ==
  ASSUME NEW S, NEW s \in Seq(S), Len(s) >= 1, NEW z \in S, NEW a \in S, NEW b \in S
  PROVE  PushedOver(S, s, z, a, b)
<1> USE DEF PushedOver, Pushed
<1> DEFINE x  == <<z>> \o s
           hs == <<a>> \o <<b>>
           y  == <<a, b>> \o Tail(s)
           n  == Len(s)
<1>1. n \in Nat /\ n >= 1 /\ Tail(s) \in Seq(S) /\ Len(Tail(s)) = n - 1
      /\ \A i \in 1 .. n - 1 : Tail(s)[i] = s[i + 1]
  BY Ips
<1>2. DOMAIN x = 1 .. n + 1 /\ \A i \in 2 .. n + 1 : x[i] = s[i - 1]
  BY <1>1
<1>3. Len(hs) = 2 /\ hs[1] = a /\ hs[2] = b
  OBVIOUS
<1>4. y \in Seq(S) /\ Len(y) = n + 1 /\ y[1] = a /\ y[2] = b
  BY <1>1
<1>5. \A i \in 3 .. n + 1 : y[i] = Tail(s)[i - 2]
  BY <1>1
<1>6. DOMAIN y = 1 .. n + 1
  BY <1>4
<1> HIDE DEF x, hs, y, n
<1>7. \A i \in 3 .. n + 1 : y[i] = x[i]
  <2> SUFFICES ASSUME NEW i \in 3 .. n + 1
               PROVE  y[i] = x[i]
    OBVIOUS
  <2>1. i - 2 \in 1 .. n - 1 /\ i \in 2 .. n + 1 /\ (i - 2) + 1 = i - 1
    BY <1>1
  <2> QED
    BY <1>1, <1>2, <1>5, <2>1
<1>8. DOMAIN Over(x, hs) = DOMAIN y /\ \A i \in DOMAIN y : Over(x, hs)[i] = y[i]
  <2>1. DOMAIN Over(x, hs) = DOMAIN y
    BY <1>2, <1>6 DEF Over
  <2>2. ASSUME NEW i \in DOMAIN y
        PROVE  Over(x, hs)[i] = y[i]
    <3>1. Over(x, hs)[i] = IF i <= 2 THEN hs[i] ELSE x[i]
      BY <1>2, <1>3, <1>6, <2>2 DEF Over
    <3>2. i = 1 \/ i = 2 \/ (~(i <= 2) /\ i \in 3 .. n + 1)
      BY <1>1, <1>6, <2>2
    <3> QED
      BY <1>3, <1>4, <1>7, <3>1, <3>2
  <2> QED
    BY <2>1, <2>2
<1>9. Over(x, hs) = y
  <2>1. Over(x, hs) = [i \in DOMAIN Over(x, hs) |-> Over(x, hs)[i]]
    BY DEF Over
  <2> QED
    BY <1>4, <1>8, <2>1, SameIps
<1>10. Tail(y) = <<b>> \o Tail(s)
  <2>1. Tail(y) \in Seq(S) /\ Len(Tail(y)) = n
    BY <1>1, <1>4, Ips
  <2>2. \A i \in 1 .. n : Tail(y)[i] = y[i + 1]
    BY <1>1, <1>4, Ips
  <2> DEFINE v == <<b>> \o Tail(s)
  <2>3. v \in Seq(S) /\ Len(v) = n /\ v[1] = b
    BY <1>1
  <2>4. \A i \in 2 .. n : v[i] = Tail(s)[i - 1]
    BY <1>1
  <2> HIDE DEF v
  <2>5. \A i \in 1 .. n : Tail(y)[i] = v[i]
    <3> SUFFICES ASSUME NEW i \in 1 .. n
                 PROVE  Tail(y)[i] = v[i]
      OBVIOUS
    <3>1. CASE i = 1
      BY <1>4, <2>2, <2>3, <3>1
    <3>2. CASE i # 1
      <4>1. i \in 2 .. n /\ i + 1 \in 3 .. n + 1 /\ (i + 1) - 2 = i - 1
        BY <1>1, <3>2
      <4> QED
        BY <1>5, <2>2, <2>4, <4>1
    <3> QED
      BY <3>1, <3>2
  <2>6. ASSUME NEW u \in Seq(S), Len(u) = n, \A i \in 1 .. n : u[i] = v[i]
        PROVE  u = v
    <3>1. DOMAIN u = 1 .. n /\ u = [i \in DOMAIN u |-> u[i]] /\ DOMAIN v = 1 .. n
      BY <2>3, <2>6
    <3> QED
      BY <2>3, <2>6, <3>1, SameIps
  <2>7. Tail(y) = v
    BY <2>1, <2>5, <2>6
  <2> QED
    BY <2>7 DEF v
<1> QED
  BY <1>4, <1>9, <1>10 DEF x, hs, y, n

-----------------------------------------------------------------------------
(* Checksums *)

(***************************************************************************)
(* The fields of a header in the packet.                                   *)
(***************************************************************************)
LEMMA WireFields ==
  ASSUME NEW w \in WireIp
  PROVE  /\ w.other \in U16 /\ w.totalLen \in Half /\ w.ttl \in Byte /\ w.proto \in Byte
         /\ w.chk \in Half /\ w.src \in Addr /\ w.dst \in Addr
BY DEF WireIp

(***************************************************************************)
(* The fields of a header in the map.                                      *)
(***************************************************************************)
LEMMA Ipv4Fields ==
  ASSUME NEW ip \in Ipv4
  PROVE  /\ ip.valid \in BOOLEAN /\ ip.other \in U16 /\ ip.totalLen \in U16 /\ ip.ttl \in Byte
         /\ ip.proto \in Byte /\ ip.chk \in U16 /\ ip.src \in Addr /\ ip.dst \in Addr
BY DEF Ipv4

(***************************************************************************)
(* ttl and protocol make a 16-bit word.                                    *)
(***************************************************************************)
LEMMA TtlWordType ==
  ASSUME NEW ip, ip.ttl \in Byte, ip.proto \in Byte
  PROVE  TtlWord(ip) \in U16
BY JoinBytes DEF TtlWord

(***************************************************************************)
(* An address makes two words: its halves.                                 *)
(***************************************************************************)
LEMMA AddrHalves ==
  ASSUME NEW a \in Addr
  PROVE  /\ a \in Nat /\ a \div 65536 \in U16 /\ a % 65536 \in U16
         /\ AddrWords(a) = (a \div 65536) + (a % 65536) /\ AddrWords(a) \in Nat
<1>1. a \in Nat /\ a \div 65536 \in U16
  BY DEF Addr
<1>2. a % 65536 \in Int /\ 0 <= a % 65536 /\ a % 65536 <= 65535
  BY <1>1, Z3
<1>3. a % 65536 \in U16
  BY <1>2, BoundsU16
<1> QED
  BY <1>1, <1>2, <1>3, U16Bounds DEF AddrWords

(***************************************************************************)
(* The addition of a word to a checksum, up to a multiple of 65535.        *)
(***************************************************************************)
LEMMA AddedWord ==
  ASSUME NEW s \in U16, NEW w \in U16
  PROVE  /\ csum16_add(s, w) \in U16
         /\ csum16_add(s, w) = s + w \/ csum16_add(s, w) = s + w - 65535
BY EndAroundCarry, U16Bounds

(***************************************************************************)
(* A multiple of 65535, up to the ninth.                                   *)
(***************************************************************************)
Multiple(n) == \E k \in 0 .. 9 : n = k * 65535

(***************************************************************************)
(* Such a number leaves nothing when divided by 65535.                     *)
(***************************************************************************)
LEMMA MultipleMod ==
  ASSUME NEW n, Multiple(n)
  PROVE  n \in Nat /\ n % 65535 = 0
<1>1. PICK k \in 0 .. 9 : n = k * 65535
  BY DEF Multiple
<1> QED
  BY <1>1, Z3

(***************************************************************************)
(* ip_checksum: the header it makes has a right checksum on the wire,      *)
(* whatever its words, since what is left out of the sum by the carries is *)
(* a multiple of 65535.                                                    *)
(***************************************************************************)
LEMMA ChecksumMade ==
  ASSUME NEW ip \in Ipv4
  PROVE  \E chk \in U16 :
           /\ ip_checksum(ip) = [ip EXCEPT !.chk = chk]
           /\ LET sum == ip.other + ip.totalLen + TtlWord(ip) + AddrWords(ip.src) + AddrWords(ip.dst) + chk
              IN sum # 0 /\ sum % 65535 = 0
<1> DEFINE w1 == ip.other
           w2 == ip.totalLen
           w3 == TtlWord(ip)
           w4 == ip.src \div 65536
           w5 == ip.src % 65536
           w6 == ip.dst \div 65536
           w7 == ip.dst % 65536
           s1 == csum16_add(0, w1)
           s2 == csum16_add(s1, w2)
           s3 == csum16_add(s2, w3)
           s4 == csum16_add(s3, w4)
           s5 == csum16_add(s4, w5)
           s6 == csum16_add(s5, w6)
           s7 == csum16_add(s6, w7)
<1>1. /\ w1 \in U16 /\ w2 \in U16 /\ w3 \in U16
      /\ w4 \in U16 /\ w5 \in U16 /\ w6 \in U16 /\ w7 \in U16
  BY Ipv4Fields, TtlWordType, AddrHalves
<1>2. AddrWords(ip.src) = w4 + w5 /\ AddrWords(ip.dst) = w6 + w7
  BY Ipv4Fields, AddrHalves
<1>3. ip_checksum(ip) = [ip EXCEPT !.chk = not16(s7)]
  BY DEF ip_checksum
<1> HIDE DEF w1, w2, w3, w4, w5, w6, w7
<1>4. 0 \in U16
  BY BoundsU16
<1>5. s1 \in U16 /\ (s1 = 0 + w1 \/ s1 = 0 + w1 - 65535)
  BY <1>1, <1>4, AddedWord
<1> HIDE DEF s1
<1>6. s2 \in U16 /\ (s2 = s1 + w2 \/ s2 = s1 + w2 - 65535)
  BY <1>1, <1>5, AddedWord
<1> HIDE DEF s2
<1>7. s3 \in U16 /\ (s3 = s2 + w3 \/ s3 = s2 + w3 - 65535)
  BY <1>1, <1>6, AddedWord
<1> HIDE DEF s3
<1>8. s4 \in U16 /\ (s4 = s3 + w4 \/ s4 = s3 + w4 - 65535)
  BY <1>1, <1>7, AddedWord
<1> HIDE DEF s4
<1>9. s5 \in U16 /\ (s5 = s4 + w5 \/ s5 = s4 + w5 - 65535)
  BY <1>1, <1>8, AddedWord
<1> HIDE DEF s5
<1>10. s6 \in U16 /\ (s6 = s5 + w6 \/ s6 = s5 + w6 - 65535)
  BY <1>1, <1>9, AddedWord
<1> HIDE DEF s6
<1>11. s7 \in U16 /\ (s7 = s6 + w7 \/ s7 = s6 + w7 - 65535)
  BY <1>1, <1>10, AddedWord
<1> HIDE DEF s7
<1>12. ASSUME NEW s \in Int, NEW t \in Int, NEW w \in Int, NEW u \in Int, NEW k \in Nat,
              s = t + w \/ s = t + w - 65535, u = t + k * 65535
       PROVE  \E j \in k .. k + 1 : u + w = s + j * 65535
  BY <1>12, Z3
<1>13. /\ w1 \in Int /\ w2 \in Int /\ w3 \in Int /\ w4 \in Int /\ w5 \in Int /\ w6 \in Int /\ w7 \in Int
       /\ s1 \in Int /\ s2 \in Int /\ s3 \in Int /\ s4 \in Int /\ s5 \in Int /\ s6 \in Int
       /\ s7 \in Int /\ 0 <= s7 /\ s7 <= 65535
  BY <1>1, <1>5, <1>6, <1>7, <1>8, <1>9, <1>10, <1>11, U16Bounds
<1>14. PICK k1 \in 0 .. 1 : w1 = s1 + k1 * 65535
  BY <1>5, <1>13
<1>15. PICK k2 \in k1 .. k1 + 1 : w1 + w2 = s2 + k2 * 65535
  BY <1>6, <1>12, <1>13, <1>14
<1>16. PICK k3 \in k2 .. k2 + 1 : w1 + w2 + w3 = s3 + k3 * 65535
  BY <1>7, <1>12, <1>13, <1>14, <1>15
<1>17. PICK k4 \in k3 .. k3 + 1 : w1 + w2 + w3 + w4 = s4 + k4 * 65535
  BY <1>8, <1>12, <1>13, <1>14, <1>15, <1>16
<1>18. PICK k5 \in k4 .. k4 + 1 : w1 + w2 + w3 + w4 + w5 = s5 + k5 * 65535
  BY <1>9, <1>12, <1>13, <1>14, <1>15, <1>16, <1>17
<1>19. PICK k6 \in k5 .. k5 + 1 : w1 + w2 + w3 + w4 + w5 + w6 = s6 + k6 * 65535
  BY <1>10, <1>12, <1>13, <1>14, <1>15, <1>16, <1>17, <1>18
<1>20. PICK k7 \in k6 .. k6 + 1 : w1 + w2 + w3 + w4 + w5 + w6 + w7 = s7 + k7 * 65535
  BY <1>11, <1>12, <1>13, <1>14, <1>15, <1>16, <1>17, <1>18, <1>19
<1>21. k7 \in Nat /\ k7 + 1 \in 1 .. 9
  BY <1>14, <1>15, <1>16, <1>17, <1>18, <1>19, <1>20
<1> DEFINE chk == not16(s7)
           sum == w1 + w2 + w3 + (w4 + w5) + (w6 + w7) + chk
<1>22. chk = 65535 - s7 /\ chk \in Int /\ 0 <= chk /\ chk <= 65535
  BY <1>13 DEF not16
<1>23. sum = (k7 + 1) * 65535
  BY <1>13, <1>20, <1>21, <1>22
<1>24. sum # 0 /\ sum % 65535 = 0
  <2>1. Multiple(sum)
    BY <1>21, <1>23 DEF Multiple
  <2>2. sum # 0
    BY <1>21, <1>23
  <2> QED
    BY <2>1, <2>2, MultipleMod
<1>25. chk \in U16
  BY <1>22, BoundsU16
<1> QED
  BY <1>2, <1>3, <1>24, <1>25 DEF w1, w2, w3

(***************************************************************************)
(* A header with another checksum.                                         *)
(***************************************************************************)
LEMMA NewChk ==
  ASSUME NEW ip \in Ipv4, NEW chk \in U16
  PROVE  /\ [ip EXCEPT !.chk = chk]
              = [valid |-> ip.valid, other |-> ip.other, totalLen |-> ip.totalLen, ttl |-> ip.ttl,
                 proto |-> ip.proto, chk |-> chk, src |-> ip.src, dst |-> ip.dst]
         /\ [ip EXCEPT !.chk = chk] \in Ipv4
BY DEF Ipv4

(***************************************************************************)
(* A header with another ttl.                                              *)
(***************************************************************************)
LEMMA NewTtl ==
  ASSUME NEW ip \in Ipv4, NEW ttl \in Byte
  PROVE  /\ [ip EXCEPT !.ttl = ttl]
              = [valid |-> ip.valid, other |-> ip.other, totalLen |-> ip.totalLen, ttl |-> ttl,
                 proto |-> ip.proto, chk |-> ip.chk, src |-> ip.src, dst |-> ip.dst]
         /\ [ip EXCEPT !.ttl = ttl] \in Ipv4
BY DEF Ipv4

(***************************************************************************)
(* extract() of a header, and writing it back.                             *)
(***************************************************************************)
LEMMA WireRoundTrip ==
  ASSUME NEW w \in WireIp
  PROVE  /\ Extract(w) \in Ipv4 /\ ToWire(Extract(w)) = w
         /\ Extract(w).valid = TRUE /\ Extract(w).other = w.other /\ Extract(w).ttl = w.ttl
         /\ Extract(w).totalLen = load_half(w.totalLen) /\ Extract(w).proto = w.proto
         /\ Extract(w).chk = load_half(w.chk) /\ Extract(w).src = w.src /\ Extract(w).dst = w.dst
<1>1. /\ w.other \in U16 /\ w.totalLen \in Half /\ w.ttl \in Byte /\ w.proto \in Byte
      /\ w.chk \in Half /\ w.src \in Addr /\ w.dst \in Addr
  BY WireFields
<1>2. load_half(w.totalLen) \in U16 /\ load_half(w.chk) \in U16
  BY <1>1, HalfBytes
<1>3. Extract(w) \in Ipv4
  BY <1>1, <1>2 DEF Extract, Ipv4
<1>4. emit_half(load_half(w.totalLen)) = w.totalLen /\ emit_half(load_half(w.chk)) = w.chk
  BY <1>1, FieldRoundTrip
<1>5. /\ Extract(w).valid = TRUE /\ Extract(w).other = w.other /\ Extract(w).ttl = w.ttl
      /\ Extract(w).totalLen = load_half(w.totalLen) /\ Extract(w).proto = w.proto
      /\ Extract(w).chk = load_half(w.chk) /\ Extract(w).src = w.src /\ Extract(w).dst = w.dst
  BY DEF Extract
<1>6. w = [other |-> w.other, totalLen |-> w.totalLen, ttl |-> w.ttl, proto |-> w.proto, chk |-> w.chk,
           src |-> w.src, dst |-> w.dst]
  BY DEF WireIp
<1>7. ToWire(Extract(w)) = [other |-> w.other, totalLen |-> w.totalLen, ttl |-> w.ttl, proto |-> w.proto,
                            chk |-> w.chk, src |-> w.src, dst |-> w.dst]
  BY <1>4, <1>5 DEF ToWire
<1> QED
  BY <1>3, <1>5, <1>6, <1>7

(***************************************************************************)
(* A header of the map written to the packet: the fields that are read     *)
(* back from it.                                                           *)
(***************************************************************************)
LEMMA ToWireFields ==
  ASSUME NEW ip \in Ipv4
  PROVE  /\ ToWire(ip) \in WireIp
         /\ ToWire(ip).other = ip.other /\ ToWire(ip).ttl = ip.ttl /\ ToWire(ip).proto = ip.proto
         /\ ToWire(ip).src = ip.src /\ ToWire(ip).dst = ip.dst
         /\ load_half(ToWire(ip).totalLen) = ip.totalLen /\ load_half(ToWire(ip).chk) = ip.chk
         /\ ToWire(ip).totalLen = emit_half(ip.totalLen)
         /\ WordSum(ToWire(ip)) = ip.other + ip.totalLen + TtlWord(ip) + AddrWords(ip.src)
                                    + AddrWords(ip.dst) + ip.chk
<1>1. /\ ip.other \in U16 /\ ip.totalLen \in U16 /\ ip.ttl \in Byte /\ ip.proto \in Byte
      /\ ip.chk \in U16 /\ ip.src \in Addr /\ ip.dst \in Addr
  BY Ipv4Fields
<1>2. /\ emit_half(ip.totalLen) \in Half /\ load_half(emit_half(ip.totalLen)) = ip.totalLen
      /\ emit_half(ip.chk) \in Half /\ load_half(emit_half(ip.chk)) = ip.chk
  BY <1>1, ValueRoundTrip
<1>3. ToWire(ip) \in WireIp
  BY <1>1, <1>2 DEF ToWire, WireIp
<1>4. /\ ToWire(ip).other = ip.other /\ ToWire(ip).ttl = ip.ttl /\ ToWire(ip).proto = ip.proto
      /\ ToWire(ip).src = ip.src /\ ToWire(ip).dst = ip.dst
      /\ ToWire(ip).totalLen = emit_half(ip.totalLen) /\ ToWire(ip).chk = emit_half(ip.chk)
  BY DEF ToWire
<1>5. TtlWord(ToWire(ip)) = TtlWord(ip)
  BY <1>4 DEF TtlWord
<1> QED
  BY <1>2, <1>3, <1>4, <1>5 DEF WordSum

(***************************************************************************)
(* A byte that is counted down, wrapping at 0.                             *)
(***************************************************************************)
LEMMA ByteDown ==
  ASSUME NEW b \in Byte
  PROVE  (b + 255) % 256 \in Byte
<1>1. (b + 255) % 256 \in Int /\ 0 <= (b + 255) % 256 /\ (b + 255) % 256 <= 255
  BY Z3 DEF Byte
<1> QED
  BY <1>1 DEF Byte

(***************************************************************************)
(* ip_ttl_dec: one hop.  The sum of the words changes by a multiple of     *)
(* 65535, and is not 0 before or after if the header has a version.        *)
(***************************************************************************)
LEMMA HopMade ==
  ASSUME NEW w \in WireIp
  PROVE  /\ ip_ttl_dec(Extract(w)) \in Ipv4 /\ ip_ttl_dec(Extract(w)).valid = TRUE
         /\ OneHop(w, ToWire(ip_ttl_dec(Extract(w))))
<1> DEFINE ip  == Extract(w)
           ttl == (ip.ttl + 255) % 256
           dec == [ip EXCEPT !.ttl = ttl]
           m   == TtlWord(ip)
           n   == TtlWord(dec)
           u   == Updated(ip.chk, m, n)
           res == [dec EXCEPT !.chk = u]
           x   == ToWire(res)
<1>1. /\ ip \in Ipv4 /\ ToWire(ip) = w /\ ip.valid = TRUE /\ ip.other = w.other /\ ip.ttl = w.ttl
      /\ ip.totalLen = load_half(w.totalLen) /\ ip.proto = w.proto
      /\ ip.chk = load_half(w.chk) /\ ip.src = w.src /\ ip.dst = w.dst
  BY WireRoundTrip
<1>2. /\ ip.other \in U16 /\ ip.totalLen \in U16 /\ ip.ttl \in Byte /\ ip.proto \in Byte
      /\ ip.chk \in U16 /\ ip.src \in Addr /\ ip.dst \in Addr
  BY <1>1, Ipv4Fields
<1>3. ip_ttl_dec(ip) = res
  BY DEF ip_ttl_dec, Updated
<1> HIDE DEF ip
<1>4. ttl \in Byte
  BY <1>2, ByteDown
<1> HIDE DEF ttl
<1>5. dec = [valid |-> ip.valid, other |-> ip.other, totalLen |-> ip.totalLen, ttl |-> ttl,
             proto |-> ip.proto, chk |-> ip.chk, src |-> ip.src, dst |-> ip.dst] /\ dec \in Ipv4
  BY <1>1, <1>4, NewTtl
<1>6. /\ dec.valid = ip.valid /\ dec.other = ip.other /\ dec.totalLen = ip.totalLen /\ dec.ttl = ttl
      /\ dec.proto = ip.proto /\ dec.src = ip.src /\ dec.dst = ip.dst
  BY <1>5
<1> HIDE DEF dec
<1>7. m \in U16 /\ n \in U16
  BY <1>2, <1>4, <1>6, TtlWordType
<1>8. u \in U16 /\ (u = ip.chk + m - n - 65535 \/ u = ip.chk + m - n \/ u = ip.chk + m - n + 65535)
  BY <1>2, <1>7, UpdatedValue
<1> HIDE DEF u
<1>9. res = [valid |-> dec.valid, other |-> dec.other, totalLen |-> dec.totalLen, ttl |-> dec.ttl,
             proto |-> dec.proto, chk |-> u, src |-> dec.src, dst |-> dec.dst] /\ res \in Ipv4
  BY <1>5, <1>8, NewChk
<1>10. /\ res.valid = TRUE /\ res.other = ip.other /\ res.totalLen = ip.totalLen /\ res.ttl = ttl
       /\ res.proto = ip.proto /\ res.chk = u /\ res.src = ip.src /\ res.dst = ip.dst
  BY <1>1, <1>6, <1>9
<1> HIDE DEF res
<1>11. TtlWord(res) = n
  BY <1>6, <1>10 DEF TtlWord
<1> DEFINE a == AddrWords(ip.src)
           b == AddrWords(ip.dst)
           S == ip.other + ip.totalLen + m + a + b + ip.chk
           T == ip.other + ip.totalLen + n + a + b + u
<1>12. WordSum(w) = S /\ WordSum(x) = T
  BY <1>1, <1>9, <1>10, <1>11, ToWireFields
<1>13. a \in Nat /\ b \in Nat
  BY <1>2, AddrHalves
<1> HIDE DEF a, b, m, n
<1>14. /\ ip.other \in Int /\ 0 <= ip.other /\ ip.totalLen \in Int /\ 0 <= ip.totalLen
       /\ m \in Int /\ 0 <= m /\ n \in Int /\ 0 <= n /\ ip.chk \in Int /\ 0 <= ip.chk
       /\ u \in Int /\ 0 <= u
  BY <1>2, <1>7, <1>8, U16Bounds
<1>15. S \in Int /\ T \in Int /\ (ip.other # 0 => S # 0 /\ T # 0)
  <2>1. ASSUME NEW i \in Int, 0 <= i, NEW j \in Int, 0 <= j, NEW k \in Int, 0 <= k,
               NEW l \in Nat, NEW p \in Nat, NEW q \in Int, 0 <= q
        PROVE  i + j + k + l + p + q \in Int /\ (i # 0 => i + j + k + l + p + q # 0)
    BY <2>1
  <2>2. S \in Int /\ (ip.other # 0 => S # 0)
    BY <1>13, <1>14, <2>1
  <2>3. T \in Int /\ (ip.other # 0 => T # 0)
    BY <1>13, <1>14, <2>1
  <2> QED
    BY <2>2, <2>3
<1>16. T = S - 65535 \/ T = S \/ T = S + 65535
  BY <1>8, <1>13, <1>14
<1> HIDE DEF S, T
<1>17. (S % 65535 = 0) <=> (T % 65535 = 0)
  <2>1. (S - 65535) % 65535 = S % 65535
    BY <1>15, Z3
  <2>2. (S + 65535) % 65535 = S % 65535
    BY <1>15, Z3
  <2> QED
    BY <1>16, <2>1, <2>2
<1>18. w.other # 0 => (ChecksumRight(x) <=> ChecksumRight(w))
  BY <1>1, <1>12, <1>15, <1>17 DEF ChecksumRight
<1>19. x = [other |-> w.other, totalLen |-> w.totalLen, ttl |-> (w.ttl + 255) % 256, proto |-> w.proto,
            chk |-> x.chk, src |-> w.src, dst |-> w.dst]
  <2>1. emit_half(ip.totalLen) = w.totalLen
    BY <1>1, WireFields, FieldRoundTrip
  <2>2. x = [other |-> res.other, totalLen |-> emit_half(res.totalLen), ttl |-> res.ttl,
             proto |-> res.proto, chk |-> emit_half(res.chk), src |-> res.src, dst |-> res.dst]
    BY DEF ToWire
  <2>3. x.chk = emit_half(res.chk)
    BY <2>2
  <2> QED
    BY <1>1, <1>10, <2>1, <2>2, <2>3 DEF ttl
<1>20. OneHop(w, x)
  <2> HIDE DEF x
  <2> QED
    BY <1>18, <1>19 DEF OneHop
<1> QED
  BY <1>3, <1>9, <1>10, <1>20 DEF ip

\* out is a header for the tunnel of meta, to be put in front of w.
OuterOf(w, meta, out) ==
  /\ out \in Ipv4 /\ out.valid = TRUE
  /\ ToWire(out).src = meta.src /\ ToWire(out).dst = meta.dst
  /\ ToWire(out).proto = IPIP_PROTO /\ ChecksumRight(ToWire(out))
  /\ load_half(w.totalLen) <= 65515 => load_half(ToWire(out).totalLen) = load_half(w.totalLen) + Ipv4Len

(***************************************************************************)
(* ipip_push and ip_checksum: the new outer header.  Its length wraps only *)
(* if that of the packet is above 65515.                                   *)
(***************************************************************************)
LEMMA OuterMade ==
  ASSUME NEW w \in WireIp, NEW meta, meta.src \in Addr, meta.dst \in Addr
  PROVE  OuterOf(w, meta, ip_checksum(PushedOuter(Extract(w), meta, IPIP_PROTO)))
<1> USE DEF OuterOf
<1> DEFINE ip  == Extract(w)
           len == (ip.totalLen + 20) % 65536
           o   == PushedOuter(ip, meta, IPIP_PROTO)
<1>1. /\ ip \in Ipv4 /\ ip.valid = TRUE /\ ip.totalLen = load_half(w.totalLen)
  BY WireRoundTrip
<1> HIDE DEF ip
<1>2. ip.other \in U16 /\ ip.totalLen \in U16
  BY <1>1, Ipv4Fields
<1>3. ip.totalLen \in Int /\ 0 <= ip.totalLen
  BY <1>2, U16Bounds
<1>4. len \in Int /\ 0 <= len /\ len <= 65535 /\ (ip.totalLen <= 65515 => len = ip.totalLen + 20)
  BY <1>3, Z3
<1>5. len \in U16
  BY <1>4, BoundsU16
<1>6. o = [valid |-> TRUE, other |-> ip.other, totalLen |-> len, ttl |-> 64, proto |-> 4, chk |-> 0,
           src |-> meta.src, dst |-> meta.dst]
  <2>1. o = [valid |-> ip.valid, other |-> ip.other, totalLen |-> len, ttl |-> 64, proto |-> 4,
             chk |-> 0, src |-> meta.src, dst |-> meta.dst]
    BY DEF PushedOuter, IPIP_PROTO
  <2> HIDE DEF o, len
  <2> QED
    BY <1>1, <2>1
<1> HIDE DEF len, o
<1>7. 64 \in Byte /\ 4 \in Byte /\ 0 \in U16
  BY BoundsU16 DEF Byte
<1>8. o \in Ipv4
  BY <1>2, <1>5, <1>6, <1>7 DEF Ipv4
<1>9. PICK chk \in U16 :
        /\ ip_checksum(o) = [o EXCEPT !.chk = chk]
        /\ o.other + o.totalLen + TtlWord(o) + AddrWords(o.src) + AddrWords(o.dst) + chk # 0
        /\ (o.other + o.totalLen + TtlWord(o) + AddrWords(o.src) + AddrWords(o.dst) + chk) % 65535 = 0
  BY <1>8, ChecksumMade
<1> DEFINE r == [o EXCEPT !.chk = chk]
<1>10. /\ r = [valid |-> o.valid, other |-> o.other, totalLen |-> o.totalLen, ttl |-> o.ttl,
               proto |-> o.proto, chk |-> chk, src |-> o.src, dst |-> o.dst]
       /\ r \in Ipv4
  BY <1>8, NewChk
<1>11. /\ r.valid = TRUE /\ r.other = o.other /\ r.totalLen = len /\ o.totalLen = len /\ r.ttl = o.ttl
       /\ r.proto = 4 /\ o.proto = 4 /\ r.chk = chk
       /\ r.src = meta.src /\ r.dst = meta.dst /\ o.src = meta.src /\ o.dst = meta.dst
  BY <1>6, <1>10
<1> HIDE DEF r
<1>12. TtlWord(r) = TtlWord(o)
  BY <1>11 DEF TtlWord
<1>13. /\ ToWire(r).src = r.src /\ ToWire(r).dst = r.dst /\ ToWire(r).proto = r.proto
       /\ load_half(ToWire(r).totalLen) = r.totalLen
       /\ WordSum(ToWire(r)) = r.other + r.totalLen + TtlWord(r) + AddrWords(r.src) + AddrWords(r.dst) + r.chk
  BY <1>10, ToWireFields
<1>14. ChecksumRight(ToWire(r))
  BY <1>9, <1>11, <1>12, <1>13 DEF ChecksumRight
<1>15. ip_checksum(o) = r
  BY <1>9 DEF r
<1> QED
  BY <1>1, <1>4, <1>10, <1>11, <1>13, <1>14, <1>15 DEF o, ip, IPIP_PROTO, Ipv4Len

-----------------------------------------------------------------------------
(* The map *)

EthHdr  == [valid : BOOLEAN, dmac : Nat, etherType : U16]
MetaHdr == [src : Addr, dst : Addr, push : BOOLEAN]

ZeroEth  == [valid |-> FALSE, dmac |-> 0, etherType |-> 0]
ZeroMeta == [src |-> 0, dst |-> 0, push |-> FALSE]

\* The struct hdr_md with the given parts.
Md(eth, outer, inner, meta, offset) ==
  [eth |-> eth, outer |-> outer, inner |-> inner, meta |-> meta, offset |-> offset]

\* The Ethernet header of f, to be sent to d.
EthTo(f, d) == [valid |-> TRUE, dmac |-> d, etherType |-> load_half(f.etherType)]

\* A packet with a second header behind the first one.
Nested(f) == f.ips[1].proto = IPIP_PROTO /\ ~(f.len < 54)

\* What a packet leaves in the map.
EthMd(f)   == Md(EthTo(f, f.dmac), ZeroIpv4, ZeroIpv4, ZeroMeta, 14)
OuterMd(f) == Md(EthTo(f, f.dmac), Extract(f.ips[1]), ZeroIpv4, ZeroMeta, 34)
InnerMd(f) == Md(EthTo(f, f.dmac), Extract(f.ips[1]), Extract(f.ips[2]), ZeroMeta, 54)

Extracted(f) ==
  IF f.len < 14 THEN ZeroHdrMd
  ELSE IF f.len < 34 THEN EthMd(f)
  ELSE IF Nested(f) THEN InnerMd(f)
  ELSE OuterMd(f)

\* The packets that the parser does not reject.
Accepted(f) == f.len < 14 \/ f.etherType = <<8, 0>>

\* A packet with the headers that its length and its protocol say.
Received(f) == f \in Frame /\ HeadersThere(f)

(***************************************************************************)
(* The fields of a packet.                                                 *)
(***************************************************************************)
LEMMA FrameFields ==
  ASSUME NEW f \in Frame
  PROVE  /\ f.len \in Nat /\ f.md \in Half \cup {NoMd} /\ f.dmac \in Nat
         /\ f.etherType \in Half /\ f.ips \in Seq(WireIp)
         /\ f = [len |-> f.len, md |-> f.md, dmac |-> f.dmac, etherType |-> f.etherType, ips |-> f.ips]
BY DEF Frame

(***************************************************************************)
(* A packet given another length, MAC address and headers is a packet.     *)
(***************************************************************************)
LEMMA FrameMade ==
  ASSUME NEW f \in Frame, NEW len \in Nat, NEW d \in Nat, NEW s \in Seq(WireIp)
  PROVE  Carrying(f, len, d, s) \in Frame
BY FrameFields DEF Carrying, Frame

(***************************************************************************)
(* The headers that a received packet has.                                 *)
(***************************************************************************)
LEMMA HeadersReceived ==
  ASSUME NEW f, Received(f), ~(f.len < 34)
  PROVE  /\ f.ips \in Seq(WireIp) /\ Len(f.ips) \in Nat /\ Len(f.ips) >= 1 /\ f.ips[1] \in WireIp
         /\ Nested(f) => Len(f.ips) >= 2 /\ f.ips[2] \in WireIp
<1>1. f.len \in Nat /\ f.ips \in Seq(WireIp)
  BY FrameFields DEF Received
<1>2. Len(f.ips) >= 1
  BY <1>1 DEF Received, HeadersThere, EthLen, Ipv4Len
<1>3. Nested(f) => Len(f.ips) >= 2
  BY <1>1 DEF Received, HeadersThere, EthLen, Ipv4Len, Nested
<1> QED
  BY <1>1, <1>2, <1>3, Ips

(***************************************************************************)
(* What the properties call an IPv4 packet and a packet in a tunnel.       *)
(***************************************************************************)
LEMMA Kinds ==
  ASSUME NEW f \in Frame
  PROVE  /\ IsIpv4(f) <=> ~(f.len < 34) /\ f.etherType = <<8, 0>>
         /\ InTunnel(f) <=> IsIpv4(f) /\ Nested(f)
<1>1. f.len \in Nat
  BY FrameFields
<1> QED
  BY <1>1 DEF IsIpv4, InTunnel, Nested, EthLen, Ipv4Len

(***************************************************************************)
(* The parts of a struct hdr_md.                                           *)
(***************************************************************************)
LEMMA MdParts ==
  ASSUME NEW e, NEW o, NEW i, NEW m, NEW n
  PROVE  /\ Md(e, o, i, m, n).eth = e /\ Md(e, o, i, m, n).outer = o /\ Md(e, o, i, m, n).inner = i
         /\ Md(e, o, i, m, n).meta = m /\ Md(e, o, i, m, n).offset = n
         /\ e \in EthHdr /\ o \in Ipv4 /\ i \in Ipv4 /\ m \in MetaHdr /\ n \in Nat
              => Md(e, o, i, m, n) \in HdrMd
<1>1. HdrMd = [eth : EthHdr, outer : Ipv4, inner : Ipv4, meta : MetaHdr, offset : Nat]
  BY DEF HdrMd, EthHdr, MetaHdr
<1> QED
  BY <1>1 DEF Md

(***************************************************************************)
(* A change of one part of a struct hdr_md.                                *)
(***************************************************************************)
LEMMA MdChanges ==
  ASSUME NEW e, NEW o, NEW i, NEW m, NEW n, NEW x
  PROVE  /\ [Md(e, o, i, m, n) EXCEPT !.eth = x] = Md(x, o, i, m, n)
         /\ [Md(e, o, i, m, n) EXCEPT !.outer = x] = Md(e, x, i, m, n)
         /\ [Md(e, o, i, m, n) EXCEPT !.meta = x] = Md(e, o, i, x, n)
BY DEF Md

(***************************************************************************)
(* Zeros have their types.                                                 *)
(***************************************************************************)
LEMMA Zeros ==
  /\ ZeroEth \in EthHdr /\ ZeroIpv4 \in Ipv4 /\ ZeroMeta \in MetaHdr /\ ZeroWireIp \in WireIp
  /\ ZeroHdrMd = Md(ZeroEth, ZeroIpv4, ZeroIpv4, ZeroMeta, 0)
  /\ ZeroEth.valid = FALSE /\ ZeroIpv4.valid = FALSE /\ ZeroMeta.push = FALSE
<1>1. 0 \in U16 /\ 0 \in Byte
  BY BoundsU16 DEF Byte
<1>2. 0 \in Addr
  <2>1. 0 \div 65536 = 0
    BY Z3
  <2> QED
    BY <1>1, <2>1 DEF Addr
<1>3. <<0, 0>> \in Half
  BY <1>1 DEF Half
<1>4. ZeroEth \in EthHdr /\ ZeroMeta \in MetaHdr
  BY <1>1, <1>2 DEF ZeroEth, EthHdr, ZeroMeta, MetaHdr
<1>5. ZeroIpv4 \in Ipv4 /\ ZeroWireIp \in WireIp
  BY <1>1, <1>2, <1>3 DEF ZeroIpv4, Ipv4, ZeroWireIp, WireIp
<1>6. ZeroHdrMd = Md(ZeroEth, ZeroIpv4, ZeroIpv4, ZeroMeta, 0)
  BY DEF ZeroHdrMd, Md, ZeroEth, ZeroMeta
<1> QED
  BY <1>4, <1>5, <1>6 DEF ZeroEth, ZeroIpv4, ZeroMeta

(***************************************************************************)
(* The Ethernet header of a packet, in the map.                            *)
(***************************************************************************)
LEMMA EthToParts ==
  ASSUME NEW f \in Frame, NEW d \in Nat
  PROVE  /\ EthTo(f, d) \in EthHdr /\ EthTo(f, d).valid = TRUE /\ EthTo(f, d).dmac = d
         /\ EthTo(f, d).etherType = load_half(f.etherType)
<1>1. load_half(f.etherType) \in U16
  BY FrameFields, HalfBytes
<1> QED
  BY <1>1 DEF EthTo, EthHdr

(***************************************************************************)
(* What the parser leaves is a well-formed struct hdr_md.                  *)
(***************************************************************************)
LEMMA ExtractedTypes ==
  ASSUME NEW f, Received(f)
  PROVE  /\ ZeroHdrMd \in HdrMd /\ EthMd(f) \in HdrMd
         /\ ~(f.len < 34) => OuterMd(f) \in HdrMd /\ (Nested(f) => InnerMd(f) \in HdrMd)
         /\ Extracted(f) \in HdrMd
<1>1. f \in Frame
  BY DEF Received
<1>2. EthTo(f, f.dmac) \in EthHdr
  BY <1>1, FrameFields, EthToParts
<1>3. ZeroHdrMd \in HdrMd /\ EthMd(f) \in HdrMd
  BY <1>2, Zeros, MdParts DEF EthMd
<1>4. ~(f.len < 34) => OuterMd(f) \in HdrMd /\ (Nested(f) => InnerMd(f) \in HdrMd)
  BY <1>2, Zeros, MdParts, HeadersReceived, WireRoundTrip DEF OuterMd, InnerMd
<1> QED
  BY <1>3, <1>4 DEF Extracted

-----------------------------------------------------------------------------
(* The parser *)

(***************************************************************************)
(* Each state of the parser.                                               *)
(***************************************************************************)
LEMMA ParserMoves ==
  ASSUME NEW f \in Frame
  PROVE  /\ WithEth(ZeroHdrMd, f) = EthMd(f)
         /\ WithOuter(EthMd(f), f.ips[1]) = OuterMd(f)
         /\ WithInner(OuterMd(f), f.ips[2]) = InnerMd(f)
         /\ TooShort(f, ZeroHdrMd, EthLen) <=> f.len < 14
         /\ TooShort(f, EthMd(f), Ipv4Len) <=> f.len < 34
         /\ TooShort(f, OuterMd(f), Ipv4Len) <=> f.len < 54
         /\ (load_half(f.etherType) = TYPE_IPV4) <=> (f.etherType = <<8, 0>>)
<1>1. ZeroHdrMd.offset = 0 /\ EthMd(f).offset = 14 /\ OuterMd(f).offset = 34
  BY Zeros, MdParts DEF EthMd, OuterMd
<1>2. f.len \in Nat /\ f.etherType \in Half
  BY FrameFields
<1>3. /\ TooShort(f, ZeroHdrMd, EthLen) <=> f.len < 14
      /\ TooShort(f, EthMd(f), Ipv4Len) <=> f.len < 34
      /\ TooShort(f, OuterMd(f), Ipv4Len) <=> f.len < 54
  BY <1>1, <1>2 DEF TooShort, EthLen, Ipv4Len
<1>4. /\ ZeroHdrMd.outer = ZeroIpv4 /\ ZeroHdrMd.inner = ZeroIpv4 /\ ZeroHdrMd.meta = ZeroMeta
      /\ EthMd(f).eth = EthTo(f, f.dmac) /\ EthMd(f).inner = ZeroIpv4 /\ EthMd(f).meta = ZeroMeta
      /\ OuterMd(f).eth = EthTo(f, f.dmac) /\ OuterMd(f).outer = Extract(f.ips[1])
      /\ OuterMd(f).meta = ZeroMeta
  BY Zeros, MdParts DEF EthMd, OuterMd
<1>5. WithEth(ZeroHdrMd, f) = EthMd(f)
  BY <1>1, <1>4 DEF WithEth, EthMd, Md, EthTo, EthLen
<1>6. WithOuter(EthMd(f), f.ips[1]) = OuterMd(f)
  <2>1. WithOuter(EthMd(f), f.ips[1]) = Md(EthTo(f, f.dmac), Extract(f.ips[1]), ZeroIpv4, ZeroMeta, 14 + 20)
    BY <1>1, <1>4 DEF WithOuter, Md, Ipv4Len
  <2> QED
    BY <2>1 DEF OuterMd
<1>7. WithInner(OuterMd(f), f.ips[2]) = InnerMd(f)
  <2>1. WithInner(OuterMd(f), f.ips[2])
          = Md(EthTo(f, f.dmac), Extract(f.ips[1]), Extract(f.ips[2]), ZeroMeta, 34 + 20)
    BY <1>1, <1>4 DEF WithInner, Md, Ipv4Len
  <2> QED
    BY <2>1 DEF InnerMd
<1> QED
  BY <1>2, <1>3, <1>5, <1>6, <1>7, EtherTypeBytes

(***************************************************************************)
(* What run_parser makes of a packet, whatever the map held before.        *)
(***************************************************************************)
LEMMA ParserResult ==
  ASSUME NEW f, Received(f), NEW md
  PROVE  /\ run_parser(f, md).md \in HdrMd
         /\ Accepted(f) => run_parser(f, md).ret # TC_ACT_SHOT /\ run_parser(f, md).md = Extracted(f)
         /\ ~Accepted(f) => run_parser(f, md).ret = TC_ACT_SHOT
<1>1. run_parser(f, md) = start(f, ZeroHdrMd)
  BY DEF run_parser, memset
<1>2. f \in Frame
  BY DEF Received
<1>3. \A m : /\ Reject(m, PacketTooShort) = Accept(m)
             /\ Reject(m, NoError) = [ret |-> TC_ACT_SHOT, md |-> m]
             /\ Accept(m).ret # TC_ACT_SHOT /\ Accept(m).md = m
  BY DEF Reject, Accept, PacketTooShort, NoError, TC_ACT_SHOT, Continue
<1>4. f.len \in Nat /\ (f.len < 14 => f.len < 34) /\ (f.len < 34 => f.len < 54)
  BY <1>2, FrameFields
<1>5. EthMd(f) \in HdrMd /\ Extracted(f) \in HdrMd
  BY ExtractedTypes
<1>6. CASE f.len < 14
  <2>1. start(f, ZeroHdrMd) = Accept(ZeroHdrMd) /\ Extracted(f) = ZeroHdrMd
    BY <1>2, <1>3, <1>6, ParserMoves DEF start, Extracted
  <2> QED
    BY <1>1, <1>3, <1>5, <1>6, <2>1 DEF Accepted
<1>7. CASE ~(f.len < 14) /\ f.etherType # <<8, 0>>
  <2>1. start(f, ZeroHdrMd) = Reject(EthMd(f), NoError)
    BY <1>2, <1>7, ParserMoves DEF start
  <2>2. Reject(EthMd(f), NoError) = [ret |-> TC_ACT_SHOT, md |-> EthMd(f)]
    BY <1>3
  <2> QED
    BY <1>1, <1>5, <1>7, <2>1, <2>2 DEF Accepted
<1>8. CASE ~(f.len < 14) /\ f.etherType = <<8, 0>>
  <2>1. start(f, ZeroHdrMd) = parse_ipv4(f, EthMd(f))
    BY <1>2, <1>8, ParserMoves DEF start
  <2>2. parse_ipv4(f, EthMd(f)) = Accept(Extracted(f))
    <3>1. CASE f.len < 34
      BY <1>2, <1>3, <1>8, <3>1, ParserMoves DEF parse_ipv4, Extracted
    <3>2. CASE ~(f.len < 34) /\ f.ips[1].proto = IPIP_PROTO
      <4>1. parse_ipv4(f, EthMd(f)) = parse_ipv4_inner(f, OuterMd(f))
        BY <1>2, <3>2, ParserMoves DEF parse_ipv4
      <4>2. CASE f.len < 54
        BY <1>2, <1>3, <1>8, <3>2, <4>1, <4>2, ParserMoves DEF parse_ipv4_inner, Extracted, Nested
      <4>3. CASE ~(f.len < 54)
        BY <1>2, <1>3, <1>8, <3>2, <4>1, <4>3, ParserMoves DEF parse_ipv4_inner, Extracted, Nested
      <4> QED
        BY <4>2, <4>3
    <3>3. CASE ~(f.len < 34) /\ f.ips[1].proto # IPIP_PROTO
      BY <1>2, <1>8, <3>3, ParserMoves DEF parse_ipv4, Extracted, Nested
    <3> QED
      BY <3>1, <3>2, <3>3
  <2> QED
    BY <1>1, <1>3, <1>5, <1>8, <2>1, <2>2 DEF Accepted
<1> QED
  BY <1>6, <1>7, <1>8

-----------------------------------------------------------------------------
(* The deparser *)

\* The packet f with etherType x, as it may be when the deparser gets it.
Typed(f, x) == [len |-> f.len, md |-> f.md, dmac |-> f.dmac, etherType |-> x, ips |-> f.ips]

\* The packet after bpf_skb_adjust_room changed its length by n.
Resized(h, n) == IF n = 0 THEN h ELSE [h EXCEPT !.len = @ + n]

\* The headers that the deparser is to write are md, which take n bytes more
\* than those parsed; the packet h has at least the bytes that were parsed.
ToWrite(h, parsed, md, n) ==
  /\ md = (IF parsed.meta.push /\ parsed.outer.valid THEN Push(parsed) ELSE parsed)
  /\ md.offset \in Nat /\ n \in Int /\ OutHeaderLength(md) = md.offset + n
  /\ h.len \in Nat /\ md.offset <= h.len
  /\ MovePayload(Resized(h, n), n).len = h.len + n

(***************************************************************************)
(* What the deparser returns: it drops the packet if that was asked for or *)
(* if room cannot be made, and writes the headers otherwise.               *)
(***************************************************************************)
LEMMA DeparseCases ==
  ASSUME NEW h, NEW parsed, NEW b, NEW md, NEW n, ToWrite(h, parsed, md, n),
         NEW r \in Deparse(h, parsed, b)
  PROVE  /\ r.md = md /\ r.cb = b
         /\ b.drop => r.ret = TC_ACT_SHOT /\ r.frame = h
         /\ ~b.drop => \/ n # 0 /\ r.ret = TC_ACT_SHOT /\ r.frame = h
                       \/ /\ r.ret = Continue
                          /\ r.frame = WriteIps(WriteEth(MovePayload(Resized(h, n), n), md.eth), md)
<1>1. /\ md = (IF parsed.meta.push /\ parsed.outer.valid THEN Push(parsed) ELSE parsed)
      /\ md.offset \in Nat /\ n \in Int /\ OutHeaderLength(md) = md.offset + n
      /\ h.len \in Nat /\ md.offset <= h.len
      /\ MovePayload(Resized(h, n), n).len = h.len + n
  BY DEF ToWrite
<1>2. CASE b.drop
  <2>1. Deparse(h, parsed, b) = {[ret |-> TC_ACT_SHOT, frame |-> h, cb |-> b, md |-> md]}
    BY <1>1, <1>2 DEF Deparse
  <2> QED
    BY <1>2, <2>1
<1>3. CASE ~b.drop
  <2>1. PICK q \in adjust_room(h, n) :
          r = IF q.ret = TC_ACT_SHOT
                THEN [ret |-> TC_ACT_SHOT, frame |-> q.frame, cb |-> b, md |-> md]
                ELSE Emit(MovePayload(q.frame, n), md, b)
    <3>1. n = OutHeaderLength(md) - md.offset
      BY <1>1
    <3> QED
      BY <1>1, <1>3, <3>1 DEF Deparse
  <2>2. \/ q = [ret |-> Continue, frame |-> Resized(h, n)]
        \/ n # 0 /\ q = [ret |-> TC_ACT_SHOT, frame |-> h]
    BY DEF adjust_room, Resized
  <2>3. CASE n # 0 /\ q = [ret |-> TC_ACT_SHOT, frame |-> h]
    BY <1>3, <2>1, <2>3
  <2>4. CASE q = [ret |-> Continue, frame |-> Resized(h, n)]
    <3>1. q.ret # TC_ACT_SHOT /\ q.frame = Resized(h, n)
      BY <2>4 DEF Continue, TC_ACT_SHOT
    <3>2. r = Emit(MovePayload(Resized(h, n), n), md, b)
      BY <2>1, <3>1
    <3>3. ~(MovePayload(Resized(h, n), n).len < OutHeaderLength(md))
      BY <1>1
    <3>4. r = [ret |-> Continue, frame |-> WriteIps(WriteEth(MovePayload(Resized(h, n), n), md.eth), md),
               cb |-> b, md |-> md]
      BY <3>2, <3>3 DEF Emit
    <3> QED
      BY <1>3, <3>4
  <2> QED
    BY <2>2, <2>3, <2>4
<1> QED
  BY <1>2, <1>3

(***************************************************************************)
(* What is written, when the packet keeps its length, grows by a header or *)
(* loses one.                                                              *)
(***************************************************************************)
LEMMA HeadersWritten ==
  ASSUME NEW f \in Frame, NEW x, NEW md, md.eth.valid = TRUE, md.eth.etherType = load_half(f.etherType)
  PROVE  LET h == Typed(f, x)
             d == md.eth.dmac
             Out(n) == WriteIps(WriteEth(MovePayload(Resized(h, n), n), md.eth), md)
         IN /\ Out(0) = Carrying(f, f.len, d, Over(f.ips, ValidIps(md)))
            /\ Out(20) = Carrying(f, f.len + 20, d, Over(<<ZeroWireIp>> \o f.ips, ValidIps(md)))
            /\ Out(-20) = Carrying(f, f.len - 20, d, Over(Tail(f.ips), ValidIps(md)))
<1> DEFINE h == Typed(f, x)
           d == md.eth.dmac
           Rec(len, ips) == [len |-> len, md |-> f.md, dmac |-> f.dmac, etherType |-> x, ips |-> ips]
           Out(n) == WriteIps(WriteEth(MovePayload(Resized(h, n), n), md.eth), md)
<1>1. f.len \in Nat /\ emit_half(load_half(f.etherType)) = f.etherType
  BY FrameFields, FieldRoundTrip
<1>2. MovePayload(Resized(h, 0), 0) = Rec(f.len, f.ips)
  BY DEF MovePayload, Resized, Typed
<1>3. MovePayload(Resized(h, 20), 20) = Rec(f.len + 20, <<ZeroWireIp>> \o f.ips)
  <2>1. Resized(h, 20) = Rec(f.len + 20, f.ips)
    BY <1>1 DEF Resized, Typed
  <2>2. MovePayload(Resized(h, 20), 20) = [Resized(h, 20) EXCEPT !.ips = <<ZeroWireIp>> \o Resized(h, 20).ips]
    BY DEF MovePayload
  <2>3. ASSUME NEW g, NEW z, g = Rec(f.len + 20, f.ips)
        PROVE  [g EXCEPT !.ips = z \o g.ips] = Rec(f.len + 20, z \o f.ips)
    <3>1. g.ips = f.ips
      BY <2>3
    <3>2. \A y : [g EXCEPT !.ips = y] = Rec(f.len + 20, y)
      BY <2>3
    <3> QED
      BY <3>1, <3>2
  <2> HIDE DEF Rec, h
  <2> QED
    BY <2>1, <2>2, <2>3
<1>4. MovePayload(Resized(h, -20), -20) = Rec(f.len - 20, Tail(f.ips))
  <2>1. Resized(h, -20) = Rec(f.len - 20, f.ips)
    BY <1>1 DEF Resized, Typed
  <2>2. MovePayload(Resized(h, -20), -20) = [Resized(h, -20) EXCEPT !.ips = Tail(Resized(h, -20).ips)]
    BY DEF MovePayload
  <2> QED
    BY <2>1, <2>2
<1>5. ASSUME NEW len, NEW ips
      PROVE  WriteIps(WriteEth(Rec(len, ips), md.eth), md) = Carrying(f, len, d, Over(ips, ValidIps(md)))
  <2>1. WriteEth(Rec(len, ips), md.eth)
          = [len |-> len, md |-> f.md, dmac |-> d, etherType |-> f.etherType, ips |-> ips]
    BY <1>1 DEF WriteEth
  <2>2. ASSUME NEW g, g = [len |-> len, md |-> f.md, dmac |-> d, etherType |-> f.etherType, ips |-> ips]
        PROVE  [g EXCEPT !.ips = Over(g.ips, ValidIps(md))] = Carrying(f, len, d, Over(ips, ValidIps(md)))
    BY <2>2 DEF Carrying
  <2> QED
    BY <2>1, <2>2 DEF WriteIps
<1> HIDE DEF h, Rec, d
<1> QED
  BY <1>2, <1>3, <1>4, <1>5 DEF h, d

-----------------------------------------------------------------------------
(* The main block *)

\* What the entry e makes of the destination address and of the metadata.
NewDmac(f, e) == IF e.action = "set_nh" THEN e.dmac ELSE f.dmac

NewMeta(e) == IF e.action = "set_ipip" THEN [src |-> e.src, dst |-> e.dst, push |-> TRUE] ELSE ZeroMeta

\* A header made invalid.
Invalid(ip) == [ip EXCEPT !.valid = FALSE]

\* The map of an IPv4 packet after fwd_table, and after the pop.
PlainMd(f, e)  == Md(EthTo(f, NewDmac(f, e)), Extract(f.ips[1]), ZeroIpv4, NewMeta(e), 34)
NestedMd(f, e) == Md(EthTo(f, NewDmac(f, e)), Extract(f.ips[1]), Extract(f.ips[2]), NewMeta(e), 54)
PoppedMd(f, e) == Md(EthTo(f, NewDmac(f, e)), Invalid(Extract(f.ips[1])), Extract(f.ips[2]), NewMeta(e), 54)

NewCb(b, e) == IF e.action = "drop" THEN drop_packet(b) ELSE send_to_port(b, e.port)

(***************************************************************************)
(* The fields of an entry, and what is made of them.                       *)
(***************************************************************************)
LEMMA EntryFields ==
  ASSUME NEW f \in Frame, NEW e \in Entry
  PROVE  /\ e.action \in {"set_ipip", "set_nh", "drop"} /\ e.src \in Addr /\ e.dst \in Addr
         /\ e.dmac \in Nat /\ e.port \in Nat
         /\ NewDmac(f, e) \in Nat /\ NewMeta(e) \in MetaHdr
         /\ NewMeta(e).push = (e.action = "set_ipip")
         /\ e.action = "set_ipip" => NewMeta(e).src = e.src /\ NewMeta(e).dst = e.dst
<1>1. /\ e.action \in {"set_ipip", "set_nh", "drop"} /\ e.src \in Addr /\ e.dst \in Addr
      /\ e.dmac \in Nat /\ e.port \in Nat
  BY DEF Entry
<1>2. NewDmac(f, e) \in Nat
  BY <1>1, FrameFields DEF NewDmac
<1>3. CASE e.action = "set_ipip"
  <2>1. NewMeta(e) = [src |-> e.src, dst |-> e.dst, push |-> TRUE]
    BY <1>3 DEF NewMeta
  <2>2. NewMeta(e) \in MetaHdr /\ NewMeta(e).push = TRUE /\ NewMeta(e).src = e.src /\ NewMeta(e).dst = e.dst
    BY <1>1, <2>1 DEF MetaHdr
  <2> QED
    BY <1>1, <1>2, <1>3, <2>2
<1>4. CASE e.action # "set_ipip"
  <2>1. NewMeta(e) = ZeroMeta
    BY <1>4 DEF NewMeta
  <2> QED
    BY <1>1, <1>2, <1>4, <2>1, Zeros
<1> QED
  BY <1>3, <1>4

(***************************************************************************)
(* fwd_table: the three actions, on a struct hdr_md of which they change   *)
(* one part.                                                               *)
(***************************************************************************)
LEMMA TableApplied ==
  ASSUME NEW f \in Frame, NEW e \in Entry, NEW t, NEW p, e = EntryOf(t, p), NEW b,
         NEW o, NEW i, NEW n
  PROVE  apply_fwd_table(t, p, Md(EthTo(f, f.dmac), o, i, ZeroMeta, n), b)
           = [md |-> Md(EthTo(f, NewDmac(f, e)), o, i, NewMeta(e), n), cb |-> NewCb(b, e)]
<1> DEFINE md == Md(EthTo(f, f.dmac), o, i, ZeroMeta, n)
<1>1. e.action \in {"set_ipip", "set_nh", "drop"}
  BY EntryFields
<1>2. CASE e.action = "set_ipip"
  <2>1. NewDmac(f, e) = f.dmac /\ NewCb(b, e) = send_to_port(b, e.port)
        /\ NewMeta(e) = [src |-> e.src, dst |-> e.dst, push |-> TRUE]
    BY <1>2 DEF NewDmac, NewCb, NewMeta
  <2>2. set_ipip(md, e) = Md(EthTo(f, f.dmac), o, i, [src |-> e.src, dst |-> e.dst, push |-> TRUE], n)
    <3>1. \A x : [md EXCEPT !.meta = x] = Md(EthTo(f, f.dmac), o, i, x, n)
      BY DEF Md
    <3>2. set_ipip(md, e) = [md EXCEPT !.meta = [src |-> e.src, dst |-> e.dst, push |-> TRUE]]
      BY DEF set_ipip
    <3> HIDE DEF md
    <3> QED
      BY <3>1, <3>2
  <2>3. apply_fwd_table(t, p, md, b) = [md |-> set_ipip(md, e), cb |-> send_to_port(b, e.port)]
    BY <1>2 DEF apply_fwd_table
  <2> QED
    BY <2>1, <2>2, <2>3
<1>3. CASE e.action = "set_nh"
  <2>1. NewDmac(f, e) = e.dmac /\ NewCb(b, e) = send_to_port(b, e.port) /\ NewMeta(e) = ZeroMeta
    BY <1>3 DEF NewDmac, NewCb, NewMeta
  <2>2. set_nh(md, e) = Md(EthTo(f, e.dmac), o, i, ZeroMeta, n)
    <3>1. md.eth = EthTo(f, f.dmac)
      BY MdParts
    <3>2. [valid |-> md.eth.valid, dmac |-> e.dmac, etherType |-> md.eth.etherType] = EthTo(f, e.dmac)
      <4> HIDE DEF md
      <4>1. md.eth.valid = TRUE /\ md.eth.etherType = load_half(f.etherType)
        BY <3>1 DEF EthTo
      <4> QED
        BY <4>1 DEF EthTo
    <3>3. \A x : [md EXCEPT !.eth = x] = Md(x, o, i, ZeroMeta, n)
      BY MdChanges
    <3>4. set_nh(md, e)
            = [md EXCEPT !.eth = [valid |-> md.eth.valid, dmac |-> e.dmac, etherType |-> md.eth.etherType]]
      BY DEF set_nh
    <3> HIDE DEF md
    <3> QED
      BY <3>2, <3>3, <3>4
  <2>3. apply_fwd_table(t, p, md, b) = [md |-> set_nh(md, e), cb |-> send_to_port(b, e.port)]
    BY <1>3 DEF apply_fwd_table
  <2> QED
    BY <2>1, <2>2, <2>3
<1>4. CASE e.action = "drop"
  <2>1. NewDmac(f, e) = f.dmac /\ NewCb(b, e) = drop_packet(b) /\ NewMeta(e) = ZeroMeta
    BY <1>4 DEF NewDmac, NewCb, NewMeta
  <2>2. apply_fwd_table(t, p, md, b) = [md |-> md, cb |-> drop_packet(b)]
    BY <1>4 DEF apply_fwd_table
  <2> QED
    BY <2>1, <2>2
<1> QED
  BY <1>1, <1>2, <1>3, <1>4

(***************************************************************************)
(* What the main block does with what the parser found.                    *)
(***************************************************************************)
LEMMA MainResult ==
  ASSUME NEW f, Received(f), NEW e \in Entry, NEW t, NEW p, e = EntryOf(t, p), NEW b
  PROVE  /\ f.len < 34 => MainBlock(t, p, Extracted(f), b) = [md |-> Extracted(f), cb |-> b]
         /\ ~(f.len < 34) /\ ~Nested(f) =>
              MainBlock(t, p, Extracted(f), b) = [md |-> PlainMd(f, e), cb |-> NewCb(b, e)]
         /\ ~(f.len < 34) /\ Nested(f) =>
              MainBlock(t, p, Extracted(f), b) = [md |-> PoppedMd(f, e), cb |-> NewCb(b, e)]
<1>1. f \in Frame /\ f.len \in Nat
  BY FrameFields DEF Received
<1>2. ASSUME f.len < 34
      PROVE  MainBlock(t, p, Extracted(f), b) = [md |-> Extracted(f), cb |-> b]
  <2>1. Extracted(f) = ZeroHdrMd \/ Extracted(f) = EthMd(f)
    BY <1>2 DEF Extracted
  <2>2. ZeroHdrMd.outer = ZeroIpv4 /\ EthMd(f).outer = ZeroIpv4
    BY Zeros, MdParts DEF EthMd
  <2>3. ~Extracted(f).outer.valid
    BY <2>1, <2>2, Zeros
  <2> QED
    BY <2>3 DEF MainBlock
<1>3. ASSUME ~(f.len < 34), ~Nested(f)
      PROVE  MainBlock(t, p, Extracted(f), b) = [md |-> PlainMd(f, e), cb |-> NewCb(b, e)]
  <2>1. Extracted(f) = Md(EthTo(f, f.dmac), Extract(f.ips[1]), ZeroIpv4, ZeroMeta, 34)
    BY <1>1, <1>3 DEF Extracted, OuterMd
  <2>2. Extracted(f).outer.valid
    <3>1. Extract(f.ips[1]).valid = TRUE
      BY <1>3, HeadersReceived, WireRoundTrip
    <3> QED
      BY <2>1, <3>1, MdParts
  <2>3. apply_fwd_table(t, p, Extracted(f), b) = [md |-> PlainMd(f, e), cb |-> NewCb(b, e)]
    BY <1>1, <2>1, TableApplied DEF PlainMd
  <2>4. PlainMd(f, e).inner = ZeroIpv4
    BY MdParts DEF PlainMd
  <2>5. Pop(PlainMd(f, e)) = PlainMd(f, e)
    BY <2>4, Zeros DEF Pop
  <2> QED
    BY <2>2, <2>3, <2>5 DEF MainBlock
<1>4. ASSUME ~(f.len < 34), Nested(f)
      PROVE  MainBlock(t, p, Extracted(f), b) = [md |-> PoppedMd(f, e), cb |-> NewCb(b, e)]
  <2>1. Extracted(f) = Md(EthTo(f, f.dmac), Extract(f.ips[1]), Extract(f.ips[2]), ZeroMeta, 54)
    BY <1>1, <1>4 DEF Extracted, InnerMd
  <2>2. Extract(f.ips[1]).valid = TRUE /\ Extract(f.ips[2]).valid = TRUE
    BY <1>4, HeadersReceived, WireRoundTrip
  <2>3. Extracted(f).outer.valid
    BY <2>1, <2>2, MdParts
  <2>4. apply_fwd_table(t, p, Extracted(f), b) = [md |-> NestedMd(f, e), cb |-> NewCb(b, e)]
    BY <1>1, <2>1, TableApplied DEF NestedMd
  <2>5. NestedMd(f, e).inner = Extract(f.ips[2]) /\ NestedMd(f, e).outer = Extract(f.ips[1])
    BY MdParts DEF NestedMd
  <2>6. Pop(NestedMd(f, e)) = [NestedMd(f, e) EXCEPT !.outer = Invalid(Extract(f.ips[1]))]
    BY <2>2, <2>5 DEF Pop, Invalid
  <2>7. [NestedMd(f, e) EXCEPT !.outer = Invalid(Extract(f.ips[1]))] = PoppedMd(f, e)
    BY DEF NestedMd, PoppedMd, Md
  <2> QED
    BY <2>3, <2>4, <2>6, <2>7 DEF MainBlock
<1> QED
  BY <1>2, <1>3, <1>4

-----------------------------------------------------------------------------
(* process() *)

(***************************************************************************)
(* The bytes that the valid headers take.                                  *)
(***************************************************************************)
LEMMA OutLengths ==
  ASSUME NEW md
  PROVE  /\ ~md.eth.valid /\ ~md.outer.valid /\ ~md.inner.valid => OutHeaderLength(md) = 0
         /\ md.eth.valid /\ ~md.outer.valid /\ ~md.inner.valid => OutHeaderLength(md) = 14
         /\ md.eth.valid /\ md.outer.valid /\ ~md.inner.valid => OutHeaderLength(md) = 34
         /\ md.eth.valid /\ ~md.outer.valid /\ md.inner.valid => OutHeaderLength(md) = 34
         /\ md.eth.valid /\ md.outer.valid /\ md.inner.valid => OutHeaderLength(md) = 54
BY DEF OutHeaderLength, EthLen, Ipv4Len

(***************************************************************************)
(* The length of a packet whose payload was moved.                         *)
(***************************************************************************)
LEMMA MovedLength ==
  ASSUME NEW f \in Frame, NEW x, NEW k \in Int
  PROVE  MovePayload(Resized(Typed(f, x), k), k).len = f.len + k
<1> DEFINE h == Typed(f, x)
<1>1. f.len \in Nat /\ h.len = f.len
  BY FrameFields DEF Typed
<1>2. CASE k = 0
  BY <1>1, <1>2 DEF MovePayload, Resized
<1>3. CASE k > 0 \/ k < 0
  <2> DEFINE g == [h EXCEPT !.len = h.len + k]
  <2>1. Resized(h, k) = g
    BY <1>3 DEF Resized
  <2>2. g.len = f.len + k
    BY <1>1 DEF Typed
  <2>3. \A y : [g EXCEPT !.ips = y].len = g.len
    BY DEF Typed
  <2> HIDE DEF g, h
  <2>4. MovePayload(g, k).len = g.len
    BY <1>3, <2>3 DEF MovePayload
  <2> QED
    BY <2>1, <2>2, <2>4 DEF h
<1> QED
  BY <1>2, <1>3

\* What the entry e makes of an IPv4 packet f when it is sent.
SentAs(f, g, e) ==
  IF Nested(f) THEN g = Carrying(f, f.len - 20, NewDmac(f, e), Tail(f.ips))
  ELSE IF e.action = "set_ipip" THEN Tunnelled(f, g, e)
  ELSE g = Carrying(f, f.len, e.dmac, f.ips)

(***************************************************************************)
(* A packet without a whole IPv4 header: nothing is changed.               *)
(***************************************************************************)
LEMMA ShortResult ==
  ASSUME NEW f, Received(f), f.len < 34, NEW x, f.len < 14 => x = f.etherType, NEW b, ~b.drop,
         NEW r \in Deparse(Typed(f, x), Extracted(f), b)
  PROVE  r.ret = Continue /\ r.frame = f /\ r.cb = b /\ r.md = Extracted(f)
<1> DEFINE md == Extracted(f)
           h  == Typed(f, x)
<1>1. f \in Frame /\ f.len \in Nat /\ f.ips \in Seq(WireIp) /\ h.len = f.len
  BY FrameFields DEF Received, Typed
<1>2. /\ md.meta = ZeroMeta /\ md.outer = ZeroIpv4 /\ md.inner = ZeroIpv4
      /\ f.len < 14 => md.eth = ZeroEth /\ md.offset = 0
      /\ ~(f.len < 14) => md.eth = EthTo(f, f.dmac) /\ md.offset = 14
  BY Zeros, MdParts DEF Extracted, EthMd
<1> HIDE DEF md
<1>3. ~md.outer.valid /\ ~md.inner.valid /\ ~md.meta.push
  BY <1>2, Zeros
<1>4. OutHeaderLength(md) = md.offset /\ md.offset \in Nat /\ md.offset <= h.len
  <2>1. CASE f.len < 14
    BY <1>1, <1>2, <1>3, <2>1, Zeros, OutLengths
  <2>2. CASE ~(f.len < 14)
    <3>1. EthTo(f, f.dmac).valid = TRUE
      BY DEF EthTo
    <3> QED
      BY <1>1, <1>2, <1>3, <2>2, <3>1, OutLengths
  <2> QED
    BY <2>1, <2>2
<1>5. ValidIps(md) = <<>> \o <<>>
  BY <1>3 DEF ValidIps
<1>6. Over(f.ips, ValidIps(md)) = f.ips
  BY <1>1, <1>5, OverSame
<1>7. ToWrite(h, md, md, 0)
  <2>1. MovePayload(Resized(h, 0), 0).len = h.len + 0
    BY <1>1, MovedLength
  <2> HIDE DEF h
  <2> QED
    BY <1>1, <1>3, <1>4, <2>1 DEF ToWrite
<1>8. r \in Deparse(h, md, b)
  BY DEF md
<1> HIDE DEF h
<1>9. /\ r.md = md /\ r.cb = b /\ r.ret = Continue
       /\ r.frame = WriteIps(WriteEth(MovePayload(Resized(h, 0), 0), md.eth), md)
  BY <1>7, <1>8, DeparseCases
<1>10. CASE f.len < 14
  <2>1. h = f
    BY <1>1, <1>10, FrameFields DEF h, Typed
  <2>2. MovePayload(Resized(f, 0), 0) = f
    BY DEF MovePayload, Resized
  <2>3. md.eth.valid = FALSE
    BY <1>2, <1>10, Zeros
  <2>4. WriteEth(f, md.eth) = f
    BY <1>1, <2>3, FrameFields DEF WriteEth
  <2>5. WriteIps(f, md) = f
    BY <1>1, <1>6, FrameFields DEF WriteIps
  <2> QED
    BY <1>9, <2>1, <2>2, <2>4, <2>5 DEF md
<1>11. CASE ~(f.len < 14)
  <2>1. md.eth.valid = TRUE /\ md.eth.etherType = load_half(f.etherType) /\ md.eth.dmac = f.dmac
    BY <1>2, <1>11 DEF EthTo
  <2>2. r.frame = Carrying(f, f.len, md.eth.dmac, Over(f.ips, ValidIps(md)))
    <3>1. WriteIps(WriteEth(MovePayload(Resized(Typed(f, x), 0), 0), md.eth), md)
            = Carrying(f, f.len, md.eth.dmac, Over(f.ips, ValidIps(md)))
      BY <1>1, <2>1, HeadersWritten, Zenon
    <3> QED
      BY <1>9, <3>1 DEF h
  <2>3. Carrying(f, f.len, f.dmac, f.ips) = f
    BY <1>1, FrameFields DEF Carrying
  <2> QED
    BY <1>6, <1>9, <2>1, <2>2, <2>3 DEF md
<1> QED
  BY <1>10, <1>11

(***************************************************************************)
(* The metadata after the main block.                                      *)
(***************************************************************************)
LEMMA NewCbParts ==
  ASSUME NEW b \in Cb, NEW e \in Entry
  PROVE  /\ NewCb(b, e) \in Cb
         /\ e.action = "drop" => NewCb(b, e).drop
         /\ e.action # "drop" => NewCb(b, e) = send_to_port(b, e.port) /\ ~NewCb(b, e).drop
                                 /\ NewCb(b, e).egress_port = e.port
<1>1. e.port \in Nat
  BY DEF Entry
<1> QED
  BY <1>1, CbTypes DEF NewCb

(***************************************************************************)
(* An IPv4 packet that is not put in a tunnel: nothing is moved, and the   *)
(* header that is written is the one that was read.                        *)
(***************************************************************************)
LEMMA ForwardResult ==
  ASSUME NEW f, Received(f), ~(f.len < 34), ~Nested(f), NEW e \in Entry, e.action # "set_ipip",
         NEW x, NEW b, NEW r \in Deparse(Typed(f, x), PlainMd(f, e), b)
  PROVE  /\ r.md = PlainMd(f, e) /\ r.md \in HdrMd /\ r.cb = b
         /\ b.drop => r.ret = TC_ACT_SHOT /\ r.frame = Typed(f, x)
         /\ ~b.drop => r.ret = Continue /\ r.frame = Carrying(f, f.len, NewDmac(f, e), f.ips)
<1> DEFINE md == PlainMd(f, e)
           h  == Typed(f, x)
           w  == f.ips[1]
<1>1. f \in Frame /\ f.len \in Nat /\ h.len = f.len
  BY FrameFields DEF Received, Typed
<1>2. f.ips \in Seq(WireIp) /\ Len(f.ips) >= 1 /\ w \in WireIp
  BY HeadersReceived
<1>3. Extract(w) \in Ipv4 /\ Extract(w).valid = TRUE /\ ToWire(Extract(w)) = w
  BY <1>2, WireRoundTrip
<1>4. NewDmac(f, e) \in Nat /\ NewMeta(e) = ZeroMeta
  BY <1>1, EntryFields DEF NewMeta
<1>5. /\ EthTo(f, NewDmac(f, e)) \in EthHdr /\ EthTo(f, NewDmac(f, e)).valid = TRUE
      /\ EthTo(f, NewDmac(f, e)).dmac = NewDmac(f, e)
      /\ EthTo(f, NewDmac(f, e)).etherType = load_half(f.etherType)
  BY <1>1, <1>4, EthToParts
<1>6. /\ md.eth = EthTo(f, NewDmac(f, e)) /\ md.outer = Extract(w) /\ md.inner = ZeroIpv4
      /\ md.meta = ZeroMeta /\ md.offset = 34 /\ md \in HdrMd
  BY <1>3, <1>4, <1>5, Zeros, MdParts DEF PlainMd
<1> HIDE DEF md
<1>7. md.eth.valid /\ md.outer.valid /\ ~md.inner.valid /\ ~md.meta.push
  BY <1>3, <1>5, <1>6, Zeros
<1>8. OutHeaderLength(md) = 34
  BY <1>7, OutLengths
<1>9. Over(f.ips, ValidIps(md)) = f.ips
  <2>1. ValidIps(md) = <<w>> \o <<>>
    BY <1>3, <1>6, <1>7 DEF ValidIps
  <2> QED
    BY <1>2, <2>1, OverSame
<1>10. ToWrite(h, md, md, 0)
  <2>1. MovePayload(Resized(h, 0), 0).len = h.len + 0
    BY <1>1, MovedLength
  <2> HIDE DEF h
  <2> QED
    BY <1>1, <1>6, <1>7, <1>8, <2>1 DEF ToWrite
<1>11. r \in Deparse(h, md, b)
  BY DEF md
<1>12. WriteIps(WriteEth(MovePayload(Resized(h, 0), 0), md.eth), md)
         = Carrying(f, f.len, md.eth.dmac, Over(f.ips, ValidIps(md)))
  <2>1. md.eth.valid = TRUE /\ md.eth.etherType = load_half(f.etherType)
    BY <1>5, <1>6
  <2> QED
    BY <1>1, <2>1, HeadersWritten, Zenon
<1>13. md.eth.dmac = NewDmac(f, e)
  BY <1>5, <1>6
<1> HIDE DEF h
<1>14. /\ r.md = md /\ r.cb = b
       /\ b.drop => r.ret = TC_ACT_SHOT /\ r.frame = h
       /\ ~b.drop => /\ r.ret = Continue
                     /\ r.frame = WriteIps(WriteEth(MovePayload(Resized(h, 0), 0), md.eth), md)
  BY <1>10, <1>11, DeparseCases
<1> QED
  BY <1>6, <1>9, <1>12, <1>13, <1>14 DEF md, h

(***************************************************************************)
(* A packet in a tunnel: the outer header is gone, and what is written in  *)
(* its place is the inner one, whatever the entry asked for.               *)
(***************************************************************************)
LEMMA PopResult ==
  ASSUME NEW f, Received(f), ~(f.len < 34), Nested(f), NEW e \in Entry,
         NEW x, NEW b, NEW r \in Deparse(Typed(f, x), PoppedMd(f, e), b)
  PROVE  /\ r.md = PoppedMd(f, e) /\ r.md \in HdrMd /\ r.cb = b
         /\ b.drop => r.ret = TC_ACT_SHOT /\ r.frame = Typed(f, x)
         /\ ~b.drop => \/ r.ret = TC_ACT_SHOT /\ r.frame = Typed(f, x)
                       \/ /\ r.ret = Continue
                          /\ r.frame = Carrying(f, f.len - 20, NewDmac(f, e), Tail(f.ips))
<1> DEFINE md == PoppedMd(f, e)
           h  == Typed(f, x)
           w  == f.ips[2]
<1>1. f \in Frame /\ f.len \in Nat /\ h.len = f.len /\ ~(f.len < 54)
  BY FrameFields DEF Received, Typed, Nested
<1>2. f.ips \in Seq(WireIp) /\ Len(f.ips) \in Nat /\ Len(f.ips) >= 2 /\ w \in WireIp /\ f.ips[1] \in WireIp
  BY HeadersReceived
<1>3. Extract(w) \in Ipv4 /\ Extract(w).valid = TRUE /\ ToWire(Extract(w)) = w
  BY <1>2, WireRoundTrip
<1>4. Invalid(Extract(f.ips[1])) \in Ipv4 /\ Invalid(Extract(f.ips[1])).valid = FALSE
  <2>1. Extract(f.ips[1]) \in Ipv4
    BY <1>2, WireRoundTrip
  <2> QED
    BY <2>1 DEF Invalid, Ipv4
<1>5. NewDmac(f, e) \in Nat /\ NewMeta(e) \in MetaHdr
  BY <1>1, EntryFields
<1>6. /\ EthTo(f, NewDmac(f, e)) \in EthHdr /\ EthTo(f, NewDmac(f, e)).valid = TRUE
      /\ EthTo(f, NewDmac(f, e)).dmac = NewDmac(f, e)
      /\ EthTo(f, NewDmac(f, e)).etherType = load_half(f.etherType)
  BY <1>1, <1>5, EthToParts
<1>7. /\ md.eth = EthTo(f, NewDmac(f, e)) /\ md.outer = Invalid(Extract(f.ips[1])) /\ md.inner = Extract(w)
      /\ md.offset = 54 /\ md \in HdrMd
  BY <1>3, <1>4, <1>5, <1>6, MdParts DEF PoppedMd
<1> HIDE DEF md
<1>8. md.eth.valid /\ ~md.outer.valid /\ md.inner.valid
  BY <1>3, <1>4, <1>6, <1>7
<1>9. OutHeaderLength(md) = 34
  BY <1>8, OutLengths
<1>10. Over(Tail(f.ips), ValidIps(md)) = Tail(f.ips)
  <2>1. ValidIps(md) = <<>> \o <<w>>
    BY <1>3, <1>7, <1>8 DEF ValidIps
  <2>2. Tail(f.ips) \in Seq(WireIp) /\ Len(Tail(f.ips)) >= 1 /\ Tail(f.ips)[1] = w
    BY <1>2, Ips
  <2> QED
    BY <2>1, <2>2, OverSame
<1>11. ToWrite(h, md, md, -20)
  <2>1. MovePayload(Resized(h, -20), -20).len = h.len + (-20)
    BY <1>1, MovedLength
  <2> HIDE DEF h
  <2> QED
    BY <1>1, <1>7, <1>8, <1>9, <2>1 DEF ToWrite
<1>12. r \in Deparse(h, md, b)
  BY DEF md
<1>13. WriteIps(WriteEth(MovePayload(Resized(h, -20), -20), md.eth), md)
         = Carrying(f, f.len - 20, md.eth.dmac, Over(Tail(f.ips), ValidIps(md)))
  <2>1. md.eth.valid = TRUE /\ md.eth.etherType = load_half(f.etherType)
    BY <1>6, <1>7
  <2> QED
    BY <1>1, <2>1, HeadersWritten, Zenon
<1>14. md.eth.dmac = NewDmac(f, e)
  BY <1>6, <1>7
<1> HIDE DEF h
<1>15. /\ r.md = md /\ r.cb = b
       /\ b.drop => r.ret = TC_ACT_SHOT /\ r.frame = h
       /\ ~b.drop => \/ r.ret = TC_ACT_SHOT /\ r.frame = h
                     \/ /\ r.ret = Continue
                        /\ r.frame = WriteIps(WriteEth(MovePayload(Resized(h, -20), -20), md.eth), md)
  BY <1>11, <1>12, DeparseCases
<1> QED
  BY <1>7, <1>10, <1>13, <1>14, <1>15 DEF md, h

(***************************************************************************)
(* A packet that is put in a tunnel: the new header in front, the packet's *)
(* own behind it after one hop, and the rest of the packet behind that.    *)
(***************************************************************************)
LEMMA PushResult ==
  ASSUME NEW f, Received(f), ~(f.len < 34), ~Nested(f), NEW e \in Entry, e.action = "set_ipip",
         NEW x, NEW b, NEW r \in Deparse(Typed(f, x), PlainMd(f, e), b)
  PROVE  /\ r.md \in HdrMd /\ r.cb = b
         /\ b.drop => r.ret = TC_ACT_SHOT /\ r.frame = Typed(f, x)
         /\ ~b.drop => \/ r.ret = TC_ACT_SHOT /\ r.frame = Typed(f, x)
                       \/ r.ret = Continue /\ r.frame \in Frame /\ Tunnelled(f, r.frame, e)
<1> DEFINE pa  == PlainMd(f, e)
           h   == Typed(f, x)
           w   == f.ips[1]
           out == ip_checksum(PushedOuter(Extract(w), NewMeta(e), IPIP_PROTO))
           inn == ip_ttl_dec(Extract(w))
           md  == Md(EthTo(f, f.dmac), out, inn, NewMeta(e), 34)
           o   == ToWire(out)
           i   == ToWire(inn)
           ips == Pushed(f.ips, o, i)
<1>1. f \in Frame /\ f.len \in Nat /\ h.len = f.len /\ f.dmac \in Nat /\ NewDmac(f, e) = f.dmac
  BY FrameFields DEF Received, Typed, NewDmac
<1>2. f.ips \in Seq(WireIp) /\ Len(f.ips) >= 1 /\ w \in WireIp
  BY HeadersReceived
<1>3. Extract(w) \in Ipv4 /\ Extract(w).valid = TRUE
  BY <1>2, WireRoundTrip
<1>4. /\ NewMeta(e) \in MetaHdr /\ NewMeta(e).push = TRUE
      /\ NewMeta(e).src = e.src /\ NewMeta(e).dst = e.dst /\ e.src \in Addr /\ e.dst \in Addr
  BY <1>1, EntryFields
<1>5. /\ EthTo(f, f.dmac) \in EthHdr /\ EthTo(f, f.dmac).valid = TRUE
      /\ EthTo(f, f.dmac).dmac = f.dmac
      /\ EthTo(f, f.dmac).etherType = load_half(f.etherType)
  BY <1>1, EthToParts
<1>6. /\ pa.eth = EthTo(f, f.dmac) /\ pa.outer = Extract(w) /\ pa.meta = NewMeta(e) /\ pa.offset = 34
  BY <1>1, MdParts DEF PlainMd
<1>7. /\ out \in Ipv4 /\ out.valid = TRUE
      /\ o.src = e.src /\ o.dst = e.dst /\ o.proto = IPIP_PROTO /\ ChecksumRight(o)
      /\ load_half(w.totalLen) <= 65515 => load_half(o.totalLen) = load_half(w.totalLen) + Ipv4Len
  <2>1. NewMeta(e).src \in Addr /\ NewMeta(e).dst \in Addr
    BY <1>4
  <2>2. OuterOf(w, NewMeta(e), out)
    BY <1>2, <2>1, OuterMade
  <2> HIDE DEF w, out
  <2> QED
    BY <1>4, <2>2 DEF OuterOf
<1>8. inn \in Ipv4 /\ inn.valid = TRUE /\ OneHop(w, i)
  BY <1>2, HopMade
<1>9. o \in WireIp /\ i \in WireIp
  BY <1>7, <1>8, ToWireFields
<1>10. Push(pa) = md
  <2> HIDE DEF pa
  <2>1. /\ ipip_push(pa).outer = PushedOuter(pa.outer, pa.meta, IPIP_PROTO)
        /\ ipip_push(pa).inner = pa.outer
    BY DEF ipip_push
  <2>2. Push(pa) = Md(pa.eth, ip_checksum(ipip_push(pa).outer), ip_ttl_dec(ipip_push(pa).inner),
                      pa.meta, pa.offset)
    BY DEF Push, Md
  <2> QED
    BY <1>6, <2>1, <2>2
<1>11. pa.meta.push /\ pa.outer.valid
  BY <1>3, <1>4, <1>6
<1>12. /\ md.eth = EthTo(f, f.dmac) /\ md.outer = out /\ md.inner = inn
       /\ md.offset = 34 /\ md \in HdrMd
  <2> HIDE DEF out, inn
  <2> QED
    BY <1>4, <1>5, <1>7, <1>8, MdParts
<1> HIDE DEF pa, md, out, inn
<1>13. md.eth.valid /\ md.outer.valid /\ md.inner.valid
  BY <1>5, <1>7, <1>8, <1>12
<1>14. OutHeaderLength(md) = 54
  BY <1>13, OutLengths
<1>15. /\ Over(<<ZeroWireIp>> \o f.ips, ValidIps(md)) = ips
       /\ ips \in Seq(WireIp) /\ ips[1] = o /\ ips[2] = i
  <2>1. ValidIps(md) = <<o>> \o <<i>>
    BY <1>12, <1>13 DEF ValidIps
  <2>2. ZeroWireIp \in WireIp
    BY Zeros
  <2> HIDE DEF o, i
  <2>3. PushedOver(WireIp, f.ips, ZeroWireIp, o, i)
    BY <1>2, <1>9, <2>2, OverPushed
  <2> QED
    BY <2>1, <2>3, Zenon DEF PushedOver
<1>16. ToWrite(h, pa, md, 20)
  <2>1. MovePayload(Resized(h, 20), 20).len = h.len + 20
    BY <1>1, MovedLength
  <2> HIDE DEF h
  <2> QED
    BY <1>1, <1>10, <1>11, <1>12, <1>14, <2>1 DEF ToWrite
<1>17. r \in Deparse(h, pa, b)
  BY DEF pa
<1>18. WriteIps(WriteEth(MovePayload(Resized(h, 20), 20), md.eth), md)
         = Carrying(f, f.len + 20, md.eth.dmac, Over(<<ZeroWireIp>> \o f.ips, ValidIps(md)))
  <2>1. md.eth.valid = TRUE /\ md.eth.etherType = load_half(f.etherType)
    BY <1>5, <1>12
  <2> QED
    BY <1>1, <2>1, HeadersWritten, Zenon
<1>19. md.eth.dmac = f.dmac
  BY <1>5, <1>12
<1> HIDE DEF h
<1>20. /\ r.md = md /\ r.cb = b
       /\ b.drop => r.ret = TC_ACT_SHOT /\ r.frame = h
       /\ ~b.drop => \/ r.ret = TC_ACT_SHOT /\ r.frame = h
                     \/ /\ r.ret = Continue
                        /\ r.frame = WriteIps(WriteEth(MovePayload(Resized(h, 20), 20), md.eth), md)
  BY <1>16, <1>17, DeparseCases
<1> DEFINE g == Carrying(f, f.len + 20, f.dmac, ips)
<1>21. g \in Frame
  <2>1. f.len + 20 \in Nat
    BY <1>1
  <2> HIDE DEF ips
  <2> QED
    BY <1>1, <1>15, <2>1, FrameMade
<1>22. Tunnelled(f, g, e)
  <2>1. g.ips = ips
    BY DEF Carrying
  <2>2. g = Carrying(f, f.len + Ipv4Len, f.dmac, <<o, i>> \o Tail(f.ips))
    BY DEF Ipv4Len, Pushed
  <2> HIDE DEF g
  <2>3. g.ips[1] = o /\ g.ips[2] = i
    BY <1>15, <2>1
  <2> HIDE DEF o, i
  <2> QED
    BY <1>7, <1>8, <2>2, <2>3 DEF Tunnelled
<1>23. ~b.drop => \/ r.ret = TC_ACT_SHOT /\ r.frame = h
                  \/ r.ret = Continue /\ r.frame = g
  BY <1>15, <1>18, <1>19, <1>20
<1> HIDE DEF g
<1>24. ~b.drop => \/ r.ret = TC_ACT_SHOT /\ r.frame = h
                  \/ r.ret = Continue /\ r.frame \in Frame /\ Tunnelled(f, r.frame, e)
  BY <1>21, <1>22, <1>23
<1> QED
  BY <1>12, <1>20, <1>24, Zenon DEF h

\* What process() may return for the packet f, whose entry is e: x is the
\* etherType that the packet h was given to the deparser with.
Outcome(f, e, b, x, r) ==
  /\ r.md \in HdrMd
  /\ ~IsIpv4(f) => r.ret = Continue /\ r.frame = f /\ r.cb = b
  /\ IsIpv4(f) => r.cb = NewCb(b, e)
  /\ IsIpv4(f) /\ e.action = "drop" => r.ret = TC_ACT_SHOT /\ r.frame = Typed(f, x)
  /\ IsIpv4(f) /\ e.action # "drop" =>
       \/ r.ret = TC_ACT_SHOT /\ r.frame = Typed(f, x)
       \/ r.ret = Continue /\ r.frame \in Frame /\ SentAs(f, r.frame, e)

(***************************************************************************)
(* process(), for each kind of packet and each action of its entry.        *)
(***************************************************************************)
LEMMA ProcessResult ==
  ASSUME NEW f, Received(f), Accepted(f), NEW e \in Entry, NEW t, NEW p, e = EntryOf(t, p),
         NEW x, f.len < 14 => x = f.etherType, NEW b \in Cb, ~b.drop,
         NEW r \in process(t, p, Typed(f, x), Extracted(f), b)
  PROVE  Outcome(f, e, b, x, r)
<1> DEFINE h == Typed(f, x)
           m == MainBlock(t, p, Extracted(f), b)
           d == NewCb(b, e)
<1>1. r \in Deparse(h, m.md, m.cb)
  BY DEF process
<1>2. f \in Frame /\ f.len \in Nat /\ (f.len < 14 => f.len < 34)
  BY FrameFields DEF Received
<1>3. IsIpv4(f) <=> ~(f.len < 34)
  BY <1>2, Kinds DEF Accepted
<1>4. /\ e.action = "drop" => d.drop
      /\ e.action # "drop" => ~d.drop
  BY NewCbParts
<1> HIDE DEF m
<1>5. CASE f.len < 34
  <2>1. m = [md |-> Extracted(f), cb |-> b]
    BY <1>5, MainResult DEF m
  <2>2. r \in Deparse(h, Extracted(f), b)
    BY <1>1, <2>1
  <2>3. r.ret = Continue /\ r.frame = f /\ r.cb = b /\ r.md = Extracted(f)
    BY <1>5, <2>2, ShortResult
  <2>4. Extracted(f) \in HdrMd
    BY ExtractedTypes
  <2> QED
    BY <1>3, <1>5, <2>3, <2>4 DEF Outcome
<1>6. CASE ~(f.len < 34) /\ Nested(f)
  <2> DEFINE g == Carrying(f, f.len - 20, NewDmac(f, e), Tail(f.ips))
  <2>1. m = [md |-> PoppedMd(f, e), cb |-> d]
    BY <1>6, MainResult DEF m
  <2>2. r \in Deparse(h, PoppedMd(f, e), d)
    BY <1>1, <2>1
  <2> HIDE DEF d
  <2>3. /\ r.md \in HdrMd /\ r.cb = d
        /\ d.drop => r.ret = TC_ACT_SHOT /\ r.frame = h
        /\ ~d.drop => \/ r.ret = TC_ACT_SHOT /\ r.frame = h
                      \/ r.ret = Continue /\ r.frame = g
    BY <1>6, <2>2, PopResult
  <2>4. g \in Frame
    <3>1. f.ips \in Seq(WireIp) /\ Len(f.ips) >= 1
      BY <1>6, HeadersReceived
    <3>2. Tail(f.ips) \in Seq(WireIp)
      BY <3>1, Ips
    <3>3. f.len - 20 \in Nat
      BY <1>2, <1>6
    <3>4. NewDmac(f, e) \in Nat
      BY <1>2, EntryFields
    <3> QED
      BY <1>2, <3>2, <3>3, <3>4, FrameMade
  <2>5. SentAs(f, g, e)
    BY <1>6 DEF SentAs
  <2> HIDE DEF g, h
  <2>6. e.action # "drop" => \/ r.ret = TC_ACT_SHOT /\ r.frame = h
                             \/ r.ret = Continue /\ r.frame \in Frame /\ SentAs(f, r.frame, e)
    BY <1>4, <2>3, <2>4, <2>5
  <2> QED
    BY <1>3, <1>4, <1>6, <2>3, <2>6 DEF Outcome, h, d
<1>7. CASE ~(f.len < 34) /\ ~Nested(f) /\ e.action # "set_ipip"
  <2> DEFINE g == Carrying(f, f.len, NewDmac(f, e), f.ips)
  <2>1. m = [md |-> PlainMd(f, e), cb |-> d]
    BY <1>7, MainResult DEF m
  <2>2. r \in Deparse(h, PlainMd(f, e), d)
    BY <1>1, <2>1
  <2> HIDE DEF d
  <2>3. /\ r.md \in HdrMd /\ r.cb = d
        /\ d.drop => r.ret = TC_ACT_SHOT /\ r.frame = h
        /\ ~d.drop => r.ret = Continue /\ r.frame = g
    BY <1>7, <2>2, ForwardResult
  <2>4. g \in Frame
    BY <1>2, FrameFields, EntryFields, FrameMade
  <2>5. e.action # "drop" => SentAs(f, g, e)
    <3>1. e.action # "drop" => e.action = "set_nh"
      BY <1>2, <1>7, EntryFields
    <3> QED
      BY <1>7, <3>1 DEF SentAs, NewDmac
  <2> HIDE DEF g, h
  <2>6. e.action # "drop" => r.ret = Continue /\ r.frame \in Frame /\ SentAs(f, r.frame, e)
    BY <1>4, <2>3, <2>4, <2>5
  <2> QED
    BY <1>3, <1>4, <1>7, <2>3, <2>6 DEF Outcome, h, d
<1>8. CASE ~(f.len < 34) /\ ~Nested(f) /\ e.action = "set_ipip"
  <2>1. m = [md |-> PlainMd(f, e), cb |-> d]
    BY <1>8, MainResult DEF m
  <2>2. r \in Deparse(h, PlainMd(f, e), d)
    BY <1>1, <2>1
  <2> HIDE DEF d
  <2>3. /\ r.md \in HdrMd /\ r.cb = d
        /\ ~d.drop => \/ r.ret = TC_ACT_SHOT /\ r.frame = h
                      \/ r.ret = Continue /\ r.frame \in Frame /\ Tunnelled(f, r.frame, e)
    BY <1>8, <2>2, PushResult
  <2>4. ~d.drop /\ e.action # "drop"
    BY <1>4, <1>8
  <2>5. Tunnelled(f, r.frame, e) => SentAs(f, r.frame, e)
    BY <1>8 DEF SentAs
  <2> HIDE DEF h
  <2> QED
    BY <1>3, <1>8, <2>3, <2>4, <2>5 DEF Outcome, h, d
<1> QED
  BY <1>5, <1>6, <1>7, <1>8

-----------------------------------------------------------------------------
(* The inductive invariant *)

PnaOK == PnaTyped(Frame, HdrMd, {"idle", "main"})

TableInv == DOMAIN fwd \subseteq Ports /\ fwd \in [DOMAIN fwd -> Entries \cup {DropEntry}]

\* While a packet is at work, the map holds its own headers.
ScratchInv ==
  \A c \in Cpus : pc[c] # "idle" => Accepted(rcvd[cur[c]]) /\ hdrMd[c] = Extracted(rcvd[cur[c]])

\* A packet received as r and sent as f: it left a tunnel, kept its length or
\* entered a tunnel.
SentOK(r, f) ==
  IF InTunnel(r) THEN f = Carrying(r, r.len - Ipv4Len, f.dmac, Tail(r.ips))
  ELSE f.len = r.len \/ (IsIpv4(r) /\ \E e \in Entry : Tunnelled(r, f, e))

\* A packet received as r that is at l with contents f and metadata b.
SkbOK(l, f, b, r) ==
  /\ Received(r)
  /\ l \in {"new", "ingress", "cpu", "stack"} => f = r /\ b.drop = FALSE /\ b.egress_port = 0
  /\ l = "sent" => SentOK(r, f)

SkbInv == \A s \in Skbs : SkbOK(loc[s], frame[s], cb[s], rcvd[s])

IndInv == PnaOK /\ TableInv /\ CpuInv /\ ScratchInv /\ SkbInv

(***************************************************************************)
(* The entry of a port is an entry, and one that sends has a port to send  *)
(* to.                                                                     *)
(***************************************************************************)
LEMMA EntryTaken ==
  ASSUME TableInv, NEW p
  PROVE  /\ EntryOf(fwd, p) \in Entry
         /\ EntryOf(fwd, p).action # "drop" =>
              /\ p \in DOMAIN fwd /\ EntryOf(fwd, p) = fwd[p]
              /\ EntryOf(fwd, p).port # 0
<1>1. DropEntry \in Entry /\ DropEntry.action = "drop"
  <2>1. 0 \in Addr
    BY Zeros DEF MetaHdr, ZeroMeta
  <2> QED
    BY <2>1 DEF DropEntry, Entry
<1>2. EntryOf(fwd, p) = DropEntry \/ (p \in DOMAIN fwd /\ EntryOf(fwd, p) = fwd[p])
  BY DEF EntryOf
<1>3. p \in DOMAIN fwd => fwd[p] \in Entries \/ fwd[p] = DropEntry
  BY DEF TableInv
<1>4. \A e \in Entries : e \in Entry /\ e.port \in Nat /\ (e.action # "drop" => e.port # 0)
  BY EntriesAssumption DEF Entry
<1> QED
  BY <1>1, <1>2, <1>3, <1>4

(***************************************************************************)
(* The packet that a CPU is at work on.                                    *)
(***************************************************************************)
LEMMA AtWork ==
  ASSUME IndInv, NEW c \in Cpus, pc[c] # "idle"
  PROVE  /\ pc[c] = "main" /\ cur[c] \in Skbs /\ loc[cur[c]] = "cpu"
         /\ Received(rcvd[cur[c]]) /\ rcvd[cur[c]] \in Frame /\ frame[cur[c]] = rcvd[cur[c]]
         /\ cb[cur[c]] \in Cb /\ cb[cur[c]].drop = FALSE /\ cb[cur[c]].egress_port = 0
         /\ Accepted(rcvd[cur[c]]) /\ hdrMd[c] = Extracted(rcvd[cur[c]]) /\ hdrMd[c] \in HdrMd
<1>1. cur[c] \in Skbs /\ loc[cur[c]] = "cpu"
  BY DEF IndInv, CpuInv
<1>2. pc[c] = "main" /\ rcvd[cur[c]] \in Frame /\ cb[cur[c]] \in Cb /\ hdrMd[c] \in HdrMd
  BY <1>1 DEF IndInv, PnaOK, PnaTyped
<1>3. /\ frame[cur[c]] = rcvd[cur[c]] /\ cb[cur[c]].drop = FALSE /\ cb[cur[c]].egress_port = 0
      /\ Received(rcvd[cur[c]])
  BY <1>1 DEF IndInv, SkbInv, SkbOK
<1> QED
  BY <1>1, <1>2, <1>3 DEF IndInv, ScratchInv

(***************************************************************************)
(* The packet that the main block gets: the XDP metadata change its type.  *)
(***************************************************************************)
LEMMA Restored ==
  ASSUME NEW f \in Frame, ~MetadataFails(f)
  PROVE  \E x \in Half : /\ RestoreEtherType(f) = Typed(f, x) /\ Typed(f, x) \in Frame
                         /\ f.len < 14 => x = f.etherType
<1>1. /\ f.len \in Nat /\ f.md \in Half \cup {NoMd} /\ f.dmac \in Nat
      /\ f.etherType \in Half /\ f.ips \in Seq(WireIp)
      /\ f = [len |-> f.len, md |-> f.md, dmac |-> f.dmac, etherType |-> f.etherType, ips |-> f.ips]
  BY FrameFields
<1>2. \A x \in Half : Typed(f, x) \in Frame
  BY <1>1 DEF Typed, Frame
<1>3. CASE f.md = NoMd
  <2>1. RestoreEtherType(f) = f
    BY <1>3 DEF RestoreEtherType
  <2>2. f = Typed(f, f.etherType)
    BY <1>1 DEF Typed
  <2> QED
    BY <1>1, <1>2, <2>1, <2>2
<1>4. CASE f.md # NoMd
  <2>1. RestoreEtherType(f) = [f EXCEPT !.etherType = f.md]
    BY <1>4 DEF RestoreEtherType
  <2>2. [f EXCEPT !.etherType = f.md] = Typed(f, f.md)
    BY <1>1 DEF Typed
  <2>3. ~(f.len < 14) /\ f.md \in Half
    BY <1>1, <1>4 DEF MetadataFails
  <2> QED
    BY <1>2, <2>1, <2>2, <2>3
<1> QED
  BY <1>3, <1>4

(***************************************************************************)
(* Where a verdict takes the packet.                                       *)
(***************************************************************************)
LEMMA Verdicts ==
  ASSUME NEW c, NEW r, Return(c, r)
  PROVE  /\ r.ret = TC_ACT_SHOT => Leave(c, "dropped", r.frame, r.cb, r.md)
         /\ r.ret = Continue /\ ~r.cb.drop /\ r.cb.egress_port = 0 =>
              Leave(c, "ingress", r.frame, [drop |-> r.cb.drop, egress_port |-> 0, pass_to_kernel |-> TRUE], r.md)
         /\ r.ret = Continue /\ r.cb.egress_port # 0 => Leave(c, "sent", r.frame, r.cb, r.md)
<1>1. Leave(c, Verdict(r.ret, r.cb), r.frame, Mark(Verdict(r.ret, r.cb), r.cb), r.md)
  BY DEF Return
<1>2. /\ r.ret = TC_ACT_SHOT => Verdict(r.ret, r.cb) = "dropped"
      /\ r.ret = Continue /\ ~r.cb.drop /\ r.cb.egress_port = 0 => Verdict(r.ret, r.cb) = "ingress"
      /\ r.ret = Continue /\ r.cb.egress_port # 0 => Verdict(r.ret, r.cb) = "sent"
  BY DEF Verdict, TC_ACT_SHOT, Continue
<1>3. /\ Mark("dropped", r.cb) = r.cb /\ Mark("sent", r.cb) = r.cb
      /\ r.cb.egress_port = 0 =>
           Mark("ingress", r.cb) = [drop |-> r.cb.drop, egress_port |-> 0, pass_to_kernel |-> TRUE]
  BY DEF Mark
<1> QED
  BY <1>1, <1>2, <1>3

(***************************************************************************)
(* The main block: an IPv4 packet is sent by the entry of its own port or  *)
(* dropped; any other goes back to its ingress as it came, marked for the  *)
(* kernel.                                                                 *)
(***************************************************************************)
SendsBy(c, f, b, e) ==
  /\ IsIpv4(f) /\ e.action # "drop"
  /\ \E g \in Frame, md \in HdrMd : SentAs(f, g, e) /\ Leave(c, "sent", g, send_to_port(b, e.port), md)

Drops(c) == \E g \in Frame, b \in Cb, md \in HdrMd : Leave(c, "dropped", g, b, md)

SendsBack(c, f) ==
  \E md \in HdrMd : Leave(c, "ingress", f, [drop |-> FALSE, egress_port |-> 0, pass_to_kernel |-> TRUE], md)

(***************************************************************************)
(* The main block always ends in one of those three ways, by the entry     *)
(* that the table has for the port at that moment.                         *)
(***************************************************************************)
LEMMA ProcessStep ==
  ASSUME IndInv, NEW c \in Cpus, Process(c)
  PROVE  /\ pc[c] # "idle"
         /\ \/ SendsBy(c, rcvd[cur[c]], cb[cur[c]], EntryOf(fwd, port[cur[c]]))
            \/ Drops(c)
            \/ SendsBack(c, rcvd[cur[c]])
<1> DEFINE f == rcvd[cur[c]]
           b == cb[cur[c]]
           e == EntryOf(fwd, port[cur[c]])
<1>1. pc[c] # "idle" /\ ~MetadataFails(frame[cur[c]])
  BY DEF Process, EntersMain
<1>2. /\ Received(f) /\ f \in Frame /\ frame[cur[c]] = f /\ b \in Cb /\ b.drop = FALSE /\ b.egress_port = 0
      /\ Accepted(f) /\ hdrMd[c] = Extracted(f)
  BY <1>1, AtWork
<1>3. PICK x \in Half : /\ RestoreEtherType(f) = Typed(f, x) /\ Typed(f, x) \in Frame
                        /\ f.len < 14 => x = f.etherType
  BY <1>1, <1>2, Restored
<1>4. PICK r \in process(fwd, port[cur[c]], Typed(f, x), Extracted(f), b) : Return(c, r)
  BY <1>2, <1>3, Zenon DEF Process
<1>5. e \in Entry /\ (e.action # "drop" => e.port # 0)
  BY EntryTaken DEF IndInv
<1>6. Outcome(f, e, b, x, r)
  BY <1>2, <1>3, <1>4, <1>5, ProcessResult
<1>7. /\ NewCb(b, e) \in Cb
      /\ e.action # "drop" => NewCb(b, e) = send_to_port(b, e.port) /\ NewCb(b, e).egress_port = e.port
  BY <1>2, <1>5, NewCbParts
<1> HIDE DEF f, b, e
<1>8. CASE ~IsIpv4(f)
  <2>1. r.ret = Continue /\ r.frame = f /\ r.cb = b /\ r.md \in HdrMd
    BY <1>6, <1>8 DEF Outcome
  <2>2. Leave(c, "ingress", r.frame, [drop |-> r.cb.drop, egress_port |-> 0, pass_to_kernel |-> TRUE], r.md)
    BY <1>2, <1>4, <2>1, Verdicts
  <2>3. SendsBack(c, f)
    BY <1>2, <2>1, <2>2 DEF SendsBack
  <2> QED
    BY <1>1, <2>3 DEF f
<1>9. CASE IsIpv4(f) /\ r.ret = TC_ACT_SHOT
  <2>1. Leave(c, "dropped", r.frame, r.cb, r.md)
    BY <1>4, <1>9, Verdicts
  <2>2. r.cb \in Cb /\ r.md \in HdrMd /\ r.frame \in Frame
    BY <1>3, <1>6, <1>7, <1>9 DEF Outcome
  <2>3. Drops(c)
    BY <2>1, <2>2 DEF Drops
  <2> QED
    BY <1>1, <2>3
<1>10. CASE IsIpv4(f) /\ r.ret # TC_ACT_SHOT
  <2>1. /\ e.action # "drop" /\ r.ret = Continue /\ r.frame \in Frame /\ SentAs(f, r.frame, e)
        /\ r.cb = NewCb(b, e) /\ r.md \in HdrMd
    BY <1>6, <1>10 DEF Outcome
  <2>2. Leave(c, "sent", r.frame, r.cb, r.md)
    BY <1>4, <1>5, <1>7, <2>1, Verdicts
  <2>3. SendsBy(c, f, b, e)
    BY <1>7, <1>10, <2>1, <2>2 DEF SendsBy
  <2> QED
    BY <1>1, <2>3 DEF f, b, e
<1> QED
  BY <1>8, <1>9, <1>10

(***************************************************************************)
(* A CPU that lets go of its packet keeps the invariant, if the packet it  *)
(* leaves behind is in order.                                              *)
(***************************************************************************)
LEMMA LeaveInv ==
  ASSUME IndInv, NEW c \in Cpus, pc[c] # "idle", NEW l \in {"ingress", "stack", "sent", "dropped"},
         NEW f \in Frame, NEW b \in Cb, NEW md \in HdrMd, Leave(c, l, f, b, md),
         SkbOK(l, f, b, rcvd[cur[c]]), fwd' = fwd
  PROVE  IndInv'
<1> USE DEF IndInv
<1>1. /\ PnaOK' /\ CpuInv'
      /\ cur[c] \in Skbs
      /\ loc'[cur[c]] = l /\ frame'[cur[c]] = f /\ cb'[cur[c]] = b /\ rcvd'[cur[c]] = rcvd[cur[c]]
      /\ pc'[c] = "idle"
      /\ \A t \in Skbs : t # cur[c] => SameSkb(t)
      /\ \A d \in Cpus : d # c => SameCpu(d) /\ (pc[d] # "idle" => cur[d] # cur[c])
  BY LeaveStep DEF PnaOK
<1>2. SkbInv'
  <2> SUFFICES ASSUME NEW s \in Skbs
               PROVE  SkbOK(loc'[s], frame'[s], cb'[s], rcvd'[s])
    BY DEF SkbInv
  <2>1. CASE s = cur[c]
    BY <1>1, <2>1
  <2>2. CASE s # cur[c]
    BY <1>1, <2>2 DEF SameSkb, SkbInv
  <2> QED
    BY <2>1, <2>2
<1>3. ScratchInv'
  <2> SUFFICES ASSUME NEW d \in Cpus, pc'[d] # "idle"
               PROVE  Accepted(rcvd'[cur'[d]]) /\ hdrMd'[d] = Extracted(rcvd'[cur'[d]])
    BY DEF ScratchInv
  <2>1. d # c /\ SameCpu(d) /\ pc[d] # "idle"
    BY <1>1 DEF SameCpu
  <2>2. cur[d] \in Skbs /\ cur[d] # cur[c]
    BY <1>1, <2>1 DEF CpuInv
  <2>3. rcvd'[cur'[d]] = rcvd[cur[d]]
    BY <1>1, <2>1, <2>2 DEF SameCpu, SameSkb
  <2> QED
    BY <2>1, <2>3 DEF SameCpu, ScratchInv
<1>4. TableInv'
  BY DEF TableInv
<1> QED
  BY <1>1, <1>2, <1>3, <1>4

(***************************************************************************)
(* A packet that arrives.                                                  *)
(***************************************************************************)
LEMMA ReceiveInv ==
  ASSUME IndInv, NEW s \in Skbs, Receive(s)
  PROVE  IndInv'
<1> USE DEF IndInv
<1>1. PICK p \in Ports, f \in Frames : Arrive(s, p, f)
  BY DEF Receive
<1>2. p \in Nat /\ f \in Frame /\ Received(f)
  BY PortsAssumption, FramesAssumption DEF Received
<1>3. /\ PnaOK' /\ CpuInv'
      /\ loc[s] = "new" /\ loc'[s] = "ingress" /\ frame'[s] = f /\ rcvd'[s] = f /\ cb'[s] = cb[s]
      /\ \A t \in Skbs : t # s => SameSkb(t)
      /\ \A c \in Cpus : SameCpu(c) /\ (pc[c] # "idle" => cur[c] # s)
  BY <1>1, <1>2, ArriveStep DEF PnaOK
<1>4. SkbInv'
  <2>1. SkbOK(loc'[s], frame'[s], cb'[s], rcvd'[s])
    BY <1>2, <1>3 DEF SkbInv, SkbOK
  <2>2. \A t \in Skbs : t # s => SkbOK(loc'[t], frame'[t], cb'[t], rcvd'[t])
    BY <1>3 DEF SkbInv, SameSkb
  <2> QED
    BY <2>1, <2>2 DEF SkbInv
<1>5. ScratchInv'
  <2>1. ASSUME NEW c \in Cpus, pc'[c] # "idle"
        PROVE  rcvd'[cur'[c]] = rcvd[cur[c]] /\ pc[c] # "idle"
    <3>1. pc[c] # "idle" /\ cur'[c] = cur[c] /\ cur[c] # s
      BY <1>3, <2>1 DEF SameCpu
    <3>2. cur[c] \in Skbs
      BY <3>1 DEF CpuInv
    <3> QED
      BY <1>3, <3>1, <3>2 DEF SameSkb
  <2> QED
    BY <1>3, <2>1 DEF ScratchInv, SameCpu
<1>6. TableInv'
  BY DEF Receive, TableInv
<1> QED
  BY <1>3, <1>4, <1>5, <1>6

(***************************************************************************)
(* A packet that is parsed, for the first or the second time.              *)
(***************************************************************************)
LEMMA ParseInv ==
  ASSUME IndInv, NEW c \in Cpus, NEW s \in Skbs, Parse(c, s)
  PROVE  IndInv'
<1> USE DEF IndInv
<1> DEFINE r == run_parser(frame[s], hdrMd[c])
<1>1. TcParseFunc(c, s, r)
  BY DEF Parse
<1>2. loc[s] = "ingress"
  BY <1>1 DEF TcParseFunc
<1>3. frame[s] = rcvd[s] /\ Received(frame[s]) /\ cb[s].drop = FALSE /\ cb[s].egress_port = 0
  BY <1>2 DEF SkbInv, SkbOK
<1>4. /\ r.md \in HdrMd
      /\ Accepted(frame[s]) => r.ret # TC_ACT_SHOT /\ r.md = Extracted(frame[s])
      /\ ~Accepted(frame[s]) => r.ret = TC_ACT_SHOT
  BY <1>3, ParserResult
<1> HIDE DEF r
<1>5. /\ PnaOK' /\ CpuInv'
      /\ pc[c] = "idle" /\ loc[s] = "ingress"
      /\ frame'[s] = frame[s] /\ rcvd'[s] = rcvd[s] /\ cb'[s] = cb[s]
      /\ r.ret = TC_ACT_SHOT => loc'[s] = "dropped" /\ pc'[c] = "idle"
      /\ r.ret # TC_ACT_SHOT => /\ loc'[s] = "cpu" /\ pc'[c] = "main"
                                /\ cur'[c] = s /\ hdrMd'[c] = r.md
      /\ \A t \in Skbs : t # s => SameSkb(t)
      /\ \A d \in Cpus : d # c => SameCpu(d) /\ (pc[d] # "idle" => cur[d] # s)
  BY <1>1, <1>4, ParseStep DEF PnaOK
<1>6. SkbInv'
  <2>1. SkbOK(loc'[s], frame'[s], cb'[s], rcvd'[s])
    BY <1>3, <1>5 DEF SkbOK
  <2>2. \A t \in Skbs : t # s => SkbOK(loc'[t], frame'[t], cb'[t], rcvd'[t])
    BY <1>5 DEF SkbInv, SameSkb
  <2> QED
    BY <2>1, <2>2 DEF SkbInv
<1>7. ScratchInv'
  <2> SUFFICES ASSUME NEW d \in Cpus, pc'[d] # "idle"
               PROVE  Accepted(rcvd'[cur'[d]]) /\ hdrMd'[d] = Extracted(rcvd'[cur'[d]])
    BY DEF ScratchInv
  <2>1. CASE d = c
    BY <1>3, <1>4, <1>5, <2>1
  <2>2. CASE d # c
    <3>1. SameCpu(d) /\ pc[d] # "idle" /\ cur[d] # s
      BY <1>5, <2>2 DEF SameCpu
    <3>2. cur[d] \in Skbs
      BY <3>1 DEF CpuInv
    <3>3. rcvd'[cur'[d]] = rcvd[cur[d]]
      BY <1>5, <3>1, <3>2 DEF SameCpu, SameSkb
    <3> QED
      BY <3>1, <3>3 DEF SameCpu, ScratchInv
  <2> QED
    BY <2>1, <2>2
<1>8. TableInv'
  BY DEF Parse, TableInv
<1> QED
  BY <1>5, <1>6, <1>7, <1>8

(***************************************************************************)
(* What is sent is in order.                                               *)
(***************************************************************************)
LEMMA SentInOrder ==
  ASSUME NEW r, Received(r), IsIpv4(r), NEW e \in Entry, NEW f, SentAs(r, f, e)
  PROVE  SentOK(r, f)
<1>1. r \in Frame
  BY DEF Received
<1>2. InTunnel(r) <=> Nested(r)
  BY <1>1, Kinds
<1>3. CASE Nested(r)
  <2>1. f = Carrying(r, r.len - 20, NewDmac(r, e), Tail(r.ips))
    BY <1>3 DEF SentAs
  <2>2. f.dmac = NewDmac(r, e)
    BY <2>1 DEF Carrying
  <2> QED
    BY <1>2, <1>3, <2>1, <2>2 DEF SentOK, Ipv4Len
<1>4. CASE ~Nested(r)
  <2>1. Tunnelled(r, f, e) \/ f = Carrying(r, r.len, e.dmac, r.ips)
    BY <1>4 DEF SentAs
  <2>2. f = Carrying(r, r.len, e.dmac, r.ips) => f.len = r.len
    BY DEF Carrying
  <2> QED
    BY <1>2, <1>4, <2>1, <2>2 DEF SentOK
<1> QED
  BY <1>3, <1>4

(***************************************************************************)
(* The main block, and its early returns.                                  *)
(***************************************************************************)
LEMMA MainInv ==
  ASSUME IndInv, NEW c \in Cpus, Main(c)
  PROVE  IndInv'
<1> DEFINE f == rcvd[cur[c]]
           b == cb[cur[c]]
           e == EntryOf(fwd, port[cur[c]])
<1>1. pc[c] # "idle" /\ fwd' = fwd
  BY DEF Main, IngressEarly, EarlyReturn, PassToKernel, MetadataShot, Process, EntersMain
<1>2. /\ Received(f) /\ f \in Frame /\ frame[cur[c]] = f /\ hdrMd[c] \in HdrMd
      /\ b \in Cb /\ b.drop = FALSE /\ b.egress_port = 0
  BY <1>1, AtWork
<1>3. CASE IngressEarly(c)
  <2>1. Leave(c, "stack", f, b, hdrMd[c]) \/ Leave(c, "dropped", f, b, hdrMd[c])
    BY <1>2, <1>3 DEF IngressEarly, EarlyReturn, PassToKernel, MetadataShot
  <2>2. SkbOK("stack", f, b, f) /\ SkbOK("dropped", f, b, f)
    BY <1>2 DEF SkbOK
  <2> QED
    BY <1>1, <1>2, <2>1, <2>2, LeaveInv
<1>4. CASE Process(c)
  <2>1. e \in Entry /\ e.port \in Nat
    BY EntryTaken DEF IndInv, Entry
  <2>2. CASE SendsBy(c, f, b, e)
    <3>1. PICK g \in Frame, md \in HdrMd : SentAs(f, g, e) /\ Leave(c, "sent", g, send_to_port(b, e.port), md)
      BY <2>2 DEF SendsBy
    <3>2. SentOK(f, g)
      <4>1. IsIpv4(f)
        BY <2>2 DEF SendsBy
      <4> HIDE DEF f, e
      <4> QED
        BY <1>2, <2>1, <3>1, <4>1, SentInOrder
    <3>3. SkbOK("sent", g, send_to_port(b, e.port), f)
      BY <1>2, <3>2 DEF SkbOK
    <3>4. send_to_port(b, e.port) \in Cb
      BY <1>2, <2>1, CbTypes
    <3> QED
      BY <1>1, <3>1, <3>3, <3>4, LeaveInv
  <2>3. CASE Drops(c)
    <3>1. PICK g \in Frame, d \in Cb, md \in HdrMd : Leave(c, "dropped", g, d, md)
      BY <2>3 DEF Drops
    <3>2. SkbOK("dropped", g, d, f)
      BY <1>2 DEF SkbOK
    <3> QED
      BY <1>1, <3>1, <3>2, LeaveInv
  <2>4. CASE SendsBack(c, f)
    <3> DEFINE z == [drop |-> FALSE, egress_port |-> 0, pass_to_kernel |-> TRUE]
    <3>1. PICK md \in HdrMd : Leave(c, "ingress", f, z, md)
      BY <2>4 DEF SendsBack
    <3>2. z \in Cb /\ SkbOK("ingress", f, z, f)
      BY <1>2 DEF Cb, SkbOK
    <3> QED
      BY <1>1, <1>2, <3>1, <3>2, LeaveInv
  <2> QED
    BY <1>4, <2>2, <2>3, <2>4, ProcessStep
<1> QED
  BY <1>3, <1>4 DEF Main

(***************************************************************************)
(* The control plane changes fwd_table only, and as it may be.             *)
(***************************************************************************)
LEMMA CtrlInv ==
  ASSUME IndInv, (\E p \in Ports : CtrlPlane(p)) \/ UNCHANGED vars
  PROVE  IndInv' /\ UNCHANGED pnaVars
<1>1. UNCHANGED pnaVars
  BY DEF CtrlPlane, vars
<1>2. TableInv'
  BY DEF CtrlPlane, vars, TableInv, IndInv
<1> QED
  BY <1>1, <1>2 DEF pnaVars, IndInv, PnaOK, PnaTyped, CpuInv, ScratchInv, SkbInv

-----------------------------------------------------------------------------
(* The theorems *)

(***************************************************************************)
(* The inductive invariant holds in every reachable state.                 *)
(***************************************************************************)
THEOREM Invariance == Spec => []IndInv
<1>1. Init => IndInv
  <2> SUFFICES ASSUME Init
               PROVE  IndInv
    OBVIOUS
  <2>1. NoFrame \in Frame /\ HeadersThere(NoFrame)
    <3>1. <<0, 0>> \in Half
      BY DEF Half, Byte
    <3>2. NoFrame \in Frame
      BY <3>1 DEF NoFrame, Frame
    <3>3. NoFrame.len = 0
      BY DEF NoFrame
    <3> QED
      BY <3>2, <3>3 DEF HeadersThere, EthLen, Ipv4Len
  <2>2. ZeroHdrMd \in HdrMd
    BY <2>1, ExtractedTypes DEF Received
  <2>3. /\ PnaOK /\ CpuInv
        /\ loc = [s \in Skbs |-> "new"] /\ cb = [s \in Skbs |-> ZeroCb] /\ pc = [c \in Cpus |-> "idle"]
    BY <2>1, <2>2, InitStep DEF Init, PnaOK
  <2>4. \A s \in Skbs : frame[s] = NoFrame /\ rcvd[s] = NoFrame
    BY DEF Init, PnaInit
  <2>5. ScratchInv
    BY <2>3 DEF ScratchInv
  <2>6. SkbInv
    BY <2>1, <2>3, <2>4 DEF SkbInv, SkbOK, ZeroCb, Received
  <2>7. TableInv
    BY DEF Init, TableInv
  <2> QED
    BY <2>3, <2>5, <2>6, <2>7 DEF IndInv
<1>2. IndInv /\ [Next]_vars => IndInv'
  BY ReceiveInv, ParseInv, MainInv, CtrlInv DEF Next
<1> QED
  BY <1>1, <1>2, PTL DEF Spec

(***************************************************************************)
(* The variables of the pipeline and its table have their types.           *)
(***************************************************************************)
THEOREM TypeCorrect == Spec => []TypeOK
<1>1. IndInv => TypeOK
  BY DEF IndInv, PnaOK, PnaTyped, TableInv, TypeOK
<1> QED
  BY <1>1, Invariance, PTL

(***************************************************************************)
(* A packet out of a tunnel is the packet that was inside, whatever action *)
(* its entry has, however many headers follow.                             *)
(***************************************************************************)
THEOREM LeavesTunnel == Spec => []LeavesTunnelWhole
<1>1. IndInv => LeavesTunnelWhole
  BY DEF IndInv, SkbInv, SkbOK, SentOK, LeavesTunnelWhole
<1> QED
  BY <1>1, Invariance, PTL

(***************************************************************************)
(* The headers of a packet that was put in a tunnel.                       *)
(***************************************************************************)
LEMMA TunnelHeaders ==
  ASSUME NEW r, Received(r), IsIpv4(r), NEW f \in Frame, NEW e, Tunnelled(r, f, e)
  PROVE  /\ Received(f) /\ Accepted(f) /\ IsIpv4(f) /\ Nested(f)
         /\ f.len = r.len + 20 /\ f.md = r.md /\ f.etherType = r.etherType
         /\ Tail(f.ips) = <<f.ips[2]>> \o Tail(r.ips)
         /\ Tail(f.ips)[1] = f.ips[2] /\ OneHop(r.ips[1], f.ips[2])
<1> DEFINE o == f.ips[1]
           i == f.ips[2]
<1>1. /\ f = Carrying(r, r.len + Ipv4Len, r.dmac, <<o, i>> \o Tail(r.ips))
      /\ o.proto = IPIP_PROTO /\ OneHop(r.ips[1], i)
  BY DEF Tunnelled
<1> HIDE DEF o, i
<1>2. /\ f.len = r.len + 20 /\ f.md = r.md /\ f.etherType = r.etherType
      /\ f.ips = <<o, i>> \o Tail(r.ips)
  BY <1>1 DEF Carrying, Ipv4Len
<1>3. r \in Frame /\ r.len \in Nat
  BY FrameFields DEF Received
<1>4. ~(r.len < 34) /\ r.etherType = <<8, 0>>
  BY <1>3, Kinds
<1>5. /\ Len(f.ips) \in Nat /\ Len(f.ips) >= 2
      /\ Tail(f.ips) = <<i>> \o Tail(r.ips) /\ Tail(f.ips)[1] = i
  <2>1. r.ips \in Seq(WireIp) /\ Len(r.ips) >= 1
    BY <1>4, HeadersReceived
  <2>2. f.ips \in Seq(WireIp) /\ Len(f.ips) \in Nat
    BY FrameFields, Ips
  <2>3. ASSUME NEW t \in Seq(WireIp)
        PROVE  Len(<<o, i>> \o t) = Len(t) + 2
    OBVIOUS
  <2>4. Tail(r.ips) \in Seq(WireIp) /\ Len(Tail(r.ips)) \in Nat
    BY <2>1, Ips
  <2>5. Len(f.ips) >= 2
    BY <1>2, <2>3, <2>4
  <2>6. o \in WireIp /\ i \in WireIp
    BY <2>2, <2>5, Ips DEF o, i
  <2>7. PushedOver(WireIp, r.ips, ZeroWireIp, o, i)
    BY <2>1, <2>6, Zeros, OverPushed
  <2>8. Tail(f.ips) = <<i>> \o Tail(r.ips)
    <3>1. f.ips = Pushed(r.ips, o, i)
      BY <1>2 DEF Pushed
    <3>2. Tail(Pushed(r.ips, o, i)) = <<i>> \o Tail(r.ips)
      BY <2>7, Zenon DEF PushedOver
    <3> QED
      BY <3>1, <3>2
  <2>9. Tail(f.ips)[1] = f.ips[1 + 1]
    BY <2>2, <2>5, Ips
  <2>10. Tail(f.ips)[1] = i
    <3>1. 1 + 1 = 2
      OBVIOUS
    <3> QED
      BY <2>9, <3>1, Zenon DEF i
  <2> QED
    BY <2>2, <2>5, <2>8, <2>10
<1>6. Received(f) /\ Accepted(f)
  BY <1>2, <1>4, <1>5 DEF Received, HeadersThere, Accepted
<1>7. Nested(f)
  BY <1>1, <1>2, <1>3, <1>4 DEF Nested, o
<1>8. IsIpv4(f)
  BY <1>2, <1>3, <1>4, Kinds
<1> QED
  BY <1>1, <1>2, <1>5, <1>6, <1>7, <1>8 DEF i

(***************************************************************************)
(* The packet at the other end of the tunnel.                              *)
(***************************************************************************)
LEMMA EndReached ==
  ASSUME NEW r, Received(r), IsIpv4(r), NEW f \in Frame, NEW e, Tunnelled(r, f, e),
         NEW q \in process([p \in {1} |-> EndNh], 1, f, run_parser(f, ZeroHdrMd).md, ZeroCb),
         q.ret = Continue
  PROVE  /\ OneHop(r.ips[1], q.frame.ips[1])
         /\ q.frame = Carrying(r, r.len, 99, <<q.frame.ips[1]>> \o Tail(r.ips))
<1> DEFINE t == [p \in {1} |-> EndNh]
<1>1. /\ Received(f) /\ Accepted(f) /\ IsIpv4(f) /\ Nested(f)
      /\ f.len = r.len + 20 /\ f.md = r.md /\ f.etherType = r.etherType
      /\ Tail(f.ips) = <<f.ips[2]>> \o Tail(r.ips)
      /\ Tail(f.ips)[1] = f.ips[2] /\ OneHop(r.ips[1], f.ips[2])
  BY TunnelHeaders
<1>2. run_parser(f, ZeroHdrMd).md = Extracted(f)
  BY <1>1, ParserResult
<1>3. f = Typed(f, f.etherType)
  BY FrameFields DEF Typed
<1>4. EndNh \in Entry /\ EndNh.action = "set_nh" /\ EndNh.dmac = 99
  <2>1. 0 \in Addr
    BY Zeros DEF MetaHdr, ZeroMeta
  <2> QED
    BY <2>1 DEF EndNh, Entry
<1>5. EndNh = EntryOf(t, 1)
  BY DEF EntryOf
<1>6. ZeroCb \in Cb /\ ~ZeroCb.drop
  BY DEF ZeroCb, Cb
<1>7. q \in process(t, 1, Typed(f, f.etherType), Extracted(f), ZeroCb)
  BY <1>2, <1>3
<1> HIDE DEF t
<1>8. Outcome(f, EndNh, ZeroCb, f.etherType, q)
  BY <1>1, <1>4, <1>5, <1>6, <1>7, ProcessResult
<1>9. SentAs(f, q.frame, EndNh)
  <2>1. Continue # TC_ACT_SHOT
    BY DEF Continue, TC_ACT_SHOT
  <2> QED
    BY <1>1, <1>4, <1>8, <2>1 DEF Outcome
<1>10. q.frame = Carrying(f, f.len - 20, 99, Tail(f.ips))
  BY <1>1, <1>4, <1>9 DEF SentAs, NewDmac
<1>11. f.len - 20 = r.len
  <2>1. r.len \in Nat
    BY FrameFields DEF Received
  <2> QED
    BY <1>1, <2>1
<1>12. q.frame.ips = Tail(f.ips)
  BY <1>10 DEF Carrying
<1>13. q.frame.ips[1] = f.ips[2]
  BY <1>1, <1>12
<1>14. q.frame = Carrying(r, r.len, 99, Tail(f.ips))
  BY <1>1, <1>10, <1>11 DEF Carrying
<1> QED
  BY <1>1, <1>13, <1>14

(***************************************************************************)
(* What this program puts into a tunnel, this program takes out of it as   *)
(* it came, one hop older.                                                 *)
(***************************************************************************)
THEOREM TunnelEndsMeet == Spec => []EndsMeet
<1>1. IndInv => EndsMeet
  <2> SUFFICES ASSUME IndInv, NEW s \in Skbs, loc[s] = "sent", frame[s].len > rcvd[s].len,
                      NEW q \in process([p \in {1} |-> EndNh], 1, frame[s],
                                        run_parser(frame[s], ZeroHdrMd).md, ZeroCb),
                      q.ret = Continue
               PROVE  /\ OneHop(rcvd[s].ips[1], q.frame.ips[1])
                      /\ q.frame = Carrying(rcvd[s], rcvd[s].len, 99, <<q.frame.ips[1]>> \o Tail(rcvd[s].ips))
    BY Zenon DEF EndsMeet
  <2>1. Received(rcvd[s]) /\ SentOK(rcvd[s], frame[s])
    BY DEF IndInv, SkbInv, SkbOK
  <2>2. frame[s] \in Frame /\ rcvd[s].len \in Nat
    BY <2>1, FrameFields DEF IndInv, PnaOK, PnaTyped, Received
  <2>3. ~InTunnel(rcvd[s])
    <3>1. SUFFICES ASSUME frame[s] = Carrying(rcvd[s], rcvd[s].len - Ipv4Len, frame[s].dmac, Tail(rcvd[s].ips))
                   PROVE  FALSE
      BY <2>1 DEF SentOK
    <3>2. frame[s].len = rcvd[s].len - 20
      BY <3>1 DEF Carrying, Ipv4Len
    <3> QED
      BY <2>2, <3>2
  <2>4. IsIpv4(rcvd[s]) /\ \E e \in Entry : Tunnelled(rcvd[s], frame[s], e)
    BY <2>1, <2>2, <2>3 DEF SentOK
  <2> QED
    BY <2>1, <2>2, <2>4, EndReached
<1> QED
  BY <1>1, Invariance, PTL

(***************************************************************************)
(* A step that sends a packet does so by the entry of its own port.        *)
(***************************************************************************)
LEMMA SendStep ==
  ASSUME IndInv, Next, NEW s \in Skbs, loc[s] # "sent", loc'[s] = "sent"
  PROVE  IsIpv4(rcvd[s]) /\ SentAs(rcvd[s], frame'[s], EntryOf(fwd, port[s]))
<1>1. ASSUME NEW c \in Cpus, NEW l, NEW g, NEW b, NEW md, Leave(c, l, g, b, md)
      PROVE  s = cur[c] /\ l = "sent" /\ frame'[s] = g
  <2>1. loc' = [loc EXCEPT ![cur[c]] = l] /\ frame' = [frame EXCEPT ![cur[c]] = g]
    BY <1>1 DEF Leave
  <2> QED
    BY <2>1 DEF IndInv, PnaOK, PnaTyped
<1>2. ASSUME NEW t \in Skbs, Receive(t)
      PROVE  FALSE
  <2>1. loc' = [loc EXCEPT ![t] = "ingress"]
    BY <1>2 DEF Receive, Arrive
  <2> QED
    BY <2>1 DEF IndInv, PnaOK, PnaTyped
<1>3. ASSUME NEW c \in Cpus, NEW t \in Skbs, Parse(c, t)
      PROVE  FALSE
  <2>1. loc' = [loc EXCEPT ![t] = "dropped"] \/ loc' = [loc EXCEPT ![t] = "cpu"]
    BY <1>3 DEF Parse, TcParseFunc
  <2> QED
    BY <2>1 DEF IndInv, PnaOK, PnaTyped
<1>4. ASSUME NEW c \in Cpus, IngressEarly(c)
      PROVE  FALSE
  <2>1. \E l \in {"stack", "dropped"} : Leave(c, l, frame[cur[c]], cb[cur[c]], hdrMd[c])
    BY <1>4 DEF IngressEarly, EarlyReturn, PassToKernel, MetadataShot
  <2> QED
    BY <1>1, <2>1
<1>5. ASSUME \E p \in Ports : CtrlPlane(p)
      PROVE  FALSE
  BY <1>5, CtrlInv DEF pnaVars
<1>6. PICK c \in Cpus : Process(c)
  BY <1>2, <1>3, <1>4, <1>5 DEF Next, Main
<1>7. SendsBy(c, rcvd[cur[c]], cb[cur[c]], EntryOf(fwd, port[cur[c]]))
  <2>1. ~Drops(c)
    BY <1>1 DEF Drops
  <2>2. ~SendsBack(c, rcvd[cur[c]])
    BY <1>1 DEF SendsBack
  <2> QED
    BY <1>6, <2>1, <2>2, ProcessStep
<1> QED
  BY <1>1, <1>7 DEF SendsBy

(***************************************************************************)
(* However CPUs and control plane interleave, a packet that is put in a    *)
(* tunnel is whole, one hop older, behind the header that the entry of its *)
(* port asks for at that moment, whose checksum is right.                  *)
(***************************************************************************)
THEOREM EntersTunnel == Spec => EntersTunnelWhole
<1> DEFINE A == \A s \in Skbs :
                  loc[s] = "cpu" /\ loc'[s] = "sent" /\ EntryOf(fwd, port[s]).action = "set_ipip"
                    /\ ~InTunnel(rcvd[s]) => Tunnelled(rcvd[s], frame'[s], fwd[port[s]])
<1>1. IndInv /\ [Next]_vars => [A]_vars
  <2> SUFFICES ASSUME IndInv, Next, NEW s \in Skbs, loc[s] = "cpu", loc'[s] = "sent",
                      EntryOf(fwd, port[s]).action = "set_ipip", ~InTunnel(rcvd[s])
               PROVE  Tunnelled(rcvd[s], frame'[s], fwd[port[s]])
    BY Zenon
  <2>1. IsIpv4(rcvd[s]) /\ SentAs(rcvd[s], frame'[s], EntryOf(fwd, port[s]))
    BY SendStep
  <2>2. EntryOf(fwd, port[s]) = fwd[port[s]]
    BY EntryTaken DEF IndInv
  <2>3. ~Nested(rcvd[s])
    BY <2>1, Kinds DEF IndInv, PnaOK, PnaTyped
  <2> QED
    BY <2>1, <2>2, <2>3 DEF SentAs
<1> QED
  BY <1>1, Invariance, PTL DEF Spec, EntersTunnelWhole
=============================================================================
