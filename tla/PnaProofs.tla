------------------------------ MODULE PnaProofs -----------------------------
(***************************************************************************)
(* What the proofs about the programs have in common: what the byte order  *)
(* conversions of Wire compute, the update of an IPv4 checksum when one    *)
(* word of the header changes, numbers as sums of bits, how the steps of   *)
(* the pipeline move packets and CPUs, and the parser and the deparser of  *)
(* EthIpv4.                                                                *)
(***************************************************************************)
EXTENDS EthIpv4, InternetChecksum, TLAPS

-----------------------------------------------------------------------------
(* Byte order *)

(***************************************************************************)
(* Quotient and remainder by 256 of a 16-bit value are bytes, and make it  *)
(* up again (htons, HostBytes).                                            *)
(***************************************************************************)
LEMMA SplitU16 ==
  ASSUME NEW v \in U16
  PROVE  /\ v % 256 \in Byte
         /\ v \div 256 \in Byte
         /\ v = (v \div 256) * 256 + (v % 256)
<1>1. v \in Int /\ 0 <= v /\ v <= 65535
  BY SMTT(60) DEF U16
<1>2. v % 256 \in Int /\ 0 <= v % 256 /\ v % 256 <= 255
  BY <1>1, Z3
<1>3. v \div 256 \in Int /\ 0 <= v \div 256 /\ v \div 256 <= 255
  BY <1>1, Z3
<1>4. v = (v \div 256) * 256 + (v % 256)
  BY <1>1, Z3
<1>5. v % 256 \in Byte
  BY <1>2 DEF Byte
<1>6. v \div 256 \in Byte
  BY <1>3 DEF Byte
<1> QED
  BY <1>4, <1>5, <1>6

(***************************************************************************)
(* Two bytes make a 16-bit value that falls into the same bytes again      *)
(* (load_half, htons).                                                     *)
(***************************************************************************)
LEMMA JoinBytes ==
  ASSUME NEW x \in Byte, NEW y \in Byte
  PROVE  /\ x * 256 + y \in U16
         /\ (x * 256 + y) \div 256 = x
         /\ (x * 256 + y) % 256 = y
<1>1. x \in Int /\ 0 <= x /\ x <= 255 /\ y \in Int /\ 0 <= y /\ y <= 255
  BY DEF Byte
<1>2. x * 256 + y \in Int /\ 0 <= x * 256 + y /\ x * 256 + y <= 65535
  BY <1>1, Z3
<1>3. (x * 256 + y) \div 256 = x
  BY <1>1, Z3
<1>4. (x * 256 + y) % 256 = y
  BY <1>1, Z3
<1>5. x * 256 + y \in U16
  BY <1>1, <1>2, SMTT(60) DEF U16
<1> QED
  BY <1>3, <1>4, <1>5

(***************************************************************************)
(* The two bytes of a field in the packet are its value's quotient and     *)
(* remainder by 256 (load_half).                                           *)
(***************************************************************************)
LEMMA HalfBytes ==
  ASSUME NEW b \in Half
  PROVE  /\ b[1] \in Byte
         /\ b[2] \in Byte
         /\ b = <<b[1], b[2]>>
         /\ load_half(b) \in U16
         /\ load_half(b) \div 256 = b[1]
         /\ load_half(b) % 256 = b[2]
<1>1. b[1] \in Byte /\ b[2] \in Byte /\ b = <<b[1], b[2]>>
  BY DEF Half
<1> QED
  BY <1>1, JoinBytes DEF load_half

(***************************************************************************)
(* bpf_htons changes the places of the two bytes.                          *)
(***************************************************************************)
LEMMA HtonsBytes ==
  ASSUME NEW v \in U16
  PROVE  /\ htons(v) \in U16
         /\ htons(v) % 256 = v \div 256
         /\ htons(v) \div 256 = v % 256
BY SplitU16, JoinBytes DEF htons

(***************************************************************************)
(* A 16-bit field that is parsed and deparsed again leaves the bytes of    *)
(* the packet as they were: load_half and the deparser's bpf_htons agree.  *)
(***************************************************************************)
THEOREM FieldRoundTrip ==
  ASSUME NEW b \in Half
  PROVE  emit_half(load_half(b)) = b
<1>1. htons(load_half(b)) % 256 = b[1] /\ htons(load_half(b)) \div 256 = b[2]
  BY HalfBytes, HtonsBytes
<1> QED
  BY <1>1, HalfBytes DEF emit_half, HostBytes

(***************************************************************************)
(* Conversely, what the deparser writes is read back as the value written. *)
(***************************************************************************)
THEOREM ValueRoundTrip ==
  ASSUME NEW v \in U16
  PROVE  emit_half(v) \in Half /\ load_half(emit_half(v)) = v
<1>1. emit_half(v) = <<v \div 256, v % 256>>
  BY HtonsBytes DEF emit_half, HostBytes
<1>2. v % 256 \in Byte /\ v \div 256 \in Byte /\ v = (v \div 256) * 256 + (v % 256)
  BY SplitU16
<1>3. emit_half(v) \in Half
  BY <1>1, <1>2 DEF Half
<1>4. load_half(<<v \div 256, v % 256>>) = (v \div 256) * 256 + (v % 256)
  BY DEF load_half
<1> QED
  BY <1>1, <1>2, <1>3, <1>4

-----------------------------------------------------------------------------
(* The checksum *)

(***************************************************************************)
(* A 16-bit value as a number.                                             *)
(***************************************************************************)
LEMMA U16Bounds ==
  ASSUME NEW v \in U16
  PROVE  v \in Int /\ 0 <= v /\ v <= 65535
BY DEF U16

(***************************************************************************)
(* A 16-bit value, from its bounds.                                        *)
(***************************************************************************)
LEMMA BoundsU16 ==
  ASSUME NEW v \in Int, 0 <= v, v <= 65535
  PROVE  v \in U16
<1>1. v \div 256 \in Int /\ 0 <= v \div 256 /\ v \div 256 <= 255
  BY Z3
<1>2. v % 256 \in Int /\ 0 <= v % 256 /\ v % 256 <= 255
  BY Z3
<1>3. v \div 256 \in Byte
  BY <1>1 DEF Byte
<1>4. v % 256 \in Byte
  BY <1>2 DEF Byte
<1>5. v = (v \div 256) * 256 + (v % 256)
  BY Z3
<1>6. (v \div 256) * 256 + (v % 256) \in U16
  BY <1>3, <1>4, JoinBytes
<1> QED
  BY <1>5, <1>6

(***************************************************************************)
(* csum16_add is addition with end-around carry, and stays within 16 bits: *)
(* the carry never overflows again.                                        *)
(***************************************************************************)
LEMMA EndAroundCarry ==
  ASSUME NEW a \in U16, NEW b \in U16
  PROVE  /\ csum16_add(a, b) = IF a + b > 65535 THEN a + b - 65535 ELSE a + b
         /\ csum16_add(a, b) \in U16
<1>1. a \in Int /\ 0 <= a /\ a <= 65535 /\ b \in Int /\ 0 <= b /\ b <= 65535
  BY U16Bounds
<1>2. CASE a + b > 65535
  <2>1. (a + b) % 65536 = a + b - 65536
    BY <1>1, <1>2, Z3
  <2>2. a + b - 65536 < b
    BY <1>1
  <2>3. csum16_add(a, b) = a + b - 65536 + 1
    BY <2>1, <2>2 DEF csum16_add
  <2>4. csum16_add(a, b) = a + b - 65535
    BY <1>1, <2>3, Z3
  <2>5. a + b - 65535 \in Int /\ 0 <= a + b - 65535 /\ a + b - 65535 <= 65535
    BY <1>1, <1>2, Z3
  <2> QED
    BY <1>2, <2>4, <2>5, BoundsU16
<1>3. CASE ~(a + b > 65535)
  <2>1. (a + b) % 65536 = a + b
    BY <1>1, <1>3, Z3
  <2>2. ~(a + b < b)
    BY <1>1
  <2>3. csum16_add(a, b) = a + b + 0
    BY <2>1, <2>2 DEF csum16_add
  <2>4. csum16_add(a, b) = a + b
    BY <1>1, <2>3, Z3
  <2>5. a + b \in Int /\ 0 <= a + b /\ a + b <= 65535
    BY <1>1, <1>3, Z3
  <2> QED
    BY <1>3, <2>4, <2>5, BoundsU16
<1> QED
  BY <1>2, <1>3

\* HC' = ~(~HC + ~m + m')
Updated(chk, m, n) == not16(csum16_add(csum16_sub(not16(chk), m), n))

(***************************************************************************)
(* The updated checksum is the old one plus m minus n, up to a multiple of *)
(* 65535.                                                                  *)
(***************************************************************************)
LEMMA UpdatedValue ==
  ASSUME NEW chk \in U16, NEW m \in U16, NEW n \in U16
  PROVE  /\ Updated(chk, m, n) \in U16
         /\ \/ Updated(chk, m, n) = chk + m - n - 65535
            \/ Updated(chk, m, n) = chk + m - n
            \/ Updated(chk, m, n) = chk + m - n + 65535
<1> DEFINE p == not16(chk)
           q == not16(m)
           s == csum16_add(p, q)
           t == csum16_add(s, n)
<1>1. /\ chk \in Int /\ 0 <= chk /\ chk <= 65535
      /\ m \in Int /\ 0 <= m /\ m <= 65535
      /\ n \in Int /\ 0 <= n /\ n <= 65535
  BY U16Bounds
<1>2. p = 65535 - chk /\ q = 65535 - m
  BY DEF not16
<1> HIDE DEF p, q
<1>3. p \in U16 /\ q \in U16
  <2>1. /\ p \in Int /\ 0 <= p /\ p <= 65535
        /\ q \in Int /\ 0 <= q /\ q <= 65535
    BY <1>1, <1>2, Z3
  <2> QED
    BY <2>1, BoundsU16
<1>4. s \in U16 /\ (s = p + q \/ s = p + q - 65535)
  BY <1>3, EndAroundCarry
<1> HIDE DEF s
<1>5. t \in U16 /\ (t = s + n \/ t = s + n - 65535)
  BY <1>4, EndAroundCarry
<1>6. Updated(chk, m, n) = 65535 - t
  BY DEF Updated, csum16_sub, not16, p, q, s
<1> HIDE DEF t
<1>7. s \in Int /\ t \in Int /\ 0 <= t /\ t <= 65535
  BY <1>4, <1>5, U16Bounds
<1>8. Updated(chk, m, n) \in U16
  <2>1. 65535 - t \in Int /\ 0 <= 65535 - t /\ 65535 - t <= 65535
    BY <1>7, Z3
  <2> QED
    BY <1>6, <2>1, BoundsU16
<1>9. \/ 65535 - t = chk + m - n - 65535
      \/ 65535 - t = chk + m - n
      \/ 65535 - t = chk + m - n + 65535
  BY <1>1, <1>2, <1>4, <1>5, <1>7, Z3
<1> QED
  BY <1>6, <1>8, <1>9

(***************************************************************************)
(* The header is right after the update exactly if it was before, whatever *)
(* the other words are.  (m and n are not zero: a header that is all zero  *)
(* is never right.)                                                        *)
(***************************************************************************)
THEOREM UpdateKeepsValidity ==
  ASSUME NEW rest \in U16, NEW chk \in U16, NEW m \in U16, NEW n \in U16, m > 0, n > 0
  PROVE  ValidChecksum(rest, n, Updated(chk, m, n)) <=> ValidChecksum(rest, m, chk)
<1> DEFINE u == Updated(chk, m, n)
<1>1. u \in U16 /\ (u = chk + m - n - 65535 \/ u = chk + m - n \/ u = chk + m - n + 65535)
  BY UpdatedValue
<1> HIDE DEF u
<1>2. /\ chk \in Int /\ 0 <= chk /\ chk <= 65535
      /\ m \in Int /\ m <= 65535
      /\ n \in Int /\ n <= 65535
      /\ rest \in Int /\ 0 <= rest /\ rest <= 65535
      /\ u \in Int /\ 0 <= u /\ u <= 65535
  BY <1>1, U16Bounds
<1> DEFINE S == rest + m + chk
           T == rest + n + u
<1>3. S \in Int /\ T \in Int /\ S > 0 /\ T > 0
  BY <1>2, Z3
<1>4. T = S - 65535 \/ T = S \/ T = S + 65535
  BY <1>1, <1>2, Z3
<1> HIDE DEF S, T
<1>5. (S % 65535 = 0) <=> (T % 65535 = 0)
  <2>1. (S - 65535) % 65535 = S % 65535
    BY <1>3, Z3
  <2>2. (S + 65535) % 65535 = S % 65535
    BY <1>3, Z3
  <2> QED
    BY <1>4, <2>1, <2>2
<1>6. S # 0 /\ T # 0
  BY <1>3
<1>7. ValidChecksum(rest, m, chk) <=> S % 65535 = 0
  BY <1>6 DEF ValidChecksum, S
<1>8. ValidChecksum(rest, n, u) <=> T % 65535 = 0
  BY <1>6 DEF ValidChecksum, T
<1> QED
  BY <1>5, <1>7, <1>8 DEF u

-----------------------------------------------------------------------------
(* Bits *)

(***************************************************************************)
(* What each of the sixteen bits counts for.                               *)
(***************************************************************************)
LEMMA BitWeights ==
  /\ 2^0 = 1 /\ 2^1 = 2 /\ 2^2 = 4 /\ 2^3 = 8 /\ 2^4 = 16 /\ 2^5 = 32 /\ 2^6 = 64 /\ 2^7 = 128
  /\ 2^8 = 256 /\ 2^9 = 512 /\ 2^10 = 1024 /\ 2^11 = 2048
  /\ 2^12 = 4096 /\ 2^13 = 8192 /\ 2^14 = 16384 /\ 2^15 = 32768
OBVIOUS

\* h adds up the lowest n bits of p, as the function in Bitwise2 does.
AddsUp(h, p, n) ==
  h = [i \in 0 .. n |-> IF i = 0 THEN 0 ELSE h[i - 1] + 2^(i - 1) * p[i - 1]]

HasSum(p, n) == \E h : AddsUp(h, p, n)

(***************************************************************************)
(* The recursion defines a function: what adds up n bits goes on to the    *)
(* next one.                                                               *)
(***************************************************************************)
LEMMA SumExists ==
  ASSUME NEW p
  PROVE  HasSum(p, 8) /\ HasSum(p, 16)
<1>1. HasSum(p, 0)
  <2>1. AddsUp([i \in 0 .. 0 |-> 0], p, 0)
    BY DEF AddsUp
  <2> QED
    BY <2>1 DEF HasSum
<1>2. ASSUME NEW n \in 0 .. 15, HasSum(p, n)
      PROVE  HasSum(p, n + 1)
  <2>1. PICK h : AddsUp(h, p, n)
    BY <1>2 DEF HasSum
  <2> DEFINE v == h[n] + 2^n * p[n]
             g == [i \in 0 .. n + 1 |-> IF i = n + 1 THEN v ELSE h[i]]
  <2>2. ASSUME NEW i \in 0 .. n
        PROVE  h[i] = IF i = 0 THEN 0 ELSE h[i - 1] + 2^(i - 1) * p[i - 1]
    BY <2>1 DEF AddsUp
  <2>3. g[n + 1] = v /\ \A i \in 0 .. n : g[i] = h[i]
    OBVIOUS
  <2>4. ASSUME NEW i \in 0 .. n + 1
        PROVE  g[i] = IF i = 0 THEN 0 ELSE g[i - 1] + 2^(i - 1) * p[i - 1]
    <3> HIDE DEF g
    <3>1. CASE i = n + 1
      <4>1. i # 0 /\ i - 1 = n /\ n \in 0 .. n
        BY <3>1
      <4> QED
        BY <2>3, <3>1, <4>1, Zenon DEF v
    <3>2. CASE i # n + 1 /\ i # 0
      <4>1. i \in 0 .. n /\ i - 1 \in 0 .. n
        BY <3>2
      <4> QED
        BY <2>2, <2>3, <3>2, <4>1, Zenon
    <3>3. CASE i = 0
      <4>1. i \in 0 .. n
        BY <3>3
      <4> QED
        BY <2>2, <2>3, <3>3, <4>1, Zenon
    <3> QED
      BY <3>1, <3>2, <3>3
  <2>5. g = [i \in 0 .. n + 1 |-> g[i]]
    BY Zenon
  <2> HIDE DEF g
  <2>6. AddsUp(g, p, n + 1)
    BY <2>4, <2>5, Zenon DEF AddsUp
  <2> QED
    BY <2>6 DEF HasSum
<1>3. HasSum(p, 4)
  BY <1>1, <1>2
<1>4. HasSum(p, 8)
  BY <1>2, <1>3
<1>5. HasSum(p, 12)
  BY <1>2, <1>4
<1>6. HasSum(p, 16)
  BY <1>2, <1>5
<1> QED
  BY <1>4, <1>6

-----------------------------------------------------------------------------
(* The pipeline *)

(***************************************************************************)
(* The types of the variables that the programs share: F holds the         *)
(* contents of packets, M those of the map, P says where a CPU may stand.  *)
(* And CpuInv: a CPU that stands anywhere but at the beginning has a       *)
(* packet, and no two have the same one.                                   *)
(***************************************************************************)
PnaTyped(F, M, P) ==
  /\ loc \in [Skbs -> Locs]
  /\ port \in [Skbs -> Nat]
  /\ frame \in [Skbs -> F]
  /\ cb \in [Skbs -> Cb]
  /\ pc \in [Cpus -> P]
  /\ cur \in [Cpus -> Skbs \cup {NoSkb}]
  /\ hdrMd \in [Cpus -> M]
  /\ rcvd \in [Skbs -> F]

CpuInv ==
  /\ \A c \in Cpus : IF pc[c] = "idle" THEN cur[c] = NoSkb
                     ELSE cur[c] \in Skbs /\ loc[cur[c]] = "cpu"
  /\ \A c, d \in Cpus : pc[c] # "idle" /\ pc[d] # "idle" /\ cur[c] = cur[d] => c = d

\* A step leaves a packet alone, or a CPU.
SameSkb(s) ==
  /\ loc'[s] = loc[s] /\ port'[s] = port[s] /\ frame'[s] = frame[s]
  /\ cb'[s] = cb[s] /\ rcvd'[s] = rcvd[s]

SameCpu(c) == pc'[c] = pc[c] /\ cur'[c] = cur[c] /\ hdrMd'[c] = hdrMd[c]

(***************************************************************************)
(* A packet that arrives is at work on no CPU.                             *)
(***************************************************************************)
LEMMA ArriveStep ==
  ASSUME NEW F, NEW M, NEW P, PnaTyped(F, M, P), CpuInv, NEW s \in Skbs, NEW p \in Nat, NEW f \in F,
         Arrive(s, p, f)
  PROVE  /\ PnaTyped(F, M, P)' /\ CpuInv'
         /\ loc[s] = "new" /\ loc'[s] = "ingress" /\ port'[s] = p
         /\ frame'[s] = f /\ rcvd'[s] = f /\ cb'[s] = cb[s]
         /\ \A t \in Skbs : t # s => SameSkb(t)
         /\ \A c \in Cpus : SameCpu(c) /\ (pc[c] # "idle" => cur[c] # s)
<1>1. /\ loc[s] = "new"
      /\ loc' = [loc EXCEPT ![s] = "ingress"]
      /\ port' = [port EXCEPT ![s] = p]
      /\ frame' = [frame EXCEPT ![s] = f]
      /\ rcvd' = [rcvd EXCEPT ![s] = f]
      /\ cb' = cb /\ pc' = pc /\ cur' = cur /\ hdrMd' = hdrMd
  BY DEF Arrive
<1>2. PnaTyped(F, M, P)'
  BY <1>1 DEF PnaTyped, Locs
<1>3. /\ loc'[s] = "ingress" /\ port'[s] = p /\ frame'[s] = f /\ rcvd'[s] = f /\ cb'[s] = cb[s]
      /\ \A t \in Skbs : t # s => SameSkb(t)
  BY <1>1 DEF PnaTyped, SameSkb
<1>4. \A c \in Cpus : SameCpu(c) /\ (pc[c] # "idle" => cur[c] # s)
  BY <1>1 DEF CpuInv, SameCpu
<1>5. CpuInv'
  BY <1>3, <1>4 DEF CpuInv, SameSkb, SameCpu
<1> QED
  BY <1>1, <1>2, <1>3, <1>4, <1>5

(***************************************************************************)
(* A packet that is parsed is dropped at once, or becomes the packet of    *)
(* its CPU, which had none.                                                *)
(***************************************************************************)
LEMMA ParseStep ==
  ASSUME NEW F, NEW M, NEW P, PnaTyped(F, M, P), "main" \in P, CpuInv,
         NEW c \in Cpus, NEW s \in Skbs, NEW r, r.md \in M, TcParseFunc(c, s, r)
  PROVE  /\ PnaTyped(F, M, P)' /\ CpuInv'
         /\ pc[c] = "idle" /\ loc[s] = "ingress"
         /\ port'[s] = port[s] /\ frame'[s] = frame[s] /\ rcvd'[s] = rcvd[s] /\ cb'[s] = cb[s]
         /\ r.ret = TC_ACT_SHOT => loc'[s] = "dropped" /\ pc'[c] = "idle" /\ cur'[c] = cur[c]
         /\ r.ret # TC_ACT_SHOT => /\ loc'[s] = "cpu" /\ pc'[c] = "main"
                                   /\ cur'[c] = s /\ hdrMd'[c] = r.md
         /\ \A t \in Skbs : t # s => SameSkb(t)
         /\ \A d \in Cpus : d # c => SameCpu(d) /\ (pc[d] # "idle" => cur[d] # s)
<1>1. /\ pc[c] = "idle" /\ loc[s] = "ingress"
      /\ hdrMd' = [hdrMd EXCEPT ![c] = r.md]
      /\ port' = port /\ frame' = frame /\ cb' = cb /\ rcvd' = rcvd
  BY DEF TcParseFunc
<1>2. \A d \in Cpus : pc[d] # "idle" => cur[d] # s
  BY <1>1 DEF CpuInv
<1>3. CASE r.ret = TC_ACT_SHOT
  <2>1. loc' = [loc EXCEPT ![s] = "dropped"] /\ pc' = pc /\ cur' = cur
    BY <1>3 DEF TcParseFunc
  <2>2. PnaTyped(F, M, P)'
    BY <1>1, <2>1 DEF PnaTyped, Locs
  <2>3. loc'[s] = "dropped" /\ \A t \in Skbs : t # s => SameSkb(t)
    BY <1>1, <2>1 DEF PnaTyped, SameSkb
  <2>4. \A d \in Cpus : d # c => SameCpu(d)
    BY <1>1, <2>1 DEF PnaTyped, SameCpu
  <2>5. CpuInv'
    BY <1>1, <1>2, <2>1, <2>3 DEF CpuInv, SameSkb
  <2> QED
    BY <1>1, <1>2, <1>3, <2>1, <2>2, <2>3, <2>4, <2>5
<1>4. CASE r.ret # TC_ACT_SHOT
  <2>1. /\ loc' = [loc EXCEPT ![s] = "cpu"]
        /\ pc' = [pc EXCEPT ![c] = "main"]
        /\ cur' = [cur EXCEPT ![c] = s]
    BY <1>4 DEF TcParseFunc
  <2>2. PnaTyped(F, M, P)'
    BY <1>1, <2>1 DEF PnaTyped, Locs
  <2>3. loc'[s] = "cpu" /\ \A t \in Skbs : t # s => SameSkb(t)
    BY <1>1, <2>1 DEF PnaTyped, SameSkb
  <2>4. /\ pc'[c] = "main" /\ cur'[c] = s /\ hdrMd'[c] = r.md
        /\ \A d \in Cpus : d # c => SameCpu(d)
    BY <1>1, <2>1 DEF PnaTyped, SameCpu
  <2>5. CpuInv'
    BY <1>1, <1>2, <2>3, <2>4 DEF CpuInv, SameSkb, SameCpu
  <2> QED
    BY <1>1, <1>2, <1>4, <2>2, <2>3, <2>4, <2>5
<1> QED
  BY <1>3, <1>4

(***************************************************************************)
(* A CPU that is done lets go of its packet and touches no other.          *)
(***************************************************************************)
LEMMA LeaveStep ==
  ASSUME NEW F, NEW M, NEW P, PnaTyped(F, M, P), "idle" \in P, CpuInv, NEW c \in Cpus, pc[c] # "idle",
         NEW l \in {"ingress", "stack", "sent", "dropped"}, NEW f \in F, NEW b \in Cb, NEW md \in M,
         Leave(c, l, f, b, md)
  PROVE  /\ PnaTyped(F, M, P)' /\ CpuInv'
         /\ cur[c] \in Skbs /\ loc[cur[c]] = "cpu"
         /\ loc'[cur[c]] = l /\ frame'[cur[c]] = f /\ cb'[cur[c]] = b
         /\ port'[cur[c]] = port[cur[c]] /\ rcvd'[cur[c]] = rcvd[cur[c]]
         /\ pc'[c] = "idle" /\ cur'[c] = NoSkb
         /\ \A t \in Skbs : t # cur[c] => SameSkb(t)
         /\ \A d \in Cpus : d # c => SameCpu(d) /\ (pc[d] # "idle" => cur[d] # cur[c])
<1> DEFINE q == cur[c]
<1>1. q \in Skbs /\ loc[q] = "cpu" /\ l \in Locs
  BY DEF CpuInv, Locs
<1>2. /\ loc' = [loc EXCEPT ![q] = l]
      /\ frame' = [frame EXCEPT ![q] = f]
      /\ cb' = [cb EXCEPT ![q] = b]
      /\ pc' = [pc EXCEPT ![c] = "idle"]
      /\ cur' = [cur EXCEPT ![c] = NoSkb]
      /\ hdrMd' = [hdrMd EXCEPT ![c] = md]
      /\ port' = port /\ rcvd' = rcvd
  BY DEF Leave
<1>3. PnaTyped(F, M, P)'
  BY <1>1, <1>2 DEF PnaTyped
<1>4. /\ loc'[q] = l /\ frame'[q] = f /\ cb'[q] = b
      /\ port'[q] = port[q] /\ rcvd'[q] = rcvd[q]
      /\ \A t \in Skbs : t # q => SameSkb(t)
  BY <1>1, <1>2 DEF PnaTyped, SameSkb
<1>5. /\ pc'[c] = "idle" /\ cur'[c] = NoSkb
      /\ \A d \in Cpus : d # c => SameCpu(d) /\ (pc[d] # "idle" => cur[d] # q)
  BY <1>2 DEF PnaTyped, CpuInv, SameCpu
<1>6. CpuInv'
  BY <1>4, <1>5 DEF CpuInv, SameSkb, SameCpu
<1> QED
  BY <1>1, <1>3, <1>4, <1>5, <1>6

(***************************************************************************)
(* At the beginning all packets are still to come, and all CPUs idle.      *)
(***************************************************************************)
LEMMA InitStep ==
  ASSUME NEW F, NEW M, NEW P, NEW zero \in F, NEW md \in M, "idle" \in P, PnaInit(zero, md)
  PROVE  /\ PnaTyped(F, M, P) /\ CpuInv
         /\ loc = [s \in Skbs |-> "new"] /\ cb = [s \in Skbs |-> ZeroCb]
         /\ pc = [c \in Cpus |-> "idle"]
<1>1. /\ loc = [s \in Skbs |-> "new"] /\ port = [s \in Skbs |-> 0]
      /\ frame = [s \in Skbs |-> zero] /\ cb = [s \in Skbs |-> ZeroCb]
      /\ pc = [c \in Cpus |-> "idle"] /\ cur = [c \in Cpus |-> NoSkb]
      /\ hdrMd = [c \in Cpus |-> md] /\ rcvd = [s \in Skbs |-> zero]
  BY DEF PnaInit
<1>2. ZeroCb \in Cb
  BY DEF ZeroCb, Cb
<1>3. PnaTyped(F, M, P)
  BY <1>1, <1>2 DEF PnaTyped, Locs
<1>4. CpuInv
  BY <1>1 DEF CpuInv
<1> QED
  BY <1>1, <1>3, <1>4

(***************************************************************************)
(* What the actions of the tables make of the metadata.                    *)
(***************************************************************************)
LEMMA CbTypes ==
  ASSUME NEW b \in Cb, NEW p \in Nat
  PROVE  /\ drop_packet(b) \in Cb /\ drop_packet(b).drop = TRUE
         /\ drop_packet(b).pass_to_kernel = b.pass_to_kernel
         /\ send_to_port(b, p) \in Cb /\ send_to_port(b, p).drop = FALSE
         /\ send_to_port(b, p).egress_port = p /\ send_to_port(b, p).pass_to_kernel = b.pass_to_kernel
BY DEF Cb, drop_packet, send_to_port

(***************************************************************************)
(* A verdict, and where it takes the packet.                               *)
(***************************************************************************)
LEMMA ReturnLeaves ==
  ASSUME NEW c, NEW g, NEW b, NEW md
  PROVE  /\ Return(c, [ret |-> TC_ACT_SHOT, frame |-> g, cb |-> b, md |-> md])
              => Leave(c, "dropped", g, b, md)
         /\ Return(c, [ret |-> Continue, frame |-> g, cb |-> b, md |-> md]) /\ ~b.drop =>
              IF b.egress_port = 0
                THEN Leave(c, "ingress", g, [drop |-> b.drop, egress_port |-> 0, pass_to_kernel |-> TRUE], md)
                ELSE Leave(c, "sent", g, b, md)
<1> DEFINE S == [ret |-> TC_ACT_SHOT, frame |-> g, cb |-> b, md |-> md]
           R == [ret |-> Continue, frame |-> g, cb |-> b, md |-> md]
<1>1. /\ S.ret = TC_ACT_SHOT /\ S.frame = g /\ S.cb = b /\ S.md = md
      /\ R.ret = Continue /\ R.frame = g /\ R.cb = b /\ R.md = md
  OBVIOUS
<1> HIDE DEF S, R
<1>2. Verdict(TC_ACT_SHOT, b) = "dropped" /\ Mark("dropped", b) = b
  <2>1. Verdict(TC_ACT_SHOT, b) = "dropped"
    BY DEF Verdict, TC_ACT_SHOT, Continue
  <2>2. Mark("dropped", b) = b
    BY DEF Mark
  <2> QED
    BY <2>1, <2>2
<1>3. ASSUME ~b.drop, b.egress_port = 0
      PROVE  /\ Verdict(Continue, b) = "ingress"
             /\ Mark("ingress", b) = [drop |-> b.drop, egress_port |-> 0, pass_to_kernel |-> TRUE]
  BY <1>3 DEF Verdict, Mark, TC_ACT_SHOT, Continue
<1>4. ASSUME b.egress_port # 0
      PROVE  Verdict(Continue, b) = "sent" /\ Mark("sent", b) = b
  BY <1>4 DEF Verdict, Mark, TC_ACT_SHOT, Continue
<1>5. Return(c, S) => Leave(c, "dropped", g, b, md)
  BY <1>1, <1>2, Zenon DEF Return
<1>6. Return(c, R) => Leave(c, Verdict(Continue, b), g, Mark(Verdict(Continue, b), b), md)
  BY <1>1, Zenon DEF Return
<1>7. Return(c, R) /\ ~b.drop /\ b.egress_port = 0 =>
        Leave(c, "ingress", g, [drop |-> b.drop, egress_port |-> 0, pass_to_kernel |-> TRUE], md)
  BY <1>3, <1>6, Zenon
<1>8. Return(c, R) /\ b.egress_port # 0 => Leave(c, "sent", g, b, md)
  BY <1>4, <1>6, Zenon
<1> QED
  BY <1>5, <1>7, <1>8, Zenon DEF S, R

-----------------------------------------------------------------------------
(***************************************************************************)
(* The programs that look at Ethernet and IPv4 only (EthIpv4): what their  *)
(* parsers leave in the map for a packet they accept, and what the         *)
(* deparser makes of it.                                                   *)
(***************************************************************************)

\* The types of the variables, but for tables.
IpPnaOK == PnaTyped(IpFrame, IpHdrMd, {"idle", "main", "nh_table"})

-----------------------------------------------------------------------------
(* The map *)

IpEthHdr  == [valid : BOOLEAN, dmac : Nat, smac : Nat, etherType : U16]
IpIpv4Hdr == [valid : BOOLEAN, ttl : Byte, proto : Byte, chk : U16, src : Nat, dst : Nat]

\* The map after the Ethernet header, and after the IPv4 header.
IpEthMd(f)  == ExtractEth(ZeroIpHdrMd, f)
IpIpv4Md(f) == ExtractIpv4(IpEthMd(f), f)

\* What a packet that is accepted leaves in the map, by its length.
IpExtracted(f) ==
  IF f.len < 14 THEN ZeroIpHdrMd ELSE IF f.len < 34 THEN IpEthMd(f) ELSE IpIpv4Md(f)

\* The packets whose Ethernet and IPv4 headers the parsers accept, or find
\* too short for one of them.
IpAccepted(f) == f.len < 14 \/ f.etherType = <<8, 0>>

(***************************************************************************)
(* The fields of a received packet.                                        *)
(***************************************************************************)
LEMMA IpFrameFields ==
  ASSUME NEW f \in IpFrame
  PROVE  /\ f.len \in Nat /\ f.md \in Half \cup {NoMd} /\ f.dmac \in Nat /\ f.smac \in Nat
         /\ f.etherType \in Half /\ f.ttl \in Byte /\ f.proto \in Byte /\ f.chk \in Half
         /\ f.sum \in U16 /\ f.src \in Nat /\ f.dst \in Nat
BY DEF IpFrame

(***************************************************************************)
(* Every step of the parser, and every action of a table, leaves a         *)
(* well-formed struct hdr_md.                                              *)
(***************************************************************************)
LEMMA IpMdTypes ==
  ASSUME NEW f \in IpFrame
  PROVE  /\ ZeroIpHdrMd \in IpHdrMd
         /\ IpEthMd(f) \in IpHdrMd /\ IpIpv4Md(f) \in IpHdrMd /\ IpExtracted(f) \in IpHdrMd
         /\ \A md \in IpHdrMd, a, b \in Nat : WithMacs(md, a, b) \in IpHdrMd
<1>1. IpHdrMd = [eth : IpEthHdr, ip : IpIpv4Hdr, offset : Nat]
  BY DEF IpHdrMd, IpEthHdr, IpIpv4Hdr
<1>2. ZeroIpHdrMd \in IpHdrMd
  BY DEF ZeroIpHdrMd, IpHdrMd, U16, Byte
<1>3. [valid |-> TRUE, dmac |-> f.dmac, smac |-> f.smac, etherType |-> load_half(f.etherType)] \in IpEthHdr
  BY IpFrameFields, HalfBytes DEF IpEthHdr
<1>4. [valid |-> TRUE, ttl |-> f.ttl, proto |-> f.proto, chk |-> load_half(f.chk),
       src |-> f.src, dst |-> f.dst] \in IpIpv4Hdr
  BY IpFrameFields, HalfBytes DEF IpIpv4Hdr
<1>5. IpEthMd(f) \in IpHdrMd
  BY <1>1, <1>2, <1>3 DEF IpEthMd, ExtractEth, EthLen
<1>6. IpIpv4Md(f) \in IpHdrMd
  BY <1>1, <1>4, <1>5 DEF IpIpv4Md, ExtractIpv4, Ipv4Len
<1>7. ASSUME NEW md \in IpHdrMd, NEW a \in Nat, NEW b \in Nat
      PROVE  WithMacs(md, a, b) \in IpHdrMd
  <2>1. [valid |-> md.eth.valid, dmac |-> b, smac |-> a, etherType |-> md.eth.etherType] \in IpEthHdr
    BY <1>1 DEF IpEthHdr
  <2> QED
    BY <1>1, <2>1 DEF WithMacs
<1> QED
  BY <1>2, <1>5, <1>6, <1>7 DEF IpExtracted

(***************************************************************************)
(* An etherType of 0x800 is the bytes 8 and 0.                             *)
(***************************************************************************)
LEMMA EtherTypeBytes ==
  ASSUME NEW b \in Half
  PROVE  (load_half(b) = TYPE_IPV4) <=> (b = <<8, 0>>)
<1>1. b[1] \in Byte /\ b[2] \in Byte /\ b = <<b[1], b[2]>>
  BY HalfBytes
<1>2. ASSUME NEW x \in Byte, NEW y \in Byte
      PROVE  (x * 256 + y = 2048) <=> (x = 8 /\ y = 0)
  BY <1>2 DEF Byte
<1>3. (b = <<8, 0>>) <=> (b[1] = 8 /\ b[2] = 0)
  BY <1>1
<1> QED
  BY <1>1, <1>2, <1>3 DEF load_half, TYPE_IPV4

(***************************************************************************)
(* The fields of the three maps.                                           *)
(***************************************************************************)
LEMMA IpMdFields ==
  ASSUME NEW f \in IpFrame
  PROVE  /\ ZeroIpHdrMd.eth.valid = FALSE /\ ZeroIpHdrMd.ip.valid = FALSE /\ ZeroIpHdrMd.offset = 0
         /\ ZeroIpHdrMd.ip.src = 0 /\ ZeroIpHdrMd.ip.dst = 0 /\ ZeroIpHdrMd.ip.ttl = 0
         /\ IpEthMd(f).eth.valid = TRUE /\ IpEthMd(f).eth.dmac = f.dmac /\ IpEthMd(f).eth.smac = f.smac
         /\ IpEthMd(f).eth.etherType = load_half(f.etherType)
         /\ IpEthMd(f).ip = ZeroIpHdrMd.ip /\ IpEthMd(f).offset = 14
         /\ IpIpv4Md(f).eth = IpEthMd(f).eth /\ IpIpv4Md(f).offset = 34
         /\ IpIpv4Md(f).ip.valid = TRUE /\ IpIpv4Md(f).ip.ttl = f.ttl /\ IpIpv4Md(f).ip.proto = f.proto
         /\ IpIpv4Md(f).ip.chk = load_half(f.chk)
         /\ IpIpv4Md(f).ip.src = f.src /\ IpIpv4Md(f).ip.dst = f.dst
<1>1. /\ ZeroIpHdrMd.eth = [valid |-> FALSE, dmac |-> 0, smac |-> 0, etherType |-> 0]
      /\ ZeroIpHdrMd.ip = [valid |-> FALSE, ttl |-> 0, proto |-> 0, chk |-> 0, src |-> 0, dst |-> 0]
      /\ ZeroIpHdrMd.offset = 0
  BY DEF ZeroIpHdrMd
<1>2. /\ IpEthMd(f).eth = [valid |-> TRUE, dmac |-> f.dmac, smac |-> f.smac,
                         etherType |-> load_half(f.etherType)]
      /\ IpEthMd(f).ip = ZeroIpHdrMd.ip /\ IpEthMd(f).offset = 14
  BY <1>1 DEF IpEthMd, ExtractEth, EthLen
<1>3. /\ IpIpv4Md(f).eth = IpEthMd(f).eth /\ IpIpv4Md(f).offset = 34
      /\ IpIpv4Md(f).ip = [valid |-> TRUE, ttl |-> f.ttl, proto |-> f.proto, chk |-> load_half(f.chk),
                         src |-> f.src, dst |-> f.dst]
  BY <1>2 DEF IpIpv4Md, ExtractIpv4, Ipv4Len
<1> QED
  BY <1>1, <1>2, <1>3

(***************************************************************************)
(* Which of the three the packet leaves.                                   *)
(***************************************************************************)
LEMMA IpWhichMd ==
  ASSUME NEW f \in IpFrame
  PROVE  \/ f.len < 14 /\ f.len < 34 /\ IpExtracted(f) = ZeroIpHdrMd
         \/ ~(f.len < 14) /\ f.len < 34 /\ IpExtracted(f) = IpEthMd(f)
         \/ ~(f.len < 14) /\ ~(f.len < 34) /\ IpExtracted(f) = IpIpv4Md(f)
<1>1. f.len \in Nat
  BY IpFrameFields
<1>2. f.len < 14 => f.len < 34
  BY <1>1
<1> QED
  BY <1>2 DEF IpExtracted

(***************************************************************************)
(* When a parser finds a packet too short for its next header.             *)
(***************************************************************************)
LEMMA IpExtractCases ==
  ASSUME NEW f \in IpFrame
  PROVE  /\ TooShort(f, ZeroIpHdrMd, EthLen) <=> f.len < 14
         /\ TooShort(f, IpEthMd(f), Ipv4Len) <=> f.len < 34
         /\ (load_half(f.etherType) = TYPE_IPV4) <=> (f.etherType = <<8, 0>>)
         /\ HasIpv4Type(f) <=> ~(f.len < 14) /\ f.etherType = <<8, 0>>
         /\ Complete(f) <=> ~(f.len < 34) /\ f.etherType = <<8, 0>>
         /\ \A m : /\ Reject(m, PacketTooShort) = Accept(m)
                   /\ Reject(m, NoError) = [ret |-> TC_ACT_SHOT, md |-> m]
                   /\ Accept(m).ret # TC_ACT_SHOT /\ Accept(m).md = m
<1>1. f.len \in Nat /\ f.etherType \in Half
  BY IpFrameFields
<1>2. /\ TooShort(f, ZeroIpHdrMd, EthLen) <=> f.len < 14
      /\ TooShort(f, IpEthMd(f), Ipv4Len) <=> f.len < 34
  <2>1. ZeroIpHdrMd.offset = 0 /\ IpEthMd(f).offset = 14
    BY IpMdFields
  <2>2. ZeroIpHdrMd.offset + EthLen = 14 /\ IpEthMd(f).offset + Ipv4Len = 34
    BY <2>1 DEF EthLen, Ipv4Len
  <2> QED
    BY <2>2 DEF TooShort
<1>3. /\ HasIpv4Type(f) <=> ~(f.len < 14) /\ f.etherType = <<8, 0>>
      /\ Complete(f) <=> ~(f.len < 34) /\ f.etherType = <<8, 0>>
  BY <1>1 DEF HasIpv4Type, Complete, EthLen, Ipv4Len
<1>4. \A m : /\ Reject(m, PacketTooShort) = Accept(m)
             /\ Reject(m, NoError) = [ret |-> TC_ACT_SHOT, md |-> m]
             /\ Accept(m).ret # TC_ACT_SHOT /\ Accept(m).md = m
  BY DEF Reject, Accept, NoError, PacketTooShort, TC_ACT_SHOT, Continue
<1> QED
  BY <1>1, <1>2, <1>3, <1>4, EtherTypeBytes

-----------------------------------------------------------------------------
(* The deparser *)

(***************************************************************************)
(* The metadata of an XDP program replaces the etherType only.             *)
(***************************************************************************)
LEMMA IpRestored ==
  ASSUME NEW f \in IpFrame
  PROVE  \E e \in Half :
           /\ f.md = NoMd => e = f.etherType
           /\ RestoreEtherType(f) =
                [len |-> f.len, md |-> f.md, dmac |-> f.dmac, smac |-> f.smac, etherType |-> e,
                 ttl |-> f.ttl, proto |-> f.proto, chk |-> f.chk, sum |-> f.sum,
                 src |-> f.src, dst |-> f.dst]
<1>1. f \in [len : Nat, md : Half \cup {NoMd}, dmac : Nat, smac : Nat, etherType : Half,
             ttl : Byte, proto : Byte, chk : Half, sum : U16, src : Nat, dst : Nat]
  BY DEF IpFrame
<1>2. CASE f.md = NoMd
  <2>1. RestoreEtherType(f) = f
    BY <1>2 DEF RestoreEtherType
  <2>2. f.etherType \in Half
    BY <1>1
  <2> WITNESS f.etherType \in Half
  <2> QED
    BY <1>1, <2>1
<1>3. CASE f.md # NoMd
  <2>1. RestoreEtherType(f) = [f EXCEPT !.etherType = f.md]
    BY <1>3 DEF RestoreEtherType
  <2>2. f.md \in Half
    BY <1>1, <1>3
  <2> WITNESS f.md \in Half
  <2> QED
    BY <1>1, <1>3, <2>1
<1> QED
  BY <1>2, <1>3

(***************************************************************************)
(* So the packet the main block works on is as long as the one received.   *)
(***************************************************************************)
LEMMA IpRestoredFrame ==
  ASSUME NEW f \in IpFrame
  PROVE  RestoreEtherType(f) \in IpFrame /\ RestoreEtherType(f).len = f.len
<1>1. PICK e \in Half :
        RestoreEtherType(f) =
          [len |-> f.len, md |-> f.md, dmac |-> f.dmac, smac |-> f.smac, etherType |-> e,
           ttl |-> f.ttl, proto |-> f.proto, chk |-> f.chk, sum |-> f.sum,
           src |-> f.src, dst |-> f.dst]
  BY IpRestored
<1> QED
  BY <1>1, IpFrameFields DEF IpFrame

(***************************************************************************)
(* The headers an accepted packet leaves in the map take as many bytes as  *)
(* were parsed, and the packet has them: the deparser need not make room.  *)
(***************************************************************************)
LEMMA IpOutLength ==
  ASSUME NEW f \in IpFrame, NEW md,
         md.eth.valid = IpExtracted(f).eth.valid, md.ip.valid = IpExtracted(f).ip.valid,
         md.offset = IpExtracted(f).offset
  PROVE  IpHeaderLength(md) = md.offset /\ md.offset \in Nat /\ md.offset <= f.len
<1>1. f.len \in Nat
  BY IpFrameFields
<1>2. CASE f.len < 14
  <2>1. ZeroIpHdrMd.eth.valid = FALSE /\ ZeroIpHdrMd.ip.valid = FALSE /\ ZeroIpHdrMd.offset = 0
    BY IpMdFields
  <2>2. IpExtracted(f) = ZeroIpHdrMd
    BY <1>2, IpWhichMd
  <2> QED
    BY <1>1, <2>1, <2>2 DEF IpHeaderLength
<1>3. CASE ~(f.len < 14) /\ f.len < 34
  <2>1. IpEthMd(f).eth.valid = TRUE /\ IpEthMd(f).ip.valid = FALSE /\ IpEthMd(f).offset = 14
    BY IpMdFields
  <2> QED
    BY <1>1, <1>3, <2>1 DEF IpExtracted, IpHeaderLength, EthLen
<1>4. CASE ~(f.len < 34)
  <2>1. IpIpv4Md(f).eth.valid = TRUE /\ IpIpv4Md(f).ip.valid = TRUE /\ IpIpv4Md(f).offset = 34
    BY IpMdFields
  <2>2. IpExtracted(f) = IpIpv4Md(f)
    BY <1>4, IpWhichMd
  <2> QED
    BY <1>1, <1>4, <2>1, <2>2 DEF IpHeaderLength, EthLen, Ipv4Len
<1> QED
  BY <1>1, <1>2, <1>3, <1>4

(***************************************************************************)
(* What the deparser comes to when it need not make room: the packet is    *)
(* dropped as its metadata say, or written.                                *)
(***************************************************************************)
LEMMA IpDeparsed ==
  ASSUME NEW g, NEW md, NEW b, IpHeaderLength(md) = md.offset, md.offset \in Nat,
         g.len \in Nat, md.offset <= g.len
  PROVE  /\ b.drop => DeparseIp(g, md, b) = {[ret |-> TC_ACT_SHOT, frame |-> g, cb |-> b, md |-> md]}
         /\ ~b.drop => DeparseIp(g, md, b) = {[ret |-> Continue, frame |-> WriteIpHeaders(g, md), cb |-> b, md |-> md]}
<1>1. CASE b.drop
  BY <1>1, Zenon DEF DeparseIp
<1>2. CASE ~b.drop
  <2>1. EmitIp(g, md, b) = [ret |-> Continue, frame |-> WriteIpHeaders(g, md), cb |-> b, md |-> md]
    BY DEF EmitIp
  <2>2. IpHeaderLength(md) - md.offset = 0
    OBVIOUS
  <2>3. adjust_room(g, IpHeaderLength(md) - md.offset) = {[ret |-> Continue, frame |-> g]}
    BY <2>2, Zenon DEF adjust_room
  <2> DEFINE R == [ret |-> Continue, frame |-> g]
             F(r) == IF r.ret = TC_ACT_SHOT
                       THEN [ret |-> TC_ACT_SHOT, frame |-> r.frame, cb |-> b, md |-> md]
                       ELSE EmitIp(r.frame, md, b)
  <2>4. DeparseIp(g, md, b) = {F(r) : r \in {R}}
    BY <1>2, <2>3, Zenon DEF DeparseIp
  <2>5. R.ret # TC_ACT_SHOT /\ R.frame = g
    BY DEF TC_ACT_SHOT, Continue
  <2>6. F(R) = EmitIp(g, md, b)
    <3> HIDE DEF R
    <3> QED
      BY <2>5, Zenon
  <2> HIDE DEF R, F
  <2>7. {F(r) : r \in {R}} = {F(R)}
    OBVIOUS
  <2> QED
    BY <1>2, <2>1, <2>4, <2>6, <2>7
<1> QED
  BY <1>1, <1>2

\* A packet with other MAC addresses, if it has any.
NewMacs(f, smac, dmac) == IF f.len < 14 THEN f ELSE [f EXCEPT !.smac = smac, !.dmac = dmac]

(***************************************************************************)
(* It is a packet still.                                                   *)
(***************************************************************************)
LEMMA NewMacsType ==
  ASSUME NEW f \in IpFrame, NEW smac \in Nat, NEW dmac \in Nat
  PROVE  NewMacs(f, smac, dmac) \in IpFrame
<1> DEFINE F == [len : Nat, md : Half \cup {NoMd}, dmac : Nat, smac : Nat, etherType : Half,
                 ttl : Byte, proto : Byte, chk : Half, sum : U16, src : Nat, dst : Nat]
           h == [f EXCEPT !.smac = smac]
<1>1. f \in F
  BY DEF IpFrame
<1>2. h \in F
  BY <1>1
<1>3. [f EXCEPT !.smac = smac, !.dmac = dmac] = [h EXCEPT !.dmac = dmac]
  OBVIOUS
<1> HIDE DEF h
<1>4. [h EXCEPT !.dmac = dmac] \in F
  BY <1>2
<1> QED
  BY <1>1, <1>3, <1>4, Zenon DEF NewMacs, IpFrame

(***************************************************************************)
(* The deparser writes the headers back as they were received, but for     *)
(* the MAC addresses it is given: an etherType that the metadata of an XDP *)
(* program had replaced is the received one again.                         *)
(***************************************************************************)
LEMMA IpWritten ==
  ASSUME NEW f \in IpFrame, ~MetadataFails(f), NEW smac \in Nat, NEW dmac \in Nat
  PROVE  /\ WriteIpHeaders(RestoreEtherType(f), IpExtracted(f)) = f
         /\ WriteIpHeaders(RestoreEtherType(f), WithMacs(IpExtracted(f), smac, dmac)) = NewMacs(f, smac, dmac)
<1>1. f \in [len : Nat, md : Half \cup {NoMd}, dmac : Nat, smac : Nat, etherType : Half,
             ttl : Byte, proto : Byte, chk : Half, sum : U16, src : Nat, dst : Nat]
  BY DEF IpFrame
<1>2. PICK e \in Half :
        /\ f.md = NoMd => e = f.etherType
        /\ RestoreEtherType(f) =
             [len |-> f.len, md |-> f.md, dmac |-> f.dmac, smac |-> f.smac, etherType |-> e,
              ttl |-> f.ttl, proto |-> f.proto, chk |-> f.chk, sum |-> f.sum,
              src |-> f.src, dst |-> f.dst]
  BY IpRestored
<1>3. f.len < 14 => e = f.etherType
  BY <1>2 DEF MetadataFails
<1> DEFINE g == RestoreEtherType(f)
           W(a, b) ==
             [len |-> f.len, md |-> f.md, dmac |-> b, smac |-> a, etherType |-> f.etherType,
              ttl |-> f.ttl, proto |-> f.proto, chk |-> f.chk, sum |-> f.sum,
              src |-> f.src, dst |-> f.dst]
<1>4. /\ g.len = f.len /\ g.md = f.md /\ g.dmac = f.dmac /\ g.smac = f.smac /\ g.etherType = e
      /\ g.ttl = f.ttl /\ g.proto = f.proto /\ g.chk = f.chk /\ g.sum = f.sum
      /\ g.src = f.src /\ g.dst = f.dst
  BY <1>2
<1>5. emit_half(load_half(f.etherType)) = f.etherType /\ emit_half(load_half(f.chk)) = f.chk
  BY IpFrameFields, FieldRoundTrip
<1> HIDE DEF g
<1>6. ASSUME NEW md, md.eth.valid = IpExtracted(f).eth.valid,
             md.eth.etherType = IpExtracted(f).eth.etherType, md.ip = IpExtracted(f).ip
      PROVE  WriteIpHeaders(g, md) = IF f.len < 14 THEN W(f.smac, f.dmac) ELSE W(md.eth.smac, md.eth.dmac)
  <2>1. CASE f.len < 14
    <3>1. ~md.eth.valid /\ ~md.ip.valid
      BY <1>6, <2>1, IpMdFields DEF IpExtracted
    <3> QED
      BY <1>3, <1>4, <2>1, <3>1 DEF WriteIpHeaders
  <2>2. CASE ~(f.len < 14) /\ f.len < 34
    <3>1. md.eth.valid /\ ~md.ip.valid /\ md.eth.etherType = load_half(f.etherType)
      <4>1. IpExtracted(f) = IpEthMd(f)
        BY <2>2, IpWhichMd
      <4>2. /\ IpEthMd(f).eth.valid = TRUE /\ IpEthMd(f).ip.valid = FALSE
            /\ IpEthMd(f).eth.etherType = load_half(f.etherType)
        BY IpMdFields
      <4> QED
        BY <1>6, <4>1, <4>2
    <3> QED
      BY <1>4, <1>5, <2>2, <3>1 DEF WriteIpHeaders
  <2>3. CASE ~(f.len < 14) /\ ~(f.len < 34)
    <3>1. IpExtracted(f) = IpIpv4Md(f)
      BY <2>3, IpWhichMd
    <3>2. md.ip = IpIpv4Md(f).ip /\ md.eth.valid /\ md.eth.etherType = load_half(f.etherType)
      <4>1. /\ IpIpv4Md(f).eth = IpEthMd(f).eth /\ IpEthMd(f).eth.valid = TRUE
            /\ IpEthMd(f).eth.etherType = load_half(f.etherType)
        BY IpMdFields
      <4> QED
        BY <1>6, <3>1, <4>1
    <3>3. /\ md.ip.valid /\ md.ip.ttl = f.ttl /\ md.ip.proto = f.proto
          /\ md.ip.chk = load_half(f.chk) /\ md.ip.src = f.src /\ md.ip.dst = f.dst
      <4>1. /\ IpIpv4Md(f).ip.valid = TRUE
            /\ IpIpv4Md(f).ip.ttl = f.ttl /\ IpIpv4Md(f).ip.proto = f.proto
            /\ IpIpv4Md(f).ip.chk = load_half(f.chk)
            /\ IpIpv4Md(f).ip.src = f.src /\ IpIpv4Md(f).ip.dst = f.dst
        BY IpMdFields
      <4> QED
        BY <3>2, <4>1
    <3> QED
      BY <1>4, <1>5, <2>3, <3>2, <3>3 DEF WriteIpHeaders
  <2> QED
    BY <2>1, <2>2, <2>3
<1>7. W(f.smac, f.dmac) = f
  BY <1>1
<1>8. W(smac, dmac) = [f EXCEPT !.smac = smac, !.dmac = dmac]
  <2> DEFINE h == [f EXCEPT !.smac = smac]
  <2>1. h = W(smac, f.dmac)
    BY <1>1
  <2>2. h \in [len : Nat, md : Half \cup {NoMd}, dmac : Nat, smac : Nat, etherType : Half,
               ttl : Byte, proto : Byte, chk : Half, sum : U16, src : Nat, dst : Nat]
    BY <1>1
  <2>3. [f EXCEPT !.smac = smac, !.dmac = dmac] = [h EXCEPT !.dmac = dmac]
    OBVIOUS
  <2> HIDE DEF h
  <2>4. [h EXCEPT !.dmac = dmac] = W(smac, dmac)
    BY <2>1, <2>2
  <2> QED
    BY <2>3, <2>4
<1>9. ~(f.len < 14) => IpExtracted(f).eth.smac = f.smac /\ IpExtracted(f).eth.dmac = f.dmac
  <2>1. ~(f.len < 14) => IpExtracted(f) \in {IpEthMd(f), IpIpv4Md(f)}
    BY IpWhichMd
  <2>2. IpEthMd(f).eth.smac = f.smac /\ IpEthMd(f).eth.dmac = f.dmac /\ IpIpv4Md(f).eth = IpEthMd(f).eth
    BY IpMdFields
  <2> QED
    BY <2>1, <2>2
<1>10. WriteIpHeaders(g, IpExtracted(f)) = f
  <2> HIDE DEF W
  <2> QED
    BY <1>6, <1>7, <1>9
<1>11. WriteIpHeaders(g, WithMacs(IpExtracted(f), smac, dmac)) =
         IF f.len < 14 THEN f ELSE [f EXCEPT !.smac = smac, !.dmac = dmac]
  <2> DEFINE md == WithMacs(IpExtracted(f), smac, dmac)
  <2>1. /\ md.eth.valid = IpExtracted(f).eth.valid /\ md.eth.etherType = IpExtracted(f).eth.etherType
        /\ md.ip = IpExtracted(f).ip /\ md.eth.smac = smac /\ md.eth.dmac = dmac
    BY DEF WithMacs
  <2> HIDE DEF md, W
  <2>2. WriteIpHeaders(g, md) = IF f.len < 14 THEN W(f.smac, f.dmac) ELSE W(smac, dmac)
    BY <1>6, <2>1
  <2> QED
    BY <1>7, <1>8, <2>2, Zenon DEF md
<1> QED
  BY <1>10, <1>11, Zenon DEF g, NewMacs

-----------------------------------------------------------------------------
(* The end of tc_ingress_func *)

(***************************************************************************)
(* Where process() and what follows take a packet whose headers the main   *)
(* block has not made fewer or more.                                       *)
(***************************************************************************)
LEMMA IpDeparseLeaves ==
  ASSUME NEW c, NEW f \in IpFrame, NEW md, NEW b,
         md.eth.valid = IpExtracted(f).eth.valid, md.ip.valid = IpExtracted(f).ip.valid,
         md.offset = IpExtracted(f).offset,
         \E r \in DeparseIp(RestoreEtherType(f), md, b) : Return(c, r)
  PROVE  /\ b.drop => Leave(c, "dropped", RestoreEtherType(f), b, md)
         /\ ~b.drop =>
              IF b.egress_port = 0
                THEN Leave(c, "ingress", WriteIpHeaders(RestoreEtherType(f), md),
                           [drop |-> b.drop, egress_port |-> 0, pass_to_kernel |-> TRUE], md)
                ELSE Leave(c, "sent", WriteIpHeaders(RestoreEtherType(f), md), b, md)
<1> DEFINE g == RestoreEtherType(f)
<1>1. IpHeaderLength(md) = md.offset /\ md.offset \in Nat /\ md.offset <= f.len
  BY IpOutLength
<1>2. g.len \in Nat /\ g.len = f.len
  BY IpRestoredFrame, IpFrameFields
<1> HIDE DEF g
<1>3. /\ b.drop => DeparseIp(g, md, b) = {[ret |-> TC_ACT_SHOT, frame |-> g, cb |-> b, md |-> md]}
      /\ ~b.drop => DeparseIp(g, md, b) = {[ret |-> Continue, frame |-> WriteIpHeaders(g, md), cb |-> b, md |-> md]}
  BY <1>1, <1>2, IpDeparsed
<1>4. \E r \in DeparseIp(g, md, b) : Return(c, r)
  BY DEF g
<1>5. b.drop => Return(c, [ret |-> TC_ACT_SHOT, frame |-> g, cb |-> b, md |-> md])
  BY <1>3, <1>4, Zenon
<1>6. ~b.drop => Return(c, [ret |-> Continue, frame |-> WriteIpHeaders(g, md), cb |-> b, md |-> md])
  BY <1>3, <1>4, Zenon
<1> QED
  BY <1>5, <1>6, ReturnLeaves, Zenon DEF g

-----------------------------------------------------------------------------
(* The initial state *)

(***************************************************************************)
(* All packets are still to come, all CPUs idle.                           *)
(***************************************************************************)
LEMMA IpInit ==
  ASSUME PnaInit(NoIpFrame, ZeroIpHdrMd)
  PROVE  /\ IpPnaOK /\ CpuInv
         /\ loc = [s \in Skbs |-> "new"] /\ cb = [s \in Skbs |-> ZeroCb]
         /\ pc = [c \in Cpus |-> "idle"]
<1>1. NoIpFrame \in IpFrame
  <2>1. <<0, 0>> \in Half
    BY DEF Half, Byte
  <2>2. 0 \in Byte /\ 0 \in U16
    BY DEF Byte, U16
  <2> QED
    BY <2>1, <2>2 DEF NoIpFrame, IpFrame, NoMd
<1>2. ZeroIpHdrMd \in IpHdrMd
  BY <1>1, IpMdTypes
<1> QED
  BY <1>1, <1>2, InitStep DEF IpPnaOK
=============================================================================
