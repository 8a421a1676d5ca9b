-------------------------- MODULE InternetChecksum --------------------------
(***************************************************************************)
(* The InternetChecksum extern: one's complement arithmetic on 16 bits, as *)
(* the generated headers define it, and what it means for an IPv4 header   *)
(* to carry a right checksum.                                              *)
(***************************************************************************)
EXTENDS Wire

\* ~v of a u16.
not16(v) == 65535 - v

\* The sum wraps at 16 bits, and a carry is added back in.
csum16_add_no_carry(csum, addend) == (csum + addend) % 65536
csum16_add(csum, addend) ==
  LET res == (csum + addend) % 65536
  IN res + IF res < addend THEN 1 ELSE 0

csum16_sub(csum, addend) == csum16_add(csum, not16(addend))

(***************************************************************************)
(* A header is right when the one's complement sum of its words is all     *)
(* ones.  rest is the sum of the words but two: w, which a program         *)
(* changes, and the checksum itself.                                       *)
(***************************************************************************)
ValidChecksum(rest, w, chk) ==
  LET sum == rest + w + chk
  IN sum # 0 /\ sum % 65535 = 0
=============================================================================
