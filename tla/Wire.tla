-------------------------------- MODULE Wire --------------------------------
(***************************************************************************)
(* Byte order between the packet and the parsed headers.                   *)
(*                                                                         *)
(* A 16-bit field lies in the packet as two bytes, most significant first; *)
(* the programs run on a little-endian host.  Reading a field (load_half)  *)
(* converts to host order.  Writing one back converts with bpf_htons and   *)
(* then stores the host's bytes in memory order (write_byte of byte 0, 1). *)
(***************************************************************************)
EXTENDS Integers

Byte == 0 .. 255
U16  == 0 .. 65535

\* The two bytes of a 16-bit field, as they lie in the packet.
Half == Byte \X Byte

\* bpf_ntohs(*(u16 *)p).  (A definition preceded by a variant with a defect,
\* as here and in the modules that follow, is the code's; the variant is used
\* nowhere but to show that the properties tell the two apart.)
load_half_signed(b) == (b[1] - IF b[1] > 127 THEN 256 ELSE 0) * 256 + b[2]
load_half(b) == b[1] * 256 + b[2]

\* bpf_htons on a little-endian host: the bytes change places.
htons(v) == (v % 256) * 256 + (v \div 256)

\* The bytes of a u16 of the host, in memory order.
HostBytes(v) == <<v % 256, v \div 256>>

\* Deparsing a 16-bit field: convert, then write the bytes one by one.
emit_half_raw(v) == HostBytes(v)
emit_half(v)     == HostBytes(htons(v))

-----------------------------------------------------------------------------
\* The headers that several programs have, in bytes, and the type of a packet
\* whose Ethernet header is followed by IPv4.
EthLen  == 14
Ipv4Len == 20

TYPE_IPV4 == 2048 \* 0x800
=============================================================================
