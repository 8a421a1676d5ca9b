------------------------------ MODULE MCHeaders -----------------------------
(***************************************************************************)
(* The two headers that the programs share, on the instances of MCSkel and *)
(* MCCrc.  They have nothing to do with each other: a behaviour is one of  *)
(* skel_internal.h or one of crc32.h, and the other header stands still.   *)
(***************************************************************************)
EXTENDS MCSkel, MCCrc

VARIABLE header  \* which of the two

headers == <<vars, crcvars, header>>

HeadersInit ==
  /\ Init /\ CrcInit
  /\ \/ header = "skel" /\ in = CHOOSE x \in Inputs : TRUE
     \/ header = "crc" /\ ~kernel /\ owner = [fd \in Fds |-> "none"]

HeadersNext ==
  \/ header = "skel" /\ Next /\ UNCHANGED <<crcvars, header>>
  \/ header = "crc" /\ CrcNext /\ UNCHANGED <<vars, header>>

HeadersSpec == HeadersInit /\ [][HeadersNext]_headers
=============================================================================
