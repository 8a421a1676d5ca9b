----------------------------- MODULE MCSimpleL3 -----------------------------
(***************************************************************************)
(* A small instance of SimpleL3.                                           *)
(***************************************************************************)
EXTENDS SimpleL3, MCEthIpv4Frames

MCEntries == MCNextHops \cup {DropEntry}
=============================================================================
