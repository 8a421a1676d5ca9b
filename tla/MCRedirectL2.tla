---------------------------- MODULE MCRedirectL2 ----------------------------
(***************************************************************************)
(* A small instance of RedirectL2.                                         *)
(***************************************************************************)
EXTENDS RedirectL2, MCEthIpv4Frames
=============================================================================
