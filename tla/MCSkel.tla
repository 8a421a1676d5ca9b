------------------------------- MODULE MCSkel -------------------------------
(***************************************************************************)
(* A small instance of Skel: two maps, so that either may be the one that  *)
(* fails, two error numbers, and just enough descriptors that the loader's *)
(* own, the object's and one of another thread use them up.                *)
(***************************************************************************)
EXTENDS Skel

MCErrors == {2, 12}   \* ENOENT, ENOMEM
=============================================================================
