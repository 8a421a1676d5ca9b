------------------------------- MODULE MCCalc -------------------------------
(***************************************************************************)
(* A small instance of Calc: each operation on operands whose carries,     *)
(* borrows and bits meet in every byte, headers that are wrong in one      *)
(* byte, packets cut just short of either header, XDP metadata in front.   *)
(***************************************************************************)
EXTENDS Calc, TLC

Request(len, op, a, b) ==
  [len |-> len, md |-> NoMd, dmac |-> <<2, 0, 0, 0, 0, 9>>, smac |-> <<6, 5, 4, 3, 2, 1>>,
   etherType |-> <<18, 52>>, p |-> 80, four |-> 52, ver |-> 1, op |-> op,
   a |-> a, b |-> b, res |-> <<222, 173, 190, 239>>]

One  == <<0, 0, 0, 1>>
Ones == <<255, 255, 255, 255>>
Plus == Request(30, 43, <<0, 255, 255, 255>>, One)

MCFrames ==
  {Plus, Request(60, 43, Ones, One), Request(30, 43, <<127, 200, 255, 128>>, <<129, 55, 0, 128>>),
   Request(30, 45, <<0, 0, 0, 0>>, One), Request(30, 45, <<1, 0, 0, 0>>, <<0, 0, 0, 255>>),
   Request(30, 38, <<240, 15, 170, 255>>, <<60, 60, 85, 129>>),
   Request(30, 124, <<240, 15, 170, 0>>, <<60, 60, 85, 129>>),
   Request(30, 94, <<240, 15, 170, 255>>, <<60, 60, 170, 129>>),
   Request(30, 42, One, One), Request(29, 43, One, One), Request(13, 43, One, One),
   [Plus EXCEPT !.p = 52, !.four = 80], [Plus EXCEPT !.ver = 2], [Plus EXCEPT !.etherType = <<134, 221>>],
   [Plus EXCEPT !.md = <<8, 0>>], [Request(13, 43, One, One) EXCEPT !.md = <<18, 52>>]}

MCSymmetry == Permutations(Cpus) \cup Permutations(Skbs)
=============================================================================
