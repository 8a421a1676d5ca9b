------------------------------- MODULE MCCrc --------------------------------
(***************************************************************************)
(* Messages for Crc: a ramp of nine bytes from each byte value, which      *)
(* between them look up every word of every table, and messages of fields  *)
(* of 0 to 17 bytes in various orders.                                     *)
(***************************************************************************)
EXTENDS Crc

Ramp(from, n) == [i \in 1 .. n |-> (from + 31 * i) % 256]

\* "123456789", whose checks are published.
Digits == [i \in 1 .. 9 |-> 48 + i]

\* The reference gives the published values.
ASSUME KnownAnswers ==
  /\ CrcOf(<<65535, 65535>>, Poly32, Digits) = <<65535 - \hcbf4, 65535 - \h3926>>
  /\ CrcOf(<<0, 0>>, <<0, \ha001>>, Digits) = <<0, \hbb3d>>

MCMessages ==
  {<<Digits>>, <<Ramp(7, 8)>>, <<Ramp(200, 7), Ramp(3, 1)>>, <<Ramp(0, 6), Ramp(90, 6), Ramp(1, 2)>>,
   <<Ramp(11, 16), Ramp(12, 16), Ramp(5, 1), Ramp(6, 4)>>, <<Ramp(255, 17), <<>>, Ramp(4, 8)>>}

MCInputs ==
  {[alg |-> "crc32", poly |-> Poly32, seed |-> <<65535, 65535>>, msg |-> <<Ramp(b, 9)>>] : b \in Byte}
    \cup {[alg |-> "crc32", poly |-> Poly32, seed |-> s, msg |-> m] :
            s \in {<<0, 0>>, <<65535, 65535>>, <<4660, 22136>>}, m \in MCMessages}
    \cup {[alg |-> "crc16", poly |-> p, seed |-> s, msg |-> m] :
            p \in {\ha001, \h8408}, s \in {0, 65535}, m \in MCMessages}
=============================================================================
