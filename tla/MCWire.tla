------------------------------- MODULE MCWire -------------------------------
(* Wire on a small instance: a MAC of two bytes that depends on every byte *)
(* of the key, their places and number, and the time.                      *)
EXTENDS Wire

MCHmac(key, message) ==
  <<(Len(key) + message[2]) % 256, (NumberOf(key, 7) + message[2]) % 256>>

(* Even and odd lengths, zeros in front, a bad digit in either place of a  *)
(* byte, and the characters std::stoul skips, before a digit or not.       *)
MCSecrets == {<<10, 11, 0, 1>>, <<0, 7>>, <<7>>, <<15, 0, 3>>,
              <<1, NoDigit>>, <<NoDigit, 1>>, <<Blank, 7, Minus, 7>>,
              <<Minus, Blank>>}

MCPrices == {[significand |-> 105, exponent |-> -1],
             [significand |-> 105, exponent |-> 0],
             [significand |-> -3, exponent |-> 2]}
=============================================================================
