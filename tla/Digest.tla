------------------------------- MODULE Digest -------------------------------
(***************************************************************************)
(* Digest.cpp: the hexadecimal secret of the configuration becomes bytes,  *)
(* the HMAC of the key id and the time becomes hexadecimal.  A hexadecimal *)
(* string is a sequence of digits 0..15 and of three kinds of other        *)
(* characters.                                                             *)
(***************************************************************************)
EXTENDS Integers, Sequences

CONSTANT Hmac(_, _)     (* OpenSSL's HMAC: key bytes, message              *)

Blank == 16             (* a blank or a plus: std::stoul skips it ...      *)
Minus == 17             (* ... and this one too, and negates the number    *)
NoDigit == 18           (* any other character                             *)

IsDigit(char) == char \in 0..15

Hexadecimal(hex) == \A i \in DOMAIN hex : IsDigit(hex[i])

(* The two characters of each byte; a string of odd length gets a leading  *)
(* zero.                                                                   *)
Tokens(hex) ==
  LET even == IF Len(hex) % 2 = 1 THEN <<0>> \o hex ELSE hex
  IN  [i \in 1..Len(even) \div 2 |-> <<even[2 * i - 1], even[2 * i]>>]

(* std::stoul throws when a token does not begin with a digit, nor with a  *)
(* character to be skipped before one ...                                  *)
FromHexThrows(hex) ==
  \E i \in DOMAIN Tokens(hex) :
    LET t == Tokens(hex)[i]
    IN  ~IsDigit(t[1]) /\ ~(t[1] \in {Blank, Minus} /\ IsDigit(t[2]))

(* Mutant: the first digit of an odd number of them is a byte's first.     *)
FromHexUnpadded(hex) ==
  [i \in 1..(Len(hex) + 1) \div 2 |->
     16 * hex[2 * i - 1] + (IF 2 * i > Len(hex) THEN 0 ELSE hex[2 * i])]

(* ... and stops at the first character that is none.  The byte is the     *)
(* number modulo 256, a negative one too.                                  *)
FromHex(hex) ==
  [i \in DOMAIN Tokens(hex) |->
     LET t == Tokens(hex)[i]
     IN  CASE t[1] = Blank     -> t[2]
           [] t[1] = Minus     -> (256 - t[2]) % 256
           [] ~IsDigit(t[2])   -> t[1]
           [] OTHER            -> 16 * t[1] + t[2]]

ToHex(bytes) ==
  [i \in 1..2 * Len(bytes) |->
     LET byte == bytes[(i + 1) \div 2]
     IN  IF i % 2 = 1 THEN byte \div 16 ELSE byte % 16]

Calculate(keyId, keySecretHex, ts) ==
  ToHex(Hmac(FromHex(keySecretHex), <<keyId, ts>>))

-----------------------------------------------------------------------------
(* What the two conversions should be: positional notation.  The number    *)
(* that a sequence of digits denotes, and the n digits of a number.        *)

NumberOf(digits, base) ==
  LET value[i \in 0..Len(digits)] ==
        IF i = 0 THEN 0 ELSE base * value[i - 1] + digits[i]
  IN  value[Len(digits)]

DigitsOf(number, n, base) ==
  LET left[k \in Nat] == IF k = 0 THEN number ELSE left[k - 1] \div base
  IN  [i \in 1..n |-> left[n - i] % base]

SecretBytes(hex) ==
  DigitsOf(NumberOf(hex, 16), (Len(hex) + 1) \div 2, 256)

=============================================================================
