----------------------------- MODULE NmeaAscii ------------------------------
(***************************************************************************)
(* The bytes of the stream as the C code computes with them, for the       *)
(* modules that model-check NmeaTail and what is built on it: ASCII codes, *)
(* XOR on a signed char, and strtol on two characters in base 16.          *)
(***************************************************************************)
EXTENDS Integers
LOCAL INSTANCE Bitwise

\* A char above 127 is negative (simulator and other x86 builds).
SignedChar(x) == IF x >= 128 THEN x - 256 ELSE x

\* int ^ (int)char: both sign-extended from 8 bits, so is the result.
XorChar(acc, c) ==
  [x, y \in 0..255 |-> SignedChar(x ^^ y)][acc % 256, c % 256]

IsHexDigit(c) == c \in 48..57 \/ c \in 65..70 \/ c \in 97..102

HexDigit(c) ==
  CASE c \in 48..57  -> c - 48
    [] c \in 65..70  -> c - 55
    [] c \in 97..102 -> c - 87

\* strtol(s, &end, 16): leading white space, a sign, then the hexadecimal
\* digits up to the first other character; 0 when there is none.
StrToHex(h, l) ==
  CASE IsHexDigit(h) /\ IsHexDigit(l)  -> 16 * HexDigit(h) + HexDigit(l)
    [] IsHexDigit(h) /\ ~IsHexDigit(l) -> HexDigit(h)
    [] h = 45 /\ IsHexDigit(l)         -> -HexDigit(l)
    [] h \in {43, 32} \cup 9..13 /\ IsHexDigit(l) -> HexDigit(l)
    [] OTHER                           -> 0
=============================================================================
