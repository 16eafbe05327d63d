------------------------------- MODULE Base64 -------------------------------
(***************************************************************************)
(* common/base64.c.  A byte is a number below 256, a character of the      *)
(* encoded text is one of the 64 characters of the alphabet or "=".        *)
(***************************************************************************)
EXTENDS Integers, Sequences

CONSTANT Symbols        \* what a text is made of

Texts == Seq(Symbols)
Byte  == 0..255

\* b64str
Alphabet ==
  << "A", "B", "C", "D", "E", "F", "G", "H", "I", "J", "K", "L", "M", "N", "O", "P",
     "Q", "R", "S", "T", "U", "V", "W", "X", "Y", "Z", "a", "b", "c", "d", "e", "f",
     "g", "h", "i", "j", "k", "l", "m", "n", "o", "p", "q", "r", "s", "t", "u", "v",
     "w", "x", "y", "z", "0", "1", "2", "3", "4", "5", "6", "7", "8", "9", "+", "/" >>

\* The table b64, for the characters of the alphabet.
B64 == [c \in {Alphabet[i] : i \in 1..64} |-> (CHOOSE i \in 1..64 : Alphabet[i] = c) - 1]

IsBase64(c) == c \in DOMAIN B64

ASSUME Base64Constants == DOMAIN B64 \cup {"="} \subseteq Symbols

\* BASE64_LENGTH
EncodedLength(n) == ((n + 2) \div 3) * 4

\* The four characters of a group of one to three bytes; "in" is padded with zeros.
EncodedGroup(in, inlen) ==
  LET char(v) == Alphabet[(v % 64) + 1] IN
  << char(in[1] \div 4),
     char(in[1] * 16 + (in[2] \div 16)),
     IF inlen >= 2 THEN char(in[2] * 4 + (in[3] \div 64)) ELSE "=",
     IF inlen >= 3 THEN char(in[3]) ELSE "=" >>

\* base64_encode with room for all of it.
Encode(data) ==
  LET byte(i)  == IF i <= Len(data) THEN data[i] ELSE 0
      group(g) == EncodedGroup([i \in 1..3 |-> byte(3 * g + i)], Len(data) - 3 * g)
  IN [k \in 1..EncodedLength(Len(data)) |-> group((k - 1) \div 4)[((k - 1) % 4) + 1]]

\* The bytes of a group that base64_decode accepts: two characters of the alphabet, then
\* two more, or "=" at the end of the text.
DecodedGroup(c) ==
  LET v(i) == B64[c[i]] IN
  << (v(1) * 4 + (v(2) \div 16)) % 256 >>
  \o (IF c[3] = "=" THEN <<>> ELSE << (v(2) * 16 + (v(3) \div 4)) % 256 >>)
  \o (IF c[4] = "=" THEN <<>> ELSE << (v(3) * 64 + v(4)) % 256 >>)

Accepted(c, last) ==
  /\ IsBase64(c[1]) /\ IsBase64(c[2])
  /\ IsBase64(c[3]) \/ (c[3] = "=" /\ c[4] = "=" /\ last)
  /\ IsBase64(c[4]) \/ (c[4] = "=" /\ last)

\* base64_decode_alloc: the bytes if all of the text is accepted.
Decode[text \in Texts] ==
  LET c    == SubSeq(text, 1, 4)
      rest == SubSeq(text, 5, Len(text))
  IN IF text = <<>> THEN [ok |-> TRUE, bytes |-> <<>>]
     ELSE IF Len(text) < 4 THEN [ok |-> FALSE, bytes |-> <<>>]
     ELSE IF ~ Accepted(c, rest = <<>>) THEN [ok |-> FALSE, bytes |-> <<>>]
     ELSE [ok |-> Decode[rest].ok, bytes |-> DecodedGroup(c) \o Decode[rest].bytes]
=============================================================================
