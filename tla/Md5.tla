-------------------------------- MODULE Md5 ---------------------------------
(***************************************************************************)
(* common/md5.c: how a message that is appended in pieces is cut into      *)
(* blocks and padded.  md5_process folds a block into the four registers;  *)
(* here they are the blocks themselves, so two messages have one digest    *)
(* only if their blocks are the same.                                      *)
(***************************************************************************)
EXTENDS Integers, Sequences, SequencesExt

CONSTANTS BlockSize,    \* bytes of a block: 64
          WordBytes     \* bytes of md5_word_t: 4

\* 256^(i - 1)
Pow256 == <<1, 256, 65536, 16777216>>

\* 2 to the number of bits of a word, and how many bytes have so many bits.
Word      == 256 * Pow256[WordBytes]
WordBlock == 32 * Pow256[WordBytes]

LengthBytes == 2 * WordBytes

\* Blocks end where the low word of the count of bits overflows.
ASSUME Md5Constants == /\ WordBytes \in 1..4
                       /\ BlockSize \in Nat \ {0} /\ WordBlock % BlockSize = 0

\* md5_init
Md5Init == [count |-> <<0, 0>>, buf |-> [i \in 1..BlockSize |-> 0], abcd |-> <<>>]

\* md5_process
Process(pms, block) == [pms EXCEPT !.abcd = Append(@, block)]

\* The message length, in bits, in two words.
Count(count, nbytes) ==
  LET nbits == (8 * nbytes) % Word
      low   == (count[1] + nbits) % Word
      high  == count[2] + (nbytes \div WordBlock) + (IF low < nbits THEN 1 ELSE 0)
  IN <<low, high % Word>>

\* memcpy into buf
Copied(buf, offset, data) ==
  [i \in DOMAIN buf |-> IF i - offset \in DOMAIN data THEN data[i - offset] ELSE buf[i]]

\* The blocks of a text, one after the other.
Blocks(data) ==
  [k \in 1..(Len(data) \div BlockSize) |-> SubSeq(data, BlockSize * (k - 1) + 1, BlockSize * k)]

\* The loop over full blocks: md5_process with each.
Full(pms, data) == [pms EXCEPT !.abcd = @ \o Blocks(data)]

\* Mutant of Remainder: bytes that do not fill a block are dropped.
RemainderM(pms, data) == pms

\* The bytes behind the last full block wait in buf.
Remainder(pms, data) ==
  [pms EXCEPT !.buf = Copied(@, 0, SubSeq(data, BlockSize * (Len(data) \div BlockSize) + 1, Len(data)))]

\* md5_append
Md5Append(pms, data) ==
  LET offset == (pms.count[1] \div 8) % BlockSize
      copy   == IF offset + Len(data) > BlockSize THEN BlockSize - offset ELSE Len(data)
      counted == [pms EXCEPT !.count = Count(@, Len(data))]
      init   == [counted EXCEPT !.buf = Copied(@, offset, SubSeq(data, 1, copy))]
      rest   == SubSeq(data, copy + 1, Len(data))
  IN CASE data = <<>> -> pms
       [] data # <<>> /\ offset = 0 -> Remainder(Full(counted, data), data)
       [] data # <<>> /\ offset > 0 /\ offset + copy < BlockSize -> init
       [] OTHER -> Remainder(Full(Process(init, init.buf), rest), rest)

\* The padding md5_finish appends: up to LengthBytes before the end of a block.
Padding(pms) ==
  LET n == ((BlockSize - LengthBytes - 1 - (pms.count[1] \div 8)) % BlockSize) + 1
  IN [i \in 1..n |-> IF i = 1 THEN 128 ELSE 0]

\* The bytes of the two words, the lowest of the low one first.
Bytes(count) ==
  [i \in 1..LengthBytes |->
     IF i <= WordBytes THEN (count[1] \div Pow256[i]) % 256
                       ELSE (count[2] \div Pow256[i - WordBytes]) % 256]

\* md5_finish
Md5Finish(pms) == Md5Append(Md5Append(pms, Padding(pms)), Bytes(pms.count)).abcd

\* What RFC 1321 says of a message that is there as a whole: it is padded until only the
\* bytes of its length in bits are missing to a full block.
Reference(message) ==
  LET bits == 8 * Len(message)
      pad  == CHOOSE n \in 1..BlockSize : (Len(message) + n + LengthBytes) % BlockSize = 0
  IN Blocks(message \o [i \in 1..pad |-> IF i = 1 THEN 128 ELSE 0]
                     \o Bytes(<<bits % Word, (bits \div Word) % Word>>))
=============================================================================
