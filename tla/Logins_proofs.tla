---------------------------- MODULE Logins_proofs ----------------------------
(***************************************************************************)
(* Theorems about Logins, and the lemmas about Http and Md5 they rest on,  *)
(* for every value of the constants.                                       *)
(*                                                                         *)
(* The digest:  md5_append, in however many pieces, and md5_finish fold    *)
(* the blocks of the padded message, and two messages with the same blocks *)
(* are the same.                                                           *)
(*                                                                         *)
(* The head:  each line, and then the whole head, is read back as the      *)
(* method, the URI and the headers the client wrote.                       *)
(*                                                                         *)
(* The form:  a spelled value is decoded to itself; a variable added to a  *)
(* form is found there, and the ones before it are found as before.        *)
(*                                                                         *)
(* The induction:  the forms hold what the client wrote; what was sent,    *)
(* read and answered are functions of them.                                *)
(*                                                                         *)
(* Texts are joined with Cat, and what is said of them has names of its    *)
(* own: the provers reason about these without the characters.             *)
(***************************************************************************)
EXTENDS Logins, Recursion, SequenceTheorems, TLAPS

(***************************************************************************)
(* Numbers, and the count of bits in two words.                            *)
(***************************************************************************)
\* Two multiples closer to each other than that are the same.
LEMMA SameMultiple ==
  ASSUME NEW n \in Nat \ {0}, NEW a \in Int, NEW b \in Int, a % n = 0, b % n = 0,
         a - b < n, b - a < n
  PROVE  a = b
<1> DEFINE j == a \div n
           k == b \div n
<1>1. j \in Int /\ k \in Int /\ a = n * j + (a % n) /\ b = n * k + (b % n)
  BY DivMod
<1> HIDE DEF j, k
<1>2. a = n * j /\ b = n * k
  <2>1. n * j \in Int /\ n * k \in Int
    BY <1>1
  <2> QED BY <1>1, <2>1
<1>3. ~ (j < k)
  <2> SUFFICES ASSUME j < k PROVE FALSE
    OBVIOUS
  <2>1. n * j + n <= n * k
    BY <1>1, Multiples
  <2> QED BY <1>2, <2>1
<1>4. ~ (k < j)
  <2> SUFFICES ASSUME k < j PROVE FALSE
    OBVIOUS
  <2>1. n * k + n <= n * j
    BY <1>1, Multiples
  <2> QED BY <1>2, <2>1
<1>5. j = k
  BY <1>1, <1>3, <1>4
<1> QED BY <1>2, <1>5

\* The sizes of a word.
LEMMA Words ==
  /\ WordBytes \in 1..4
  /\ Word \in {256, 65536, 16777216, 4294967296} /\ WordBlock = Word \div 8
  /\ Word = 8 * WordBlock /\ WordBlock \in Nat \ {0}
  /\ LengthBytes = 2 * WordBytes /\ LengthBytes \in 2..8
<1>1. WordBytes \in 1..4
  BY Md5Constants
<1>2. /\ Pow256[1] = 1 /\ Pow256[2] = 256 /\ Pow256[3] = 65536 /\ Pow256[4] = 16777216
  BY DEF Pow256
<1>3. WordBytes = 1 \/ WordBytes = 2 \/ WordBytes = 3 \/ WordBytes = 4
  BY <1>1
<1>4. Word \in {256, 65536, 16777216, 4294967296} /\ WordBlock = Word \div 8
      /\ Word = 8 * WordBlock /\ WordBlock \in Nat \ {0}
  <2>1. \/ Word = 256 * 1 /\ WordBlock = 32 * 1
        \/ Word = 256 * 256 /\ WordBlock = 32 * 256
        \/ Word = 256 * 65536 /\ WordBlock = 32 * 65536
        \/ Word = 256 * 16777216 /\ WordBlock = 32 * 16777216
    BY <1>2, <1>3 DEF Word, WordBlock
  <2>2. CASE Word = 256 * 1 /\ WordBlock = 32 * 1
    BY <2>2
  <2>3. CASE Word = 256 * 256 /\ WordBlock = 32 * 256
    BY <2>3
  <2>4. CASE Word = 256 * 65536 /\ WordBlock = 32 * 65536
    BY <2>4
  <2>5. CASE Word = 256 * 16777216 /\ WordBlock = 32 * 16777216
    BY <2>5
  <2> QED BY <2>1, <2>2, <2>3, <2>4, <2>5
<1> QED BY <1>1, <1>3, <1>4 DEF LengthBytes

\* The two words of the count of the bits of n bytes.
CountOf(n) == <<(8 * n) % Word, ((8 * n) \div Word) % Word>>

\* md5_append adds them up, carry and all.
LEMMA CountAdds ==
  ASSUME NEW n \in Nat, NEW k \in Nat
  PROVE  Count(CountOf(n), k) = CountOf(n + k)
<1> DEFINE low  == (((8 * n) % Word) + ((8 * k) % Word)) % Word
           high == (((8 * n) \div Word) % Word) + (k \div (Word \div 8))
                   + (IF low < ((8 * k) % Word) THEN 1 ELSE 0)
<1>1. Count(CountOf(n), k) = <<low, high % Word>>
  BY Words DEF Count, CountOf
<1>2. low = (8 * (n + k)) % Word /\ high % Word = ((8 * (n + k)) \div Word) % Word
  <2>1. CASE Word = 256
    BY <2>1
  <2>2. CASE Word = 65536
    BY <2>2
  <2>3. CASE Word = 16777216
    BY <2>3
  <2>4. CASE Word = 4294967296
    BY <2>4
  <2> QED BY <2>1, <2>2, <2>3, <2>4, Words
<1> HIDE DEF low, high
<1> QED BY <1>1, <1>2 DEF CountOf

\* The low word says where in a block the text ends.
LEMMA OffsetIs ==
  ASSUME NEW n \in Nat
  PROVE  /\ CountOf(n)[1] \div 8 \in Nat
         /\ \E c \in Int : CountOf(n)[1] \div 8 = n + BlockSize * c
<1>1. CountOf(n)[1] \div 8 = n % WordBlock
  <2>1. CASE Word = 256
    BY <2>1, Words DEF CountOf
  <2>2. CASE Word = 65536
    BY <2>2, Words DEF CountOf
  <2>3. CASE Word = 16777216
    BY <2>3, Words DEF CountOf
  <2>4. CASE Word = 4294967296
    BY <2>4, Words DEF CountOf
  <2> QED BY <2>1, <2>2, <2>3, <2>4, Words
<1>2. n = WordBlock * (n \div WordBlock) + (n % WordBlock) /\ n \div WordBlock \in Int
      /\ (n % WordBlock) \in Nat
  <2>1. WordBlock \in Nat \ {0} /\ n \in Int
    BY Words
  <2>2. /\ n \div WordBlock \in Int /\ (n % WordBlock) \in 0..(WordBlock - 1)
        /\ n = WordBlock * (n \div WordBlock) + (n % WordBlock)
    BY <2>1, DivMod
  <2> QED BY <2>1, <2>2
<1>3. WordBlock = BlockSize * (WordBlock \div BlockSize) /\ WordBlock \div BlockSize \in Int
  <2>1. WordBlock = BlockSize * (WordBlock \div BlockSize) + (WordBlock % BlockSize)
        /\ WordBlock \div BlockSize \in Int
    BY DivMod, Words, Md5Constants
  <2> QED BY <2>1, Md5Constants, Words
<1> DEFINE x == WordBlock \div BlockSize
           y == n \div WordBlock
<1>4. x \in Int /\ y \in Int /\ -(x * y) \in Int
  BY <1>2, <1>3
<1>5. WordBlock * y = BlockSize * (x * y)
  <2> HIDE DEF y
  <2>1. WordBlock = BlockSize * x
    BY <1>3
  <2> HIDE DEF x
  <2>2. (BlockSize * x) * y = BlockSize * (x * y)
    BY <1>4, Md5Constants
  <2> QED BY <2>1, <2>2
<1>6. n % WordBlock = n + BlockSize * (-(x * y))
  <2> HIDE DEF x, y
  <2>1. BlockSize * (-(x * y)) = -(BlockSize * (x * y)) /\ BlockSize * (x * y) \in Int
    BY <1>4, Md5Constants
  <2>2. n = WordBlock * y + (n % WordBlock)
    BY <1>2 DEF y
  <2> QED BY <1>2, <1>5, <2>1, <2>2
<1> HIDE DEF x, y
<1> QED BY <1>1, <1>2, <1>4, <1>6

(***************************************************************************)
(* Blocks.                                                                 *)
(***************************************************************************)
\* A slice inside a text.
LEMMA SliceIs ==
  ASSUME NEW S, NEW s \in Seq(S), NEW a \in Int, NEW b \in Int, 1 <= a, b <= Len(s)
  PROVE  /\ SubSeq(s, a, b) \in Seq(S)
         /\ Len(SubSeq(s, a, b)) = (IF a <= b THEN b - a + 1 ELSE 0)
         /\ \A i \in 1..(b - a + 1) : SubSeq(s, a, b)[i] = s[a + i - 1]
<1>1. \A i \in a..b : s[i] \in S
  OBVIOUS
<1> QED BY <1>1, SubSeqProperties

\* Two slices are the same if their elements are.
LEMMA SameSlice ==
  ASSUME NEW S, NEW s \in Seq(S), NEW t \in Seq(S), NEW a \in Int, NEW b \in Int, NEW c \in Int,
         1 <= a, b <= Len(s), 1 <= a - c, b - c <= Len(t),
         \A i \in a..b : s[i] = t[i - c]
  PROVE  SubSeq(s, a, b) = SubSeq(t, a - c, b - c)
<1> DEFINE u == SubSeq(s, a, b)
           v == SubSeq(t, a - c, b - c)
<1>1. /\ u \in Seq(S) /\ Len(u) = (IF a <= b THEN b - a + 1 ELSE 0)
      /\ \A i \in 1..(b - a + 1) : u[i] = s[a + i - 1]
  BY SliceIs
<1>2. /\ v \in Seq(S) /\ Len(v) = (IF a <= b THEN b - a + 1 ELSE 0)
      /\ \A i \in 1..(b - a + 1) : v[i] = t[(a - c) + i - 1]
  <2> DEFINE d == a - c
             e == b - c
  <2>1. d \in Int /\ e \in Int /\ e - d + 1 = b - a + 1 /\ (d <= e <=> a <= b)
    OBVIOUS
  <2>2. 1 <= d /\ e <= Len(t) /\ v = SubSeq(t, d, e)
    OBVIOUS
  <2> HIDE DEF d, e, v
  <2>3. /\ v \in Seq(S) /\ Len(v) = (IF d <= e THEN e - d + 1 ELSE 0)
        /\ \A i \in 1..(e - d + 1) : v[i] = t[d + i - 1]
    BY <2>1, <2>2, SliceIs
  <2> QED BY <2>1, <2>3 DEF d
<1> HIDE DEF u, v
<1>3. ASSUME NEW i \in 1..Len(u) PROVE u[i] = v[i]
  <2>1. i \in 1..(b - a + 1) /\ a + i - 1 \in a..b /\ (a + i - 1) - c = (a - c) + i - 1
    BY <1>1
  <2> QED BY <1>1, <1>2, <2>1
<1>4. u = v
  BY <1>1, <1>2, <1>3, SeqEqual
<1> QED BY <1>4 DEF u, v

\* How many blocks a text has, and where they are.
LEMMA BlocksOf ==
  ASSUME NEW S, NEW m \in Seq(S)
  PROVE  /\ Len(m) \div BlockSize \in Nat /\ (Len(m) % BlockSize) \in 0..(BlockSize - 1)
         /\ BlockSize * (Len(m) \div BlockSize) \in Nat
         /\ Len(m) = BlockSize * (Len(m) \div BlockSize) + (Len(m) % BlockSize)
         /\ Blocks(m) \in Seq(Seq(S)) /\ Len(Blocks(m)) = Len(m) \div BlockSize
         /\ \A k \in 1..(Len(m) \div BlockSize) :
              /\ BlockSize * (k - 1) \in Nat /\ BlockSize * k = BlockSize * (k - 1) + BlockSize
              /\ BlockSize * k \in Nat
              /\ BlockSize * k <= BlockSize * (Len(m) \div BlockSize) /\ BlockSize * k <= Len(m)
              /\ Blocks(m)[k] = SubSeq(m, BlockSize * (k - 1) + 1, BlockSize * k)
              /\ Blocks(m)[k] \in Seq(S) /\ Len(Blocks(m)[k]) = BlockSize
<1>0. BlockSize \in Nat \ {0}
  BY Md5Constants
<1> DEFINE q == Len(m) \div BlockSize
<1>1. /\ q \in Nat /\ (Len(m) % BlockSize) \in 0..(BlockSize - 1)
      /\ Len(m) = BlockSize * q + (Len(m) % BlockSize)
  <2>1. Len(m) \in Nat
    OBVIOUS
  <2> DEFINE n == Len(m)
  <2>2. /\ n \div BlockSize \in Int /\ (n % BlockSize) \in 0..(BlockSize - 1)
        /\ n = BlockSize * (n \div BlockSize) + (n % BlockSize)
        /\ n >= 0 => n \div BlockSize >= 0
    <3> HIDE DEF n
    <3>1. n \in Int
      BY <2>1 DEF n
    <3> QED BY <1>0, <3>1, DivMod
  <2> QED BY <2>1, <2>2
<1> HIDE DEF q
<1>2. BlockSize * q \in Nat
  BY <1>0, <1>1
<1>3. ASSUME NEW k \in 1..q
      PROVE  /\ BlockSize * (k - 1) \in Nat /\ BlockSize * k = BlockSize * (k - 1) + BlockSize
             /\ BlockSize * k \in Nat
             /\ BlockSize * k <= BlockSize * q /\ BlockSize * k <= Len(m)
             /\ SubSeq(m, BlockSize * (k - 1) + 1, BlockSize * k) \in Seq(S)
             /\ Len(SubSeq(m, BlockSize * (k - 1) + 1, BlockSize * k)) = BlockSize
  <2>1. k - 1 \in Nat /\ k \in Nat /\ k - 1 < q /\ (k - 1) + 1 = k
    BY <1>1
  <2>2. BlockSize * (k - 1) \in Nat /\ BlockSize * k = BlockSize * (k - 1) + BlockSize
        /\ BlockSize * k \in Nat /\ BlockSize * k <= BlockSize * q
    BY <1>0, <1>1, <2>1, Multiples
  <2>3. BlockSize * k <= Len(m)
    BY <1>0, <1>1, <1>2, <2>2
  <2> DEFINE a == BlockSize * (k - 1)
             b == BlockSize * k
  <2>4. a \in Nat /\ b \in Nat /\ b = a + BlockSize /\ b <= Len(m)
    BY <2>2, <2>3
  <2> HIDE DEF a, b
  <2>5. \A i \in (a + 1)..b : m[i] \in S
    BY <2>4
  <2>6. /\ SubSeq(m, a + 1, b) \in Seq(S)
        /\ Len(SubSeq(m, a + 1, b)) = IF a + 1 <= b THEN b - (a + 1) + 1 ELSE 0
    BY <2>4, <2>5, SubSeqProperties
  <2>7. Len(SubSeq(m, a + 1, b)) = BlockSize
    BY <1>0, <2>4, <2>6
  <2> QED BY <2>2, <2>3, <2>6, <2>7 DEF a, b
<1>4. Blocks(m) = [k \in 1..q |-> SubSeq(m, BlockSize * (k - 1) + 1, BlockSize * k)]
  BY DEF Blocks, q
<1>5. Blocks(m) \in Seq(Seq(S)) /\ Len(Blocks(m)) = q
  BY <1>1, <1>3, <1>4
<1>6. \A k \in 1..q : Blocks(m)[k] = SubSeq(m, BlockSize * (k - 1) + 1, BlockSize * k)
  BY <1>4
<1> QED BY <1>1, <1>2, <1>3, <1>5, <1>6 DEF q

\* Behind full blocks a text goes on with blocks of its own.
LEMMA BlocksConcat ==
  ASSUME NEW S, NEW m \in Seq(S), NEW data \in Seq(S), (Len(m) % BlockSize) = 0
  PROVE  LET n == Len(m) \div BlockSize IN
         /\ Blocks(m \o data) = Blocks(m) \o Blocks(data)
         /\ Len(m \o data) \div BlockSize = n + (Len(data) \div BlockSize)
         /\ Len(m \o data) % BlockSize = Len(data) % BlockSize
         /\ BlockSize * (n + (Len(data) \div BlockSize))
              = Len(m) + BlockSize * (Len(data) \div BlockSize)
<1> DEFINE all == m \o data
           p == Len(m) \div BlockSize
           q == Len(data) \div BlockSize
<1>0. BlockSize \in Nat \ {0}
  BY Md5Constants
<1>1. /\ all \in Seq(S) /\ Len(all) = Len(m) + Len(data)
      /\ \A i \in 1..Len(all) : all[i] = IF i <= Len(m) THEN m[i] ELSE data[i - Len(m)]
  BY ConcatProperties
<1>2. p \in Nat /\ q \in Nat /\ Len(m) = BlockSize * p
      /\ Len(data) = BlockSize * q + (Len(data) % BlockSize)
      /\ (Len(data) % BlockSize) \in 0..(BlockSize - 1)
  BY <1>0, BlocksOf
<1>3. BlockSize * (p + q) = BlockSize * p + BlockSize * q /\ BlockSize * q \in Nat
  BY <1>0, <1>2
<1> DEFINE r == Len(data) % BlockSize
<1> HIDE DEF p, q, all
<1>4. Len(all) = BlockSize * (p + q) + r
  <2>1. /\ Len(all) = Len(m) + Len(data) /\ Len(m) = BlockSize * p /\ Len(data) = BlockSize * q + r
        /\ r \in Int /\ BlockSize * p \in Int /\ BlockSize * q \in Int
        /\ BlockSize * (p + q) = BlockSize * p + BlockSize * q
    BY <1>0, <1>1, <1>2, <1>3
  <2> HIDE DEF r
  <2> QED BY <2>1
<1>5. Len(all) \div BlockSize = p + q /\ Len(all) % BlockSize = Len(data) % BlockSize
  <2>1. p + q \in Int /\ r \in 0..(BlockSize - 1)
    BY <1>2
  <2> HIDE DEF r
  <2>2. (BlockSize * (p + q) + r) \div BlockSize = p + q /\ (BlockSize * (p + q) + r) % BlockSize = r
    BY <1>0, <2>1, DivUnique
  <2>3. Len(all) \div BlockSize = p + q /\ Len(all) % BlockSize = r
    BY <1>4, <2>2
  <2> QED BY <2>3 DEF r
<1> HIDE DEF r
<1>6. /\ Blocks(all) \in Seq(Seq(S)) /\ Len(Blocks(all)) = p + q
      /\ Blocks(m) \in Seq(Seq(S)) /\ Len(Blocks(m)) = p
      /\ Blocks(data) \in Seq(Seq(S)) /\ Len(Blocks(data)) = q
  <2>1. Blocks(all) \in Seq(Seq(S)) /\ Len(Blocks(all)) = Len(all) \div BlockSize
    BY <1>1, BlocksOf
  <2> QED BY <1>5, <2>1, BlocksOf DEF p, q
<1>7. /\ Blocks(m) \o Blocks(data) \in Seq(Seq(S))
      /\ Len(Blocks(m) \o Blocks(data)) = p + q
      /\ \A k \in 1..(p + q) : (Blocks(m) \o Blocks(data))[k]
           = IF k <= p THEN Blocks(m)[k] ELSE Blocks(data)[k - p]
  BY <1>6, ConcatProperties
<1>8. ASSUME NEW k \in 1..(p + q)
      PROVE  Blocks(all)[k] = (Blocks(m) \o Blocks(data))[k]
  <2>1. /\ BlockSize * (k - 1) \in Nat /\ BlockSize * k = BlockSize * (k - 1) + BlockSize
        /\ BlockSize * k \in Nat /\ BlockSize * k <= Len(all)
        /\ Blocks(all)[k] = SubSeq(all, BlockSize * (k - 1) + 1, BlockSize * k)
    <3>1. k \in 1..(Len(all) \div BlockSize)
      BY <1>5
    <3> QED BY <1>1, <3>1, BlocksOf, ZenonT(60)
  <2> DEFINE a == BlockSize * (k - 1)
             b == BlockSize * k
  <2>2. CASE k <= p
    <3>1. /\ k \in 1..p /\ Blocks(m)[k] = SubSeq(m, a + 1, b)
          /\ b <= Len(m) /\ a \in Nat /\ b \in Nat
      <4>1. k \in 1..p
        BY <1>2, <2>2
      <4> QED BY <4>1, BlocksOf DEF p
    <3> HIDE DEF a, b
    <3>2. \A i \in (a + 1)..b : all[i] = m[i - 0]
      BY <1>1, <3>1
    <3>3. /\ a + 1 \in Int /\ b \in Int /\ 0 \in Int /\ 1 <= a + 1 /\ b <= Len(all)
          /\ 1 <= (a + 1) - 0 /\ b - 0 <= Len(m) /\ (a + 1) - 0 = a + 1 /\ b - 0 = b
      BY <1>1, <3>1
    <3>4. SubSeq(all, a + 1, b) = SubSeq(m, (a + 1) - 0, b - 0)
      BY <1>1, <3>2, <3>3, SameSlice, SMTT(30)
    <3> QED BY <1>7, <2>1, <2>2, <3>1, <3>3, <3>4 DEF a, b
  <2>3. CASE ~(k <= p)
    <3>1. k - p \in 1..q
      BY <1>2, <2>3
    <3> DEFINE c == BlockSize * p
    <3>2. /\ BlockSize * ((k - p) - 1) = a - c /\ BlockSize * (k - p) = b - c
          /\ a \in Nat /\ b \in Nat /\ c \in Nat
      <4>1. k - p \in Int /\ k \in Int /\ p \in Int
        BY <1>2, <3>1
      <4>2. BlockSize * ((k - p) - 1) = BlockSize * (k - 1) - BlockSize * p
            /\ BlockSize * (k - p) = BlockSize * k - BlockSize * p
        BY <1>0, <4>1
      <4> QED BY <1>0, <1>2, <2>1, <4>2
    <3>3. /\ Blocks(data)[k - p] = SubSeq(data, BlockSize * ((k - p) - 1) + 1, BlockSize * (k - p))
          /\ BlockSize * ((k - p) - 1) \in Nat /\ BlockSize * (k - p) <= Len(data)
      BY <3>1, BlocksOf DEF q
    <3>4. /\ (a + 1) - c = (a - c) + 1 /\ a - c \in Nat /\ b - c <= Len(data) /\ c = Len(m)
      BY <1>2, <3>2, <3>3
    <3> HIDE DEF a, b, c
    <3>5. \A i \in (a + 1)..b : all[i] = data[i - c]
      BY <1>1, <3>2, <3>4, SMTT(30)
    <3>6. b <= Len(all) /\ 1 <= a + 1 /\ 1 <= (a + 1) - c /\ a + 1 \in Int
      BY <1>1, <3>2, <3>4
    <3>7. SubSeq(all, a + 1, b) = SubSeq(data, (a + 1) - c, b - c)
      BY <1>1, <3>2, <3>4, <3>5, <3>6, SameSlice, SMTT(30)
    <3>8. Blocks(data)[k - p] = SubSeq(data, (a + 1) - c, b - c)
      BY <3>2, <3>3, <3>4
    <3>9. Blocks(all)[k] = SubSeq(all, a + 1, b)
      BY <2>1 DEF a, b
    <3> QED BY <1>7, <2>3, <3>7, <3>8, <3>9
  <2> QED BY <2>2, <2>3
<1>9. Blocks(all) = Blocks(m) \o Blocks(data)
  BY <1>6, <1>7, <1>8, SeqEqual
<1> QED BY <1>2, <1>3, <1>5, <1>9 DEF all, p, q

(***************************************************************************)
(* md5_append.                                                             *)
(***************************************************************************)
State(n, b, blocks) == [count |-> CountOf(n), buf |-> b, abcd |-> blocks]

\* After the text m: its length, its full blocks, and the bytes behind them.
Represents(pms, m) ==
  /\ pms = State(Len(m), pms.buf, Blocks(m)) /\ DOMAIN pms.buf = 1..BlockSize
  /\ \A i \in 1..(Len(m) % BlockSize) :
       pms.buf[i] = m[BlockSize * (Len(m) \div BlockSize) + i]

\* The loop over full blocks, and what is left.
LEMMA AppendFull ==
  ASSUME NEW S, NEW m \in Seq(S), NEW data \in Seq(S), (Len(m) % BlockSize) = 0,
         NEW b, DOMAIN b = 1..BlockSize
  PROVE  LET pms == State(Len(m \o data), b, Blocks(m))
         IN Represents(Remainder(Full(pms, data), data), m \o data)
<1> DEFINE all == m \o data
           pms == State(Len(m \o data), b, Blocks(m))
           q == Len(data) \div BlockSize
           r == Len(data) % BlockSize
           x == Remainder(Full(pms, data), data)
           tail == SubSeq(data, BlockSize * q + 1, Len(data))
<1>0. BlockSize \in Nat \ {0}
  BY Md5Constants
<1>1. Full(pms, data) = State(Len(all), b, Blocks(all))
  <2>1. Blocks(m) \o Blocks(data) = Blocks(all)
    BY BlocksConcat
  <2>2. pms.abcd = Blocks(m)
    BY DEF State
  <2>3. Full(pms, data) = [pms EXCEPT !.abcd = Blocks(all)]
    <3> HIDE DEF pms, all
    <3> QED BY <2>1, <2>2 DEF Full
  <2> DEFINE bs == Blocks(all)
  <2> HIDE DEF bs
  <2>4. [pms EXCEPT !.abcd = bs] = State(Len(all), b, bs)
    BY DEF State
  <2> QED BY <2>3, <2>4 DEF bs
<1>2. x = State(Len(all), Copied(b, 0, tail), Blocks(all))
  BY <1>1 DEF Remainder, State
<1>3. Copied(b, 0, tail)
        = [i \in 1..BlockSize |-> IF i - 0 \in DOMAIN tail THEN tail[i - 0] ELSE b[i]]
  BY DEF Copied
<1>4. x.buf = Copied(b, 0, tail) /\ DOMAIN x.buf = 1..BlockSize /\ x = State(Len(all), x.buf, Blocks(all))
  <2>1. x.buf = Copied(b, 0, tail)
    BY <1>2 DEF State
  <2> HIDE DEF x
  <2> QED BY <1>2, <1>3, <2>1
<1>5. /\ r \in 0..(BlockSize - 1) /\ BlockSize * q \in Nat /\ Len(data) = BlockSize * q + r
  BY BlocksOf
<1>6. Len(tail) = r /\ \A i \in 1..r : tail[i] = data[BlockSize * q + i]
  <2> DEFINE a == BlockSize * q
  <2>1. a \in Nat /\ r \in Nat /\ Len(data) = a + r
    BY <1>5
  <2> HIDE DEF a, r, q
  <2>2. /\ Len(SubSeq(data, a + 1, Len(data))) = IF a + 1 <= Len(data) THEN Len(data) - (a + 1) + 1 ELSE 0
        /\ \A i \in 1..(Len(data) - (a + 1) + 1) : SubSeq(data, a + 1, Len(data))[i] = data[(a + 1) + i - 1]
    <3>1. a + 1 \in Int /\ Len(data) \in Int
      BY <2>1
    <3>2. \A i \in (a + 1)..Len(data) : data[i] \in S
      BY <2>1
    <3> QED BY <3>1, <3>2, SubSeqProperties
  <2>3. Len(SubSeq(data, a + 1, Len(data))) = r
    BY <2>1, <2>2
  <2>4. \A i \in 1..r : SubSeq(data, a + 1, Len(data))[i] = data[a + i]
    <3> TAKE i \in 1..r
    <3>1. i \in 1..(Len(data) - (a + 1) + 1) /\ (a + 1) + i - 1 = a + i
      BY <2>1
    <3> QED BY <2>2, <3>1
  <2> QED BY <2>3, <2>4 DEF a
<1>7. tail \in Seq(S)
  <2> DEFINE a == BlockSize * q + 1
  <2>1. a \in Nat \ {0}
    BY <1>5
  <2> HIDE DEF a
  <2>2. \A i \in a..Len(data) : data[i] \in S
    BY <2>1
  <2>3. SubSeq(data, a, Len(data)) \in Seq(S)
    BY <2>1, <2>2, SubSeqProperties
  <2> QED BY <2>3 DEF a
<1>8. /\ Len(all) % BlockSize = r
      /\ BlockSize * (Len(all) \div BlockSize) = Len(m) + BlockSize * q
  BY BlocksConcat
<1>9. ASSUME NEW i \in 1..r
      PROVE  x.buf[i] = all[BlockSize * (Len(all) \div BlockSize) + i]
  <2> DEFINE a == BlockSize * q
  <2>1. /\ i \in 1..BlockSize /\ i \in DOMAIN tail /\ i - 0 = i
    BY <1>0, <1>5, <1>6, <1>7
  <2>2. x.buf[i] = data[a + i]
    <3>1. x.buf[i] = tail[i]
      <4> HIDE DEF x, tail, a
      <4> QED BY <1>3, <1>4, <2>1
    <3> QED BY <1>6, <3>1
  <2>3. a \in Nat /\ r \in Nat /\ Len(data) = a + r
    BY <1>5
  <2> HIDE DEF a, r, q, x
  <2>4. all[(Len(m) + a) + i] = data[a + i]
    <3>1. (Len(m) + a) + i \in 1..(Len(m) + Len(data)) /\ ~ (Len(m) + a) + i <= Len(m)
          /\ ((Len(m) + a) + i) - Len(m) = a + i
      BY <2>3
    <3> QED BY <3>1, ConcatProperties
  <2> QED BY <1>8, <2>2, <2>4 DEF a
<1> HIDE DEF x, all, r
<1>11. \A i \in 1..(Len(all) % BlockSize) : x.buf[i] = all[BlockSize * (Len(all) \div BlockSize) + i]
  BY <1>8, <1>9
<1>12. Represents(x, all)
  BY <1>4, <1>11 DEF Represents
<1> QED BY <1>12 DEF x, all

\* The state before the first byte.
LEMMA InitRepresents ==
  Represents(Md5Init, <<>>)
<1>0. BlockSize \in Nat \ {0}
  BY Md5Constants
<1>1. Len(<<>>) = 0 /\ 8 * 0 = 0 /\ <<>> \in Seq({})
  OBVIOUS
<1>2. 0 = BlockSize * 0 + 0
  BY <1>0
<1>3. 0 \div BlockSize = 0 /\ 0 % BlockSize = 0
  <2>1. (BlockSize * 0 + 0) \div BlockSize = 0 /\ (BlockSize * 0 + 0) % BlockSize = 0
    BY <1>0, DivUnique
  <2> QED BY <1>2, <2>1
<1>4. Blocks(<<>>) = <<>>
  <2>1. Blocks(<<>>) \in Seq(Seq({})) /\ Len(Blocks(<<>>)) = Len(<<>>) \div BlockSize
    BY <1>1, BlocksOf
  <2> QED BY <1>1, <1>3, <2>1
<1>5. CountOf(0) = <<0, 0>>
  <2>1. 0 % Word = 0 /\ 0 \div Word = 0
    BY Words
  <2> QED BY <2>1 DEF CountOf
<1>6. Md5Init = State(0, Md5Init.buf, <<>>) /\ DOMAIN Md5Init.buf = 1..BlockSize
  BY <1>5 DEF State, Md5Init
<1>7. \A i \in 1..0 : Md5Init.buf[i] = <<>>[BlockSize * 0 + i]
  OBVIOUS
<1> QED BY <1>1, <1>3, <1>4, <1>6, <1>7 DEF Represents

\* The bytes that wait in buf are as many as the text has behind its full blocks.
LEMMA Offset ==
  ASSUME NEW n \in Nat
  PROVE  (CountOf(n)[1] \div 8) % BlockSize = n % BlockSize
<1>0. BlockSize \in Nat \ {0}
  BY Md5Constants
<1>1. PICK c \in Int : CountOf(n)[1] \div 8 = n + BlockSize * c
  BY OffsetIs
<1> DEFINE q == n \div BlockSize
           r == n % BlockSize
<1>2. q \in Int /\ r \in 0..(BlockSize - 1) /\ n = BlockSize * q + r
  BY <1>0, DivMod
<1> HIDE DEF q, r
<1>3. n + BlockSize * c = BlockSize * (q + c) + r
  <2>1. BlockSize * (q + c) = BlockSize * q + BlockSize * c /\ BlockSize * q \in Int /\ BlockSize * c \in Int
    BY <1>0, <1>2
  <2> QED BY <1>2, <2>1
<1>4. (BlockSize * (q + c) + r) % BlockSize = r
  <2>1. q + c \in Int
    BY <1>2
  <2> QED BY <1>0, <1>2, <2>1, DivUnique
<1>5. (CountOf(n)[1] \div 8) % BlockSize = r
  BY <1>1, <1>3, <1>4
<1> QED BY <1>5 DEF r

\* A text shorter than a block has none.
LEMMA NoBlock ==
  ASSUME NEW S, NEW t \in Seq(S), Len(t) < BlockSize
  PROVE  Blocks(t) = <<>> /\ Len(t) \div BlockSize = 0 /\ Len(t) % BlockSize = Len(t)
<1>0. BlockSize \in Nat \ {0}
  BY Md5Constants
<1> DEFINE n == Len(t)
<1>1. n \in 0..(BlockSize - 1) /\ BlockSize * 0 + n = n
  BY <1>0
<1>2. n \div BlockSize = 0 /\ n % BlockSize = n
  <2> HIDE DEF n
  <2>1. (BlockSize * 0 + n) \div BlockSize = 0 /\ (BlockSize * 0 + n) % BlockSize = n
    BY <1>0, <1>1, DivUnique
  <2> QED BY <1>1, <2>1
<1>3. Blocks(t) \in Seq(Seq(S)) /\ Len(Blocks(t)) = 0
  BY <1>2, BlocksOf
<1>4. Blocks(t) = <<>>
  BY <1>3
<1> QED BY <1>2, <1>4

\* One of the size of a block is one.
LEMMA OneBlock ==
  ASSUME NEW S, NEW t \in Seq(S), Len(t) = BlockSize
  PROVE  Blocks(t) = <<t>> /\ Len(t) \div BlockSize = 1 /\ Len(t) % BlockSize = 0
<1>0. BlockSize \in Nat \ {0}
  BY Md5Constants
<1>1. BlockSize * 1 + 0 = BlockSize /\ 0 \in 0..(BlockSize - 1)
  BY <1>0
<1>2. BlockSize \div BlockSize = 1 /\ BlockSize % BlockSize = 0
  <2>1. (BlockSize * 1 + 0) \div BlockSize = 1 /\ (BlockSize * 1 + 0) % BlockSize = 0
    BY <1>0, <1>1, DivUnique
  <2> QED BY <1>1, <2>1
<1>3. /\ Blocks(t) \in Seq(Seq(S)) /\ Len(Blocks(t)) = 1
      /\ Blocks(t)[1] = SubSeq(t, BlockSize * (1 - 1) + 1, BlockSize * 1)
  <2>1. 1 \in 1..(Len(t) \div BlockSize) /\ Len(t) \div BlockSize = 1
    BY <1>2
  <2>2. Blocks(t)[1] = SubSeq(t, BlockSize * (1 - 1) + 1, BlockSize * 1)
    BY <2>1, BlocksOf
  <2>3. Blocks(t) \in Seq(Seq(S)) /\ Len(Blocks(t)) = 1
    BY <2>1, BlocksOf
  <2> QED BY <2>2, <2>3
<1>4. BlockSize * (1 - 1) + 1 = 1 /\ BlockSize * 1 = Len(t)
  BY <1>0
<1>5. Blocks(t)[1] = t
  <2>1. Blocks(t)[1] = SubSeq(t, 1, Len(t))
    BY <1>3, <1>4
  <2> QED BY <2>1, SubSeqFull
<1>6. Blocks(t) = <<t>>
  BY <1>3, <1>5
<1> QED BY <1>2, <1>6

\* The full blocks of a text, and the bytes behind them.
LEMMA Splits ==
  ASSUME NEW S, NEW m \in Seq(S)
  PROVE  \E u, t \in Seq(S) :
           /\ m = u \o t /\ (Len(u) % BlockSize) = 0 /\ Blocks(u) = Blocks(m)
           /\ Len(t) = Len(m) % BlockSize
           /\ \A i \in 1..Len(t) : t[i] = m[BlockSize * (Len(m) \div BlockSize) + i]
<1>0. BlockSize \in Nat \ {0}
  BY Md5Constants
<1> DEFINE q == Len(m) \div BlockSize
           r == Len(m) % BlockSize
           a == BlockSize * q
<1>1. /\ q \in Nat /\ r \in 0..(BlockSize - 1) /\ a \in Nat /\ Len(m) = a + r
  BY BlocksOf
<1> HIDE DEF r
<1>2. a % BlockSize = 0
  <2> HIDE DEF q
  <2>1. (BlockSize * q + 0) % BlockSize = 0
    <3>1. q \in Int /\ 0 \in 0..(BlockSize - 1)
      BY <1>0, <1>1
    <3> QED BY <1>0, <3>1, DivUnique
  <2>2. BlockSize * q + 0 = a
    BY <1>1
  <2> QED BY <2>1, <2>2
<1> DEFINE u == SubSeq(m, 1, a)
           t == SubSeq(m, a + 1, Len(m))
<1> HIDE DEF q, a
<1>3. /\ u \in Seq(S) /\ Len(u) = a
      /\ t \in Seq(S) /\ Len(t) = r /\ \A i \in 1..r : t[i] = m[a + i]
  <2>1. /\ \A i \in 1..a : m[i] \in S
        /\ \A i \in (a + 1)..Len(m) : m[i] \in S
        /\ a + 1 \in Int /\ a \in Int /\ Len(m) \in Int
    BY <1>0, <1>1
  <2>2. u \in Seq(S) /\ Len(u) = IF 1 <= a THEN a - 1 + 1 ELSE 0
    BY <2>1, SubSeqProperties
  <2>3. /\ t \in Seq(S) /\ Len(t) = IF a + 1 <= Len(m) THEN Len(m) - (a + 1) + 1 ELSE 0
        /\ \A i \in 1..(Len(m) - (a + 1) + 1) : t[i] = m[(a + 1) + i - 1]
    BY <2>1, SubSeqProperties
  <2>4. Len(u) = a /\ Len(t) = r
    BY <1>0, <1>1, <2>2, <2>3
  <2>5. ASSUME NEW i \in 1..r PROVE t[i] = m[a + i]
    <3>1. i \in 1..(Len(m) - (a + 1) + 1) /\ (a + 1) + i - 1 = a + i
      BY <1>0, <1>1
    <3> QED BY <2>3, <3>1
  <2> QED BY <2>2, <2>3, <2>4, <2>5
<1>4. m = u \o t
  <2>1. 1 \in 1..(Len(m) + 1) /\ a \in (1 - 1)..Len(m) /\ Len(m) \in a..Len(m)
    BY <1>0, <1>1
  <2>2. SubSeq(m, 1, a) \o SubSeq(m, a + 1, Len(m)) = SubSeq(m, 1, Len(m))
    BY <2>1, ConcatAdjacentSubSeq
  <2> QED BY <2>2, SubSeqFull
<1> HIDE DEF u, t
<1>5. Blocks(u) = Blocks(m)
  <2>1. Blocks(t) = <<>>
    BY <1>0, <1>1, <1>3, NoBlock
  <2>2. Blocks(u \o t) = Blocks(u) \o Blocks(t)
    BY <1>2, <1>3, BlocksConcat
  <2>3. Blocks(u) \in Seq(Seq(S))
    BY <1>3, BlocksOf
  <2>4. Blocks(u) \o <<>> = Blocks(u)
    BY <2>3, ConcatEmptySeq
  <2> QED BY <1>4, <2>1, <2>2, <2>4
<1> QED BY <1>2, <1>3, <1>4, <1>5, ZenonT(60) DEF q, r, a

\* What is copied behind the text that waits in a buffer.
LEMMA CopiedBehind ==
  ASSUME NEW S, NEW t \in Seq(S), NEW data \in Seq(S), Len(t) + Len(data) <= BlockSize,
         NEW b, DOMAIN b = 1..BlockSize, \A i \in 1..Len(t) : b[i] = t[i]
  PROVE  /\ DOMAIN Copied(b, Len(t), data) = 1..BlockSize
         /\ \A i \in 1..(Len(t) + Len(data)) : Copied(b, Len(t), data)[i] = (t \o data)[i]
         /\ Len(t) + Len(data) = BlockSize => Copied(b, Len(t), data) = t \o data
<1> DEFINE c == Copied(b, Len(t), data)
<1>1. c = [i \in 1..BlockSize |-> IF i - Len(t) \in 1..Len(data) THEN data[i - Len(t)] ELSE b[i]]
  BY DEF Copied
<1>2. /\ t \o data \in Seq(S) /\ Len(t \o data) = Len(t) + Len(data)
      /\ \A i \in 1..(Len(t) + Len(data)) :
           (t \o data)[i] = IF i <= Len(t) THEN t[i] ELSE data[i - Len(t)]
  BY ConcatProperties
<1>3. BlockSize \in Nat \ {0} /\ Len(t) \in Nat /\ Len(data) \in Nat
  BY Md5Constants
<1> HIDE DEF c
<1>4. ASSUME NEW i \in 1..(Len(t) + Len(data)) PROVE c[i] = (t \o data)[i]
  <2>1. i \in 1..BlockSize
    BY <1>3
  <2>2. CASE i <= Len(t)
    <3>1. ~ (i - Len(t) \in 1..Len(data)) /\ i \in 1..Len(t)
      BY <1>3, <2>2
    <3> QED BY <1>1, <1>2, <2>1, <2>2, <3>1
  <2>3. CASE ~ (i <= Len(t))
    <3>1. i - Len(t) \in 1..Len(data)
      BY <1>3, <2>3
    <3> QED BY <1>1, <1>2, <2>1, <2>3, <3>1
  <2> QED BY <2>2, <2>3
<1>5. ASSUME Len(t) + Len(data) = BlockSize PROVE c = t \o data
  <2>1. \A i \in 1..BlockSize : c[i] \in S
    BY <1>2, <1>3, <1>4, <1>5
  <2>2. c \in [1..BlockSize -> S]
    BY <1>1, <2>1
  <2>3. c \in Seq(S) /\ Len(c) = BlockSize
    BY <1>3, <2>2
  <2> QED BY <1>2, <1>4, <1>5, <2>3, SeqEqual
<1>6. DOMAIN c = 1..BlockSize
  BY <1>1
<1> QED BY <1>4, <1>5, <1>6 DEF c

\* md5_append adds the data to the text.
LEMMA AppendRepresents ==
  ASSUME NEW S, NEW m \in Seq(S), NEW data \in Seq(S), NEW pms, Represents(pms, m)
  PROVE  Represents(Md5Append(pms, data), m \o data)
<1> DEFINE all == m \o data
           b   == pms.buf
           r   == Len(m) % BlockSize
           d   == Len(data)
           copy  == IF r + d > BlockSize THEN BlockSize - r ELSE d
           first == SubSeq(data, 1, copy)
           rest  == SubSeq(data, copy + 1, d)
           init  == State(Len(all), Copied(b, r, first), Blocks(m))
<1>0. BlockSize \in Nat \ {0}
  BY Md5Constants
<1>1. pms = State(Len(m), b, Blocks(m)) /\ DOMAIN b = 1..BlockSize
  BY DEF Represents
<1>2. /\ all \in Seq(S) /\ Len(all) = Len(m) + d /\ Len(m) \in Nat /\ d \in Nat
  BY ConcatProperties
<1>3. r \in 0..(BlockSize - 1)
  BY BlocksOf
<1>4. pms.count = CountOf(Len(m)) /\ Count(pms.count, d) = CountOf(Len(all))
  <2>1. pms.count = CountOf(Len(m))
    <3> HIDE DEF b
    <3> QED BY <1>1 DEF State
  <2> QED BY <1>2, <2>1, CountAdds
<1>5. (pms.count[1] \div 8) % BlockSize = r
  BY <1>2, <1>4, Offset
<1>6. [pms EXCEPT !.count = CountOf(Len(all))] = State(Len(all), b, Blocks(m))
  <2> HIDE DEF b, all
  <2> QED BY <1>1 DEF State
<1>7. [State(Len(all), b, Blocks(m)) EXCEPT !.buf = Copied(b, r, first)] = init
  <2> DEFINE x == Copied(b, r, first)
             n == Len(all)
             bm == Blocks(m)
  <2> HIDE DEF b, x, n, bm
  <2>1. [State(n, b, bm) EXCEPT !.buf = x] = State(n, x, bm)
    BY DEF State
  <2> QED BY <2>1 DEF n, x, bm
<1>8. Md5Append(pms, data) =
        CASE data = <<>> -> pms
          [] data # <<>> /\ r = 0 -> LET s == State(Len(all), b, Blocks(m)) IN Remainder(Full(s, data), data)
          [] data # <<>> /\ r > 0 /\ r + copy < BlockSize -> init
          [] OTHER -> Remainder(Full(Process(init, init.buf), rest), rest)
  <2> DEFINE counted == State(Len(all), b, Blocks(m))
  <2>1. counted.buf = b
    <3> HIDE DEF b, all
    <3> QED BY DEF State
  <2> HIDE DEF b, r, init, all, counted
  <2>2. [pms EXCEPT !.count = Count(@, Len(data))] = counted
    BY <1>4, <1>6 DEF counted
  <2>3. [counted EXCEPT !.buf = Copied(b, r, first)] = init
    BY <1>7 DEF counted
  <2>4. [counted EXCEPT !.buf = Copied(@, r, first)] = init
    BY <2>1, <2>3
  <2>5. Md5Append(pms, data) =
        CASE data = <<>> -> pms
          [] data # <<>> /\ r = 0 -> Remainder(Full(counted, data), data)
          [] data # <<>> /\ r > 0 /\ r + copy < BlockSize -> init
          [] OTHER -> Remainder(Full(Process(init, init.buf), rest), rest)
    BY <1>5, <2>2, <2>4 DEF Md5Append
  <2> QED BY <2>5 DEF counted
<1>9. PICK u, t \in Seq(S) :
        /\ m = u \o t /\ (Len(u) % BlockSize) = 0 /\ Blocks(u) = Blocks(m)
        /\ Len(t) = r /\ \A i \in 1..Len(t) : t[i] = m[BlockSize * (Len(m) \div BlockSize) + i]
  BY Splits
<1>10. \A i \in 1..Len(t) : b[i] = t[i]
  BY <1>9 DEF Represents
<1> HIDE DEF b, r
<1>11. CASE data = <<>>
  <2>1. all = m
    BY <1>11, ConcatEmptySeq
  <2> QED BY <1>8, <1>11, <2>1
<1>12. CASE data # <<>> /\ r = 0
  <2>1. Len(m) % BlockSize = 0
    BY <1>12 DEF r
  <2>2. LET s == State(Len(all), b, Blocks(m)) IN Represents(Remainder(Full(s, data), data), all)
    BY <1>1, <2>1, AppendFull
  <2>3. Md5Append(pms, data) = LET s == State(Len(all), b, Blocks(m)) IN Remainder(Full(s, data), data)
    <3> HIDE DEF all, init
    <3> QED BY <1>8, <1>12
  <2> QED BY <2>2, <2>3
<1>13. CASE data # <<>> /\ r > 0 /\ r + copy < BlockSize
  <2>1. copy = d /\ r + d < BlockSize
    BY <1>0, <1>2, <1>3, <1>13
  <2>2. first = data
    BY <2>1, SubSeqFull
  <2>3. Md5Append(pms, data) = init
    <3> HIDE DEF all, init, copy
    <3> QED BY <1>3, <1>8, <1>13
  <2>4. /\ DOMAIN Copied(b, r, data) = 1..BlockSize
        /\ \A i \in 1..(r + d) : Copied(b, r, data)[i] = (t \o data)[i]
    <3>1. Len(t) + Len(data) <= BlockSize
      BY <1>0, <1>2, <1>3, <1>9, <2>1
    <3>2. /\ DOMAIN Copied(b, Len(t), data) = 1..BlockSize
          /\ \A i \in 1..(Len(t) + Len(data)) : Copied(b, Len(t), data)[i] = (t \o data)[i]
      BY <1>1, <1>10, <3>1, CopiedBehind
    <3> QED BY <1>9, <3>2
  <2> DEFINE v == t \o data
  <2>5. v \in Seq(S) /\ Len(v) = r + d
    BY <1>9, ConcatProperties
  <2>6. all = u \o v
    BY <1>9, ConcatAssociative
  <2>7. Blocks(v) = <<>> /\ Len(v) \div BlockSize = 0 /\ Len(v) % BlockSize = r + d
    BY <2>1, <2>5, NoBlock
  <2>8. /\ Blocks(all) = Blocks(u) \o <<>> /\ Len(all) % BlockSize = r + d
        /\ BlockSize * (Len(all) \div BlockSize) = Len(u)
    <3> HIDE DEF v, all
    <3>1. /\ Blocks(u \o v) = Blocks(u) \o Blocks(v)
          /\ Len(u \o v) \div BlockSize = (Len(u) \div BlockSize) + (Len(v) \div BlockSize)
          /\ Len(u \o v) % BlockSize = Len(v) % BlockSize
          /\ BlockSize * ((Len(u) \div BlockSize) + (Len(v) \div BlockSize))
              = Len(u) + BlockSize * (Len(v) \div BlockSize)
      BY <1>9, <2>5, BlocksConcat
    <3>2. Len(u) + BlockSize * 0 = Len(u)
      BY <1>0
    <3> QED BY <2>6, <2>7, <3>1, <3>2
  <2>9. Blocks(all) = Blocks(m)
    <3>1. Blocks(u) \in Seq(Seq(S))
      BY BlocksOf
    <3> QED BY <1>9, <2>8, <3>1, ConcatEmptySeq
  <2>10. \A i \in 1..(r + d) : all[Len(u) + i] = v[i]
    <3> TAKE i \in 1..(r + d)
    <3>1. /\ Len(u) \in Nat /\ Len(u) + i \in 1..(Len(u) + Len(v)) /\ ~ (Len(u) + i <= Len(u))
          /\ (Len(u) + i) - Len(u) = i
      BY <1>2, <1>3, <2>5
    <3> HIDE DEF v, all
    <3> QED BY <2>5, <2>6, <3>1, ConcatProperties
  <2>11. init = State(Len(all), Copied(b, r, data), Blocks(all))
    BY <2>2, <2>9
  <2> HIDE DEF init, all, v
  <2>12. init.buf = Copied(b, r, data)
    BY <2>11 DEF State
  <2>13. Represents(init, all)
    BY <2>4, <2>8, <2>10, <2>11, <2>12 DEF Represents, v
  <2> QED BY <2>3, <2>13 DEF all
<1>14. CASE data # <<>> /\ r > 0 /\ ~ (r + copy < BlockSize)
  <2>1. copy = BlockSize - r /\ copy \in 1..d
    BY <1>0, <1>2, <1>3, <1>14
  <2>2. Md5Append(pms, data) = Remainder(Full(Process(init, init.buf), rest), rest)
    <3> HIDE DEF all, init, copy, rest
    <3> QED BY <1>3, <1>8, <1>14
  <2>3. first \in Seq(S) /\ Len(first) = copy /\ rest \in Seq(S) /\ first \o rest = data
    <3> HIDE DEF copy
    <3>1. /\ \A i \in 1..copy : data[i] \in S
          /\ \A i \in (copy + 1)..d : data[i] \in S
          /\ copy + 1 \in Int /\ copy \in Int /\ d \in Int
      BY <1>2, <2>1
    <3>2. first \in Seq(S) /\ Len(first) = (IF 1 <= copy THEN copy - 1 + 1 ELSE 0) /\ rest \in Seq(S)
      BY <3>1, SubSeqProperties
    <3>3. 1 \in 1..(Len(data) + 1) /\ copy \in (1 - 1)..Len(data) /\ Len(data) \in copy..Len(data)
      BY <1>2, <2>1
    <3>4. SubSeq(data, 1, copy) \o SubSeq(data, copy + 1, Len(data)) = SubSeq(data, 1, Len(data))
      BY <3>3, ConcatAdjacentSubSeq
    <3>5. first \o rest = data
      BY <3>4, SubSeqFull
    <3> QED BY <2>1, <3>2, <3>5, SMTT(30)
  <2> HIDE DEF first, rest, copy
  <2> DEFINE v == t \o first
  <2>4. v \in Seq(S) /\ Len(v) = BlockSize
    <3>1. v \in Seq(S) /\ Len(v) = Len(t) + Len(first)
      BY <2>3, ConcatProperties
    <3> QED BY <1>0, <1>3, <1>9, <2>1, <2>3, <3>1
  <2>5. Blocks(v) = <<v>> /\ Len(v) \div BlockSize = 1 /\ Len(v) % BlockSize = 0
    BY <2>4, OneBlock
  <2>6. Copied(b, r, first) = v
    <3>1. Len(t) + Len(first) = BlockSize
      BY <1>0, <1>3, <1>9, <2>1, <2>3
    <3>2. Len(t) + Len(first) <= BlockSize
      BY <1>0, <3>1
    <3>3. Copied(b, Len(t), first) = t \o first
      BY <1>1, <1>10, <2>3, <3>1, <3>2, CopiedBehind
    <3> QED BY <1>9, <3>3
  <2> DEFINE w == m \o first
  <2>7. w = u \o v /\ w \in Seq(S)
    <3>1. (u \o t) \o first = u \o (t \o first)
      <4>1. first \in Seq(S)
        BY <2>3
      <4> QED BY <4>1, ConcatAssociative, SMTT(30)
    <3>2. m \o first \in Seq(S)
      BY <2>3, ConcatProperties
    <3> QED BY <1>9, <3>1, <3>2
  <2>8. all = w \o rest
    <3>1. (m \o first) \o rest = m \o (first \o rest)
      <4>1. first \in Seq(S) /\ rest \in Seq(S)
        BY <2>3
      <4> QED BY <4>1, ConcatAssociative, SMTT(30)
    <3> QED BY <2>3, <3>1
  <2> HIDE DEF v, w, all
  <2>9. Blocks(w) = Blocks(u) \o <<v>> /\ (Len(w) % BlockSize) = 0
    BY <1>9, <2>4, <2>5, <2>7, BlocksConcat, ZenonT(60)
  <2>10. Blocks(w) = Append(Blocks(m), v)
    <3>1. Blocks(m) \in Seq(Seq(S))
      BY BlocksOf
    <3>2. Append(Blocks(m), v) = Blocks(m) \o <<v>>
      BY <2>4, <3>1, AppendIsConcat
    <3> QED BY <1>9, <2>9, <3>2
  <2>11. DOMAIN v = 1..BlockSize
    BY <2>4
  <2>12. Process(init, init.buf) = State(Len(all), v, Blocks(w))
    <3>1. init = State(Len(all), v, Blocks(m))
      BY <2>6
    <3> DEFINE bm == Blocks(m)
    <3> HIDE DEF init, bm
    <3>2. init.buf = v /\ init.abcd = bm
      BY <3>1 DEF State, bm
    <3>3. Process(init, v) = [init EXCEPT !.abcd = Append(bm, v)]
      BY <3>2 DEF Process
    <3>4. [init EXCEPT !.abcd = Append(bm, v)] = State(Len(all), v, Append(bm, v))
      <4> DEFINE x == Append(bm, v)
      <4> HIDE DEF x
      <4>1. [State(Len(all), v, Blocks(m)) EXCEPT !.abcd = x] = State(Len(all), v, x)
        BY DEF State
      <4> QED BY <3>1, <4>1 DEF x
    <3> QED BY <2>10, <3>2, <3>3, <3>4 DEF bm
  <2>13. LET s == State(Len(w \o rest), v, Blocks(w)) IN Represents(Remainder(Full(s, rest), rest), w \o rest)
    BY <2>3, <2>7, <2>9, <2>11, AppendFull
  <2>14. Represents(Remainder(Full(Process(init, init.buf), rest), rest), all)
    BY <2>8, <2>12, <2>13
  <2> QED BY <2>2, <2>14 DEF all
<1> HIDE DEF all
<1>15. Represents(Md5Append(pms, data), all)
  <2>1. r = 0 \/ r > 0
    BY <1>3
  <2> QED BY <1>11, <1>12, <1>13, <1>14, <2>1 DEF all
<1> QED BY <1>15 DEF all

(***************************************************************************)
(* md5_finish.                                                             *)
(***************************************************************************)
PadLength(n) == CHOOSE p \in 1..BlockSize : (n + p + LengthBytes) % BlockSize = 0

\* The number of bytes md5_finish computes is the one that is needed.
LEMMA PadIs ==
  ASSUME NEW n \in Nat
  PROVE  /\ PadLength(n) \in 1..BlockSize /\ (n + PadLength(n) + LengthBytes) % BlockSize = 0
         /\ ((BlockSize - LengthBytes - 1 - (CountOf(n)[1] \div 8)) % BlockSize) + 1 = PadLength(n)
<1>0. BlockSize \in Nat \ {0} /\ LengthBytes \in Nat
  BY Md5Constants, Words
<1>1. PICK c \in Int : CountOf(n)[1] \div 8 = n + BlockSize * c
  BY OffsetIs
<1> DEFINE x == BlockSize - LengthBytes - 1 - (n + BlockSize * c)
           z == x \div BlockSize
           y == x % BlockSize
<1>2. BlockSize * c \in Int
  BY <1>0
<1>3. x \in Int
  BY <1>0, <1>2
<1>4. z \in Int /\ y \in 0..(BlockSize - 1) /\ x = BlockSize * z + y
  <2> HIDE DEF x
  <2> QED BY <1>0, <1>3, DivMod
<1> HIDE DEF z, y
<1>5. n + (y + 1) + LengthBytes = BlockSize * (1 - c - z) + 0
  <2>1. BlockSize * (1 - c - z) = BlockSize - BlockSize * c - BlockSize * z /\ BlockSize * z \in Int
    BY <1>0, <1>4
  <2> QED BY <1>0, <1>2, <1>4, <2>1
<1>6. (n + (y + 1) + LengthBytes) % BlockSize = 0
  <2>1. 1 - c - z \in Int /\ 0 \in 0..(BlockSize - 1)
    BY <1>0, <1>4
  <2>2. (BlockSize * (1 - c - z) + 0) % BlockSize = 0
    BY <1>0, <2>1, DivUnique
  <2> QED BY <1>5, <2>2
<1>7. y + 1 \in 1..BlockSize
  BY <1>0, <1>4
<1>8. PadLength(n) \in 1..BlockSize /\ (n + PadLength(n) + LengthBytes) % BlockSize = 0
  BY <1>6, <1>7 DEF PadLength
<1>9. PadLength(n) = y + 1
  <2> DEFINE p == PadLength(n)
             a == n + p + LengthBytes
             b == n + (y + 1) + LengthBytes
  <2>1. p \in 1..BlockSize /\ a \in Nat /\ b \in Nat /\ a - b = p - (y + 1)
    <3> HIDE DEF p
    <3> QED BY <1>0, <1>7, <1>8 DEF p
  <2>2. a % BlockSize = 0 /\ b % BlockSize = 0
    BY <1>6, <1>8
  <2> HIDE DEF p, a, b
  <2>3. a - b < BlockSize /\ b - a < BlockSize /\ a \in Int /\ b \in Int
    BY <1>0, <1>7, <2>1
  <2>4. BlockSize \in Nat \ {0}
    BY <1>0
  <2>8. a = b
    BY <2>2, <2>3, <2>4, SameMultiple
  <2>9. p = y + 1
    BY <1>7, <2>1, <2>8
  <2> QED BY <2>9 DEF p
<1>10. BlockSize - LengthBytes - 1 - (CountOf(n)[1] \div 8) = x
  BY <1>1
<1> QED BY <1>8, <1>9, <1>10 DEF y

\* The bytes of the padding, and those of the length.
Pad(n) == [i \in 1..PadLength(n) |-> IF i = 1 THEN 128 ELSE 0]

\* The padding and the length are bytes, as many as md5_finish appends.
LEMMA TailTyped ==
  ASSUME NEW n \in Nat
  PROVE  /\ Pad(n) \in Seq(Nat) /\ Len(Pad(n)) = PadLength(n)
         /\ Bytes(CountOf(n)) \in Seq(Nat) /\ Len(Bytes(CountOf(n))) = LengthBytes
<1>1. PadLength(n) \in Nat
  BY PadIs, Md5Constants
<1>2. Pad(n) \in Seq(Nat) /\ Len(Pad(n)) = PadLength(n)
  BY <1>1 DEF Pad
<1> DEFINE c == CountOf(n)
           b(i) == IF i <= WordBytes THEN (c[1] \div Pow256[i]) % 256
                                     ELSE (c[2] \div Pow256[i - WordBytes]) % 256
<1>3. c[1] \in Nat /\ c[2] \in Nat
  <2>1. CASE Word = 256
    BY <2>1 DEF CountOf
  <2>2. CASE Word = 65536
    BY <2>2 DEF CountOf
  <2>3. CASE Word = 16777216
    BY <2>3 DEF CountOf
  <2>4. CASE Word = 4294967296
    BY <2>4 DEF CountOf
  <2> QED BY <2>1, <2>2, <2>3, <2>4, Words
<1>4. \A i \in 1..4 : Pow256[i] \in {1, 256, 65536, 16777216}
  BY DEF Pow256
<1> HIDE DEF c
<1>5. \A x \in Nat, i \in 1..4 : (x \div Pow256[i]) % 256 \in Nat
  <2> TAKE x \in Nat, i \in 1..4
  <2>1. CASE Pow256[i] = 1
    BY <2>1
  <2>2. CASE Pow256[i] = 256
    BY <2>2
  <2>3. CASE Pow256[i] = 65536
    BY <2>3
  <2>4. CASE Pow256[i] = 16777216
    BY <2>4
  <2> QED BY <1>4, <2>1, <2>2, <2>3, <2>4
<1>6. ASSUME NEW i \in 1..LengthBytes PROVE b(i) \in Nat
  <2>1. CASE i <= WordBytes
    <3>1. i \in 1..4
      BY <2>1, Words
    <3> QED BY <1>3, <1>5, <2>1, <3>1
  <2>2. CASE ~ (i <= WordBytes)
    <3>1. i - WordBytes \in 1..4
      BY <2>2, Words
    <3> QED BY <1>3, <1>5, <2>2, <3>1
  <2> QED BY <2>1, <2>2
<1>7. Bytes(c) = [i \in 1..LengthBytes |-> b(i)]
  BY DEF Bytes
<1> HIDE DEF b
<1>8. Bytes(c) \in Seq(Nat) /\ Len(Bytes(c)) = LengthBytes
  BY <1>6, <1>7, Words
<1> QED BY <1>2, <1>8 DEF c

\* However a message was cut into pieces, md5_finish folds the blocks RFC 1321 says.
LEMMA FinishIsReference ==
  ASSUME NEW S, NEW m \in Seq(S), NEW pms, Represents(pms, m)
  PROVE  Md5Finish(pms) = Reference(m)
<1> DEFINE T == S \cup Nat
           n == Len(m)
           p == m \o Pad(n)
           all == p \o Bytes(CountOf(n))
<1>1. n \in Nat
  OBVIOUS
<1> HIDE DEF n
<1>2. /\ m \in Seq(T) /\ Pad(n) \in Seq(T) /\ Bytes(CountOf(n)) \in Seq(T)
  <2>1. Pad(n) \in Seq(Nat) /\ Bytes(CountOf(n)) \in Seq(Nat)
    BY <1>1, TailTyped
  <2>2. S \subseteq T /\ Nat \subseteq T
    OBVIOUS
  <2> HIDE DEF T
  <2> QED BY <2>1, <2>2, SeqMonotonic
<1> HIDE DEF T
<1>3. p \in Seq(T)
  BY <1>2, ConcatProperties
<1>4. pms.count = CountOf(n)
  <2>1. pms = State(n, pms.buf, Blocks(m))
    BY DEF Represents, n
  <2> DEFINE b == pms.buf
  <2> HIDE DEF b
  <2>2. pms = State(n, b, Blocks(m))
    BY <2>1 DEF b
  <2> QED BY <2>2 DEF State
<1>5. Padding(pms) = Pad(n)
  <2>1. ((BlockSize - LengthBytes - 1 - (pms.count[1] \div 8)) % BlockSize) + 1 = PadLength(n)
    BY <1>1, <1>4, PadIs
  <2> QED BY <2>1 DEF Padding, Pad
<1>6. Represents(Md5Append(pms, Padding(pms)), p)
  BY <1>2, <1>5, AppendRepresents
<1>7. Represents(Md5Append(Md5Append(pms, Padding(pms)), Bytes(pms.count)), all)
  BY <1>2, <1>3, <1>4, <1>6, AppendRepresents
<1>8. Md5Finish(pms) = Blocks(all)
  <2> DEFINE x == Md5Append(Md5Append(pms, Padding(pms)), Bytes(pms.count))
             b == x.buf
  <2>1. x = State(Len(all), b, Blocks(all))
    <3> HIDE DEF x, all
    <3> QED BY <1>7 DEF Represents, x
  <2>2. Md5Finish(pms) = x.abcd
    BY DEF Md5Finish
  <2> HIDE DEF x, b, all
  <2> QED BY <2>1, <2>2 DEF State
<1>9. Reference(m) = Blocks(all)
  BY DEF Reference, Pad, PadLength, CountOf, n
<1> QED BY <1>8, <1>9

(***************************************************************************)
(* Two messages have one digest only if they are the same.                 *)
(***************************************************************************)
\* A text without a remainder is known by its blocks.
LEMMA BlocksInjective ==
  ASSUME NEW S, NEW a \in Seq(S), NEW b \in Seq(S), Len(a) % BlockSize = 0,
         Len(b) % BlockSize = 0, Blocks(a) = Blocks(b)
  PROVE  a = b
<1>0. BlockSize \in Nat \ {0}
  BY Md5Constants
<1> DEFINE q == Len(a) \div BlockSize
<1>1. q = Len(b) \div BlockSize /\ q \in Nat
  BY BlocksOf
<1>2. Len(a) = BlockSize * q /\ Len(b) = BlockSize * q /\ BlockSize * q \in Nat
  <2>1. /\ BlockSize * q \in Nat
        /\ Len(a) = BlockSize * q + (Len(a) % BlockSize)
        /\ Len(b) = BlockSize * (Len(b) \div BlockSize) + (Len(b) % BlockSize)
    BY BlocksOf
  <2> QED BY <1>1, <2>1
<1>3. ASSUME NEW i \in 1..Len(a) PROVE a[i] = b[i]
  <2> DEFINE k == (i - 1) \div BlockSize
             j == (i - 1) % BlockSize
             c == BlockSize * k
  <2>1. k \in Int /\ j \in 0..(BlockSize - 1) /\ i - 1 = c + j /\ k >= 0 /\ c \in Int
    <3> DEFINE x == i - 1
    <3>1. x \in Int /\ x >= 0
      OBVIOUS
    <3> HIDE DEF x
    <3>2. /\ x \div BlockSize \in Int /\ (x % BlockSize) \in 0..(BlockSize - 1)
          /\ x = BlockSize * (x \div BlockSize) + (x % BlockSize) /\ x \div BlockSize >= 0
      BY <1>0, <3>1, DivMod
    <3> QED BY <1>0, <3>2 DEF x
  <2> HIDE DEF k, j, q
  <2>2. k < q
    <3> SUFFICES ASSUME ~ (k < q) PROVE FALSE
      OBVIOUS
    <3>1. BlockSize * q <= BlockSize * k
      <4>1. q = k \/ q < k
        BY <1>1, <2>1
      <4>2. BlockSize * k \in Int /\ BlockSize * q \in Int
        BY <1>0, <1>1, <2>1
      <4>3. CASE q < k
        <5>1. BlockSize * q + BlockSize <= BlockSize * k
          BY <1>0, <1>1, <2>1, <4>3, Multiples
        <5> QED BY <1>0, <4>2, <5>1
      <4> QED BY <4>1, <4>2, <4>3
    <3> HIDE DEF c
    <3>2. i - 1 < c
      BY <1>2, <2>1, <3>1 DEF c
    <3> QED BY <1>0, <2>1, <3>2
  <2>3. k + 1 \in 1..q /\ (k + 1) - 1 = k
    BY <1>1, <2>1, <2>2
  <2>4. /\ Blocks(a)[k + 1] = SubSeq(a, c + 1, BlockSize * (k + 1))
        /\ Blocks(b)[k + 1] = SubSeq(b, c + 1, BlockSize * (k + 1))
        /\ BlockSize * (k + 1) = c + BlockSize /\ BlockSize * (k + 1) <= Len(a)
        /\ BlockSize * (k + 1) <= Len(b) /\ c \in Nat
    <3>1. k + 1 \in 1..(Len(a) \div BlockSize) /\ k + 1 \in 1..(Len(b) \div BlockSize)
      BY <1>1, <2>3 DEF q
    <3> HIDE DEF c
    <3>2. /\ Blocks(a)[k + 1] = SubSeq(a, BlockSize * ((k + 1) - 1) + 1, BlockSize * (k + 1))
          /\ BlockSize * ((k + 1) - 1) \in Nat
          /\ BlockSize * (k + 1) = BlockSize * ((k + 1) - 1) + BlockSize /\ BlockSize * (k + 1) <= Len(a)
      BY <3>1, BlocksOf
    <3>3. /\ Blocks(b)[k + 1] = SubSeq(b, BlockSize * ((k + 1) - 1) + 1, BlockSize * (k + 1))
          /\ BlockSize * (k + 1) <= Len(b)
      BY <3>1, BlocksOf
    <3> QED BY <2>3, <3>2, <3>3 DEF c
  <2> HIDE DEF c
  <2> DEFINE d == c + BlockSize
  <2>5. \A x \in (c + 1)..d : a[x] \in S /\ b[x] \in S
    BY <1>0, <2>4
  <2>6. SubSeq(a, c + 1, d) = SubSeq(b, c + 1, d)
    BY <2>4
  <2>7. c + 1 \in Int /\ d \in Int /\ j + 1 \in 1..(d - (c + 1) + 1) /\ (c + 1) + (j + 1) - 1 = i
    BY <1>0, <2>1, <2>4
  <2> HIDE DEF d
  <2>8. SubSeq(a, c + 1, d)[j + 1] = a[(c + 1) + (j + 1) - 1]
    BY <2>5, <2>7, SubSeqProperties
  <2>9. SubSeq(b, c + 1, d)[j + 1] = b[(c + 1) + (j + 1) - 1]
    BY <2>5, <2>7, SubSeqProperties
  <2> QED BY <2>6, <2>7, <2>8, <2>9
<1> QED BY <1>2, <1>3, SeqEqual

\* Two numbers of which the upper bytes are the same, and the next one.
LEMMA NextByte ==
  ASSUME NEW x \in Nat, NEW y \in Nat, NEW b \in Nat \ {0},
         (x \div b) % 256 = (y \div b) % 256, x \div (b * 256) = y \div (b * 256)
  PROVE  x \div b = y \div b
<1> DEFINE u == x \div b
           v == y \div b
<1>1. u \in Nat /\ v \in Nat
  BY DivMod
<1>2. x \div (b * 256) = u \div 256 /\ y \div (b * 256) = v \div 256
  OBVIOUS
<1> HIDE DEF u, v
<1>3. u = 256 * (u \div 256) + (u % 256) /\ v = 256 * (v \div 256) + (v % 256)
  BY <1>1, DivMod
<1>4. u \div 256 = v \div 256
  BY <1>2
<1>5. u % 256 = v % 256
  BY DEF u, v
<1> QED BY <1>3, <1>4, <1>5 DEF u, v

\* A word is known by its bytes.
LEMMA BytesOfWord ==
  ASSUME NEW x \in 0..(Word - 1), NEW y \in 0..(Word - 1),
         \A i \in 1..WordBytes : (x \div Pow256[i]) % 256 = (y \div Pow256[i]) % 256
  PROVE  x = y
<1> DEFINE Same(b) == x \div b = y \div b
<1>1. x \in Nat /\ y \in Nat /\ Word \in Nat \ {0}
  <2>1. Word \in Nat \ {0}
    <3>1. WordBlock \in Nat \ {0} /\ Word = 8 * WordBlock
      BY Words
    <3> QED BY <3>1
  <2> QED BY <2>1
<1>2. /\ Pow256[1] = 1 /\ \A i \in 1..4 : Pow256[i] \in Nat \ {0}
      /\ \A i \in 1..3 : Pow256[i + 1] = Pow256[i] * 256
  BY SMT DEF Pow256
<1>3. ASSUME NEW i \in 1..WordBytes, Same(Pow256[i] * 256) PROVE Same(Pow256[i])
  <2> DEFINE b == Pow256[i]
  <2>1. b \in Nat \ {0} /\ (x \div b) % 256 = (y \div b) % 256
    BY <1>2, Words
  <2> HIDE DEF b
  <2>2. x \div (b * 256) = y \div (b * 256)
    BY <1>3 DEF b
  <2>3. x \div b = y \div b
    BY <1>1, <2>1, <2>2, NextByte, ZenonT(60)
  <2> QED BY <2>3 DEF b
<1>4. Same(Pow256[WordBytes] * 256)
  <2>1. ASSUME NEW z \in 0..(Word - 1) PROVE z \div Word = 0
    <3>1. (Word * 0 + z) \div Word = 0
      BY <1>1, DivUnique
    <3>2. Word * 0 + z = z
      BY <1>1
    <3> QED BY <3>1, <3>2
  <2>2. x \div Word = 0 /\ y \div Word = 0
    BY <2>1
  <2>3. Word = Pow256[WordBytes] * 256
    <3>1. Pow256[WordBytes] \in Nat
      BY <1>2, Words
    <3> QED BY <3>1 DEF Word
  <2> QED BY <2>2, <2>3
<1>5. Same(Pow256[1]) => x = y
  BY <1>1, <1>2
<1> HIDE DEF Same
<1>6. ASSUME NEW i \in 1..3, i + 1 <= WordBytes, Same(Pow256[i + 1]) PROVE Same(Pow256[i])
  <2>1. i \in 1..WordBytes
    BY <1>6, Words
  <2> QED BY <1>2, <1>3, <1>6, <2>1
<1>7. Same(Pow256[WordBytes])
  BY <1>3, <1>4, Words
<1>8. WordBytes \in 1..4
  BY Words
<1>9. WordBytes >= 4 => Same(Pow256[3])
  BY <1>6, <1>7, <1>8
<1>10. WordBytes >= 3 => Same(Pow256[2])
  BY <1>6, <1>7, <1>8, <1>9
<1>11. Same(Pow256[1])
  BY <1>6, <1>7, <1>8, <1>10
<1> QED BY <1>5, <1>11

\* Two texts of the same padded length whose low words are the same are of one length.
LEMMA SameLength ==
  ASSUME NEW n \in Nat, NEW k \in Nat, n - k < BlockSize, k - n < BlockSize,
         (8 * n) % Word = (8 * k) % Word
  PROVE  n = k
<1>1. BlockSize <= WordBlock
  <2>0. BlockSize \in Nat \ {0} /\ WordBlock \in Nat \ {0} /\ WordBlock % BlockSize = 0 /\ BlockSize % BlockSize = 0
    <3>1. (BlockSize * 1 + 0) % BlockSize = 0 /\ BlockSize * 1 + 0 = BlockSize
      BY DivUnique, Md5Constants
    <3> QED BY <3>1, Words, Md5Constants
  <2>1. SUFFICES ASSUME WordBlock < BlockSize PROVE FALSE
    BY <2>0
  <2>2. WordBlock \in Int /\ BlockSize \in Int /\ WordBlock - BlockSize < BlockSize /\ BlockSize - WordBlock < BlockSize
    BY <2>0, <2>1
  <2>3. WordBlock = BlockSize
    BY <2>0, <2>2, SameMultiple
  <2> QED BY <2>0, <2>1, <2>3
<1>2. WordBlock \in Nat /\ BlockSize \in Nat /\ n - k < WordBlock /\ k - n < WordBlock
  BY <1>1, Words, Md5Constants
<1>3. CASE Word = 256
  <2>1. WordBlock = 32
    BY <1>3, Words
  <2> QED BY <1>2, <1>3, <2>1
<1>4. CASE Word = 65536
  <2>1. WordBlock = 8192
    BY <1>4, Words
  <2> QED BY <1>2, <1>4, <2>1
<1>5. CASE Word = 16777216
  <2>1. WordBlock = 2097152
    BY <1>5, Words
  <2> QED BY <1>2, <1>5, <2>1
<1>6. CASE Word = 4294967296
  <2>1. WordBlock = 536870912
    BY <1>6, Words
  <2> QED BY <1>2, <1>6, <2>1
<1> QED BY <1>3, <1>4, <1>5, <1>6, Words

\* The symbols of the second of two texts.
LEMMA SecondOf ==
  ASSUME NEW S, NEW s \in Seq(S), NEW t \in Seq(S), NEW i \in 1..Len(t)
  PROVE  (s \o t)[Len(s) + i] = t[i]
<1> DEFINE j == Len(s) + i
<1>1. j \in 1..(Len(s) + Len(t)) /\ ~ (j <= Len(s)) /\ j - Len(s) = i
  OBVIOUS
<1> HIDE DEF j
<1>2. (s \o t)[j] = t[i]
  BY <1>1, ConcatProperties
<1> QED BY <1>2 DEF j

\* Two messages with the same blocks are the same message: the padding and the length
\* in bits tell where each ends.
LEMMA ReferenceInjective ==
  ASSUME NEW S, NEW m \in Seq(S), NEW k \in Seq(S), Reference(m) = Reference(k)
  PROVE  m = k
<1> DEFINE T == S \cup Nat
           All(x) == (x \o Pad(Len(x))) \o Bytes(CountOf(Len(x)))
<1>0. BlockSize \in Nat \ {0} /\ LengthBytes \in Nat
  BY Md5Constants, Words
<1>1. ASSUME NEW x \in Seq(S)
      PROVE  /\ Reference(x) = Blocks(All(x)) /\ x \in Seq(T)
             /\ Pad(Len(x)) \in Seq(T) /\ Bytes(CountOf(Len(x))) \in Seq(T)
             /\ Len(Pad(Len(x))) \in 1..BlockSize /\ Len(Bytes(CountOf(Len(x)))) = LengthBytes
             /\ x \o Pad(Len(x)) \in Seq(T) /\ Len(x \o Pad(Len(x))) = Len(x) + Len(Pad(Len(x)))
             /\ All(x) \in Seq(T) /\ Len(All(x)) = Len(x) + Len(Pad(Len(x))) + LengthBytes
             /\ Len(All(x)) % BlockSize = 0
  <2> DEFINE n == Len(x)
  <2>1. n \in Nat
    OBVIOUS
  <2>2. Reference(x) = Blocks(All(x))
    BY DEF Reference, Pad, PadLength, CountOf
  <2> HIDE DEF n
  <2>3. /\ Pad(n) \in Seq(Nat) /\ Len(Pad(n)) = PadLength(n)
        /\ Bytes(CountOf(n)) \in Seq(Nat) /\ Len(Bytes(CountOf(n))) = LengthBytes
    BY <2>1, TailTyped
  <2>4. PadLength(n) \in 1..BlockSize /\ (n + PadLength(n) + LengthBytes) % BlockSize = 0
    BY <2>1, PadIs
  <2>5. S \subseteq T /\ Nat \subseteq T
    OBVIOUS
  <2>6. x \in Seq(T) /\ Pad(n) \in Seq(T) /\ Bytes(CountOf(n)) \in Seq(T)
    <3> HIDE DEF T
    <3> QED BY <2>3, <2>5, SeqMonotonic
  <2> HIDE DEF T
  <2>7. x \o Pad(n) \in Seq(T) /\ Len(x \o Pad(n)) = Len(x) + Len(Pad(n))
    BY <2>6, ConcatProperties
  <2> DEFINE all == (x \o Pad(n)) \o Bytes(CountOf(n))
  <2>8. all \in Seq(T) /\ Len(all) = Len(x \o Pad(n)) + Len(Bytes(CountOf(n)))
    BY <2>6, <2>7, ConcatProperties
  <2>9. Len(all) = n + PadLength(n) + LengthBytes
    BY <2>3, <2>7, <2>8 DEF n
  <2> QED BY <2>2, <2>3, <2>4, <2>6, <2>7, <2>8, <2>9 DEF n
<1> HIDE DEF T
<1>2. All(m) = All(k)
  <2>1. Blocks(All(m)) = Blocks(All(k))
    BY <1>1
  <2>2. /\ All(m) \in Seq(T) /\ Len(All(m)) % BlockSize = 0
        /\ All(k) \in Seq(T) /\ Len(All(k)) % BlockSize = 0
    BY <1>1
  <2> HIDE DEF All
  <2> QED BY <2>1, <2>2, BlocksInjective
<1> DEFINE pm == Len(Pad(Len(m)))
           pk == Len(Pad(Len(k)))
           bm == Bytes(CountOf(Len(m)))
           bk == Bytes(CountOf(Len(k)))
           xm == m \o Pad(Len(m))
           xk == k \o Pad(Len(k))
<1>3. /\ pm \in 1..BlockSize /\ pk \in 1..BlockSize /\ Len(m) \in Nat /\ Len(k) \in Nat
      /\ xm \in Seq(T) /\ xk \in Seq(T) /\ bm \in Seq(T) /\ bk \in Seq(T)
      /\ Len(xm) = Len(m) + pm /\ Len(xk) = Len(k) + pk
      /\ Len(bm) = LengthBytes /\ Len(bk) = LengthBytes
      /\ m \in Seq(T) /\ k \in Seq(T)
      /\ Len(All(m)) = Len(m) + pm + LengthBytes /\ Len(All(k)) = Len(k) + pk + LengthBytes
  BY <1>1
<1>4. All(m) = xm \o bm /\ All(k) = xk \o bk
  OBVIOUS
<1> HIDE DEF pm, pk, All, bm, bk
<1>5. Len(m) + pm = Len(k) + pk
  BY <1>0, <1>2, <1>3
<1>6. \A i \in 1..LengthBytes : bm[i] = bk[i]
  <2> HIDE DEF xm, xk
  <2>1. Len(xm) \in Nat /\ Len(xk) = Len(xm)
    BY <1>3, <1>5
  <2>2. ASSUME NEW i \in 1..LengthBytes PROVE bm[i] = bk[i]
    <3>1. (xm \o bm)[Len(xm) + i] = bm[i]
      <4>1. i \in 1..Len(bm) /\ xm \in Seq(T) /\ bm \in Seq(T)
        BY <1>3
      <4> QED BY <4>1, SecondOf
    <3>2. (xk \o bk)[Len(xk) + i] = bk[i]
      <4>1. i \in 1..Len(bk) /\ xk \in Seq(T) /\ bk \in Seq(T)
        BY <1>3
      <4> QED BY <4>1, SecondOf
    <3> QED BY <1>2, <1>4, <2>1, <3>1, <3>2
  <2> QED BY <2>2
<1> DEFINE lm == CountOf(Len(m))[1]
           lk == CountOf(Len(k))[1]
<1>7. \A i \in 1..WordBytes : (lm \div Pow256[i]) % 256 = (lk \div Pow256[i]) % 256
  <2> TAKE i \in 1..WordBytes
  <2>1. i \in 1..LengthBytes /\ i <= WordBytes
    BY Words
  <2>2. bm[i] = (lm \div Pow256[i]) % 256 /\ bk[i] = (lk \div Pow256[i]) % 256
    BY <2>1 DEF bm, bk, Bytes
  <2> QED BY <1>6, <2>1, <2>2
<1>8. /\ lm = (8 * Len(m)) % Word /\ lk = (8 * Len(k)) % Word
      /\ lm \in 0..(Word - 1) /\ lk \in 0..(Word - 1)
  <2>1. lm = (8 * Len(m)) % Word /\ lk = (8 * Len(k)) % Word
    BY DEF CountOf
  <2>2. 8 * Len(m) \in Int /\ 8 * Len(k) \in Int /\ Word \in Nat \ {0}
    BY <1>3, Words
  <2>3. (8 * Len(m)) % Word \in 0..(Word - 1) /\ (8 * Len(k)) % Word \in 0..(Word - 1)
    BY <2>2, DivMod
  <2> HIDE DEF lm, lk
  <2> QED BY <2>1, <2>3
<1> HIDE DEF lm, lk
<1>9. lm = lk
  BY <1>7, <1>8, BytesOfWord
<1>10. Len(m) = Len(k)
  <2>1. Len(m) - Len(k) < BlockSize /\ Len(k) - Len(m) < BlockSize
    BY <1>0, <1>3, <1>5
  <2>2. (8 * Len(m)) % Word = (8 * Len(k)) % Word
    BY <1>8, <1>9
  <2> QED BY <1>3, <2>1, <2>2, SameLength
<1>11. ASSUME NEW i \in 1..Len(m) PROVE m[i] = k[i]
  <2>1. xm[i] = m[i]
    <3>1. /\ i \in 1..(Len(m) + Len(Pad(Len(m)))) /\ i <= Len(m)
          /\ m \in Seq(T) /\ Pad(Len(m)) \in Seq(T)
      BY <1>1, <1>3 DEF pm
    <3> QED BY <3>1, ConcatProperties
  <2>2. xk[i] = k[i]
    <3>1. /\ i \in 1..(Len(k) + Len(Pad(Len(k)))) /\ i <= Len(k)
          /\ k \in Seq(T) /\ Pad(Len(k)) \in Seq(T)
      BY <1>1, <1>3, <1>10 DEF pk
    <3> QED BY <3>1, ConcatProperties
  <2> HIDE DEF xm, xk
  <2>3. /\ i \in 1..(Len(xm) + Len(bm)) /\ i <= Len(xm)
        /\ i \in 1..(Len(xk) + Len(bk)) /\ i <= Len(xk)
    BY <1>0, <1>3, <1>10
  <2>4. (xm \o bm)[i] = xm[i] /\ (xk \o bk)[i] = xk[i]
    BY <1>3, <2>3, ConcatProperties
  <2> QED BY <1>2, <1>4, <2>1, <2>2, <2>4
<1> QED BY <1>3, <1>10, <1>11, SeqEqual

(***************************************************************************)
(* Texts.                                                                  *)
(***************************************************************************)
\* The end and the beginning of a text.
LEMMA FromIs ==
  ASSUME NEW S, NEW s \in Seq(S), NEW i \in 1..(Len(s) + 1)
  PROVE  /\ From(s, i) \in Seq(S) /\ Len(From(s, i)) = Len(s) - i + 1
         /\ \A j \in 1..(Len(s) - i + 1) : From(s, i)[j] = s[i + j - 1]
<1>1. \A j \in i..Len(s) : s[j] \in S
  OBVIOUS
<1>2. /\ SubSeq(s, i, Len(s)) \in Seq(S)
      /\ Len(SubSeq(s, i, Len(s))) = IF i <= Len(s) THEN Len(s) - i + 1 ELSE 0
      /\ \A j \in 1..(Len(s) - i + 1) : SubSeq(s, i, Len(s))[j] = s[i + j - 1]
  <2>1. i \in Int /\ Len(s) \in Int
    OBVIOUS
  <2> QED BY <1>1, <2>1, SubSeqProperties
<1> QED BY <1>2 DEF From

\* The beginning of a text has its first symbols.
LEMMA UptoIs ==
  ASSUME NEW S, NEW s \in Seq(S), NEW n \in 0..Len(s)
  PROVE  /\ SubSeq(s, 1, n) \in Seq(S) /\ Len(SubSeq(s, 1, n)) = n
         /\ \A j \in 1..n : SubSeq(s, 1, n)[j] = s[j]
<1>1. \A j \in 1..n : s[j] \in S
  OBVIOUS
<1>2. /\ SubSeq(s, 1, n) \in Seq(S)
      /\ Len(SubSeq(s, 1, n)) = IF 1 <= n THEN n - 1 + 1 ELSE 0
      /\ \A j \in 1..(n - 1 + 1) : SubSeq(s, 1, n)[j] = s[1 + j - 1]
  <2>1. 1 \in Int /\ n \in Int
    OBVIOUS
  <2> QED BY <1>1, <2>1, SubSeqProperties
<1> HIDE DEF From
<1>3. Len(SubSeq(s, 1, n)) = n
  BY <1>2
<1>4. ASSUME NEW j \in 1..n PROVE SubSeq(s, 1, n)[j] = s[j]
  <2>1. j \in 1..(n - 1 + 1) /\ 1 + j - 1 = j
    OBVIOUS
  <2> QED BY <1>2, <2>1
<1> QED BY <1>2, <1>3, <1>4

\* Two texts one after the other are taken apart again.
LEMMA Parts ==
  ASSUME NEW S, NEW s \in Seq(S), NEW t \in Seq(S)
  PROVE  SubSeq(s \o t, 1, Len(s)) = s /\ From(s \o t, Len(s) + 1) = t
<1> DEFINE u == s \o t
<1>1. /\ u \in Seq(S) /\ Len(u) = Len(s) + Len(t)
      /\ \A i \in 1..(Len(s) + Len(t)) : u[i] = IF i <= Len(s) THEN s[i] ELSE t[i - Len(s)]
  BY ConcatProperties
<1> HIDE DEF u
<1>2. SubSeq(u, 1, Len(s)) = s
  <2>1. Len(s) \in 0..Len(u)
    BY <1>1
  <2>2. /\ SubSeq(u, 1, Len(s)) \in Seq(S) /\ Len(SubSeq(u, 1, Len(s))) = Len(s)
        /\ \A j \in 1..Len(s) : SubSeq(u, 1, Len(s))[j] = u[j]
    BY <1>1, <2>1, UptoIs
  <2>3. \A j \in 1..Len(s) : SubSeq(u, 1, Len(s))[j] = s[j]
    BY <1>1, <2>2
  <2> QED BY <2>2, <2>3, SeqEqual
<1>3. From(u, Len(s) + 1) = t
  <2>1. Len(s) + 1 \in 1..(Len(u) + 1)
    BY <1>1
  <2>2. /\ From(u, Len(s) + 1) \in Seq(S) /\ Len(From(u, Len(s) + 1)) = Len(u) - (Len(s) + 1) + 1
        /\ \A j \in 1..(Len(u) - (Len(s) + 1) + 1) : From(u, Len(s) + 1)[j] = u[(Len(s) + 1) + j - 1]
    BY <1>1, <2>1, FromIs
  <2>3. Len(From(u, Len(s) + 1)) = Len(t)
    BY <1>1, <2>2
  <2>4. ASSUME NEW j \in 1..Len(t) PROVE From(u, Len(s) + 1)[j] = t[j]
    <3>1. j \in 1..(Len(u) - (Len(s) + 1) + 1) /\ (Len(s) + 1) + j - 1 = Len(s) + j
          /\ Len(s) + j \in 1..(Len(s) + Len(t)) /\ ~ (Len(s) + j <= Len(s)) /\ (Len(s) + j) - Len(s) = j
      BY <1>1
    <3> QED BY <1>1, <2>2, <3>1
  <2> QED BY <2>2, <2>3, <2>4, SeqEqual
<1> QED BY <1>2, <1>3 DEF u

\* strspn ends where the first symbol is that is not of the set,
LEMMA SpanIs ==
  ASSUME NEW S, NEW s \in Seq(S), NEW D
  PROVE  /\ Span(s, D) \in 0..Len(s)
         /\ \A i \in 1..Span(s, D) : s[i] \in D
         /\ Span(s, D) < Len(s) => s[Span(s, D) + 1] \notin D
<1> DEFINE T == {n \in Nat : n >= Len(s) \/ s[n + 1] \notin D}
<1>1. Len(s) \in T
  OBVIOUS
<1>2. PICK n \in T : \A y \in T : n <= y
  <2>1. T \in SUBSET Nat /\ T # {}
    BY <1>1
  <2> HIDE DEF T
  <2> QED BY <2>1, LeastNat
<1>3. n \in 0..Len(s)
  BY <1>1, <1>2
<1>4. ASSUME NEW i \in 1..n PROVE s[i] \in D
  <2>1. i - 1 \in Nat /\ i - 1 < n /\ (i - 1) + 1 = i
    OBVIOUS
  <2>2. i - 1 \notin T
    BY <1>2, <2>1, SMTT(30)
  <2> QED BY <2>1, <2>2
<1>5. n < Len(s) => s[n + 1] \notin D
  BY <1>2
<1> HIDE DEF T
<1> QED BY <1>3, <1>4, <1>5 DEF Span

\* and nowhere else.
LEMMA SpanUnique ==
  ASSUME NEW S, NEW s \in Seq(S), NEW D, NEW n \in 0..Len(s),
         \A i \in 1..n : s[i] \in D, n < Len(s) => s[n + 1] \notin D
  PROVE  Span(s, D) = n
<1> DEFINE k == Span(s, D)
<1>1. /\ k \in 0..Len(s) /\ \A i \in 1..k : s[i] \in D
      /\ k < Len(s) => s[k + 1] \notin D
  BY SpanIs
<1> HIDE DEF k
<1>2. ~ (k < n)
  <2> SUFFICES ASSUME k < n PROVE FALSE
    OBVIOUS
  <2>1. k + 1 \in 1..n /\ k < Len(s)
    BY <1>1
  <2> QED BY <1>1, <2>1
<1>3. ~ (n < k)
  <2> SUFFICES ASSUME n < k PROVE FALSE
    OBVIOUS
  <2>1. n + 1 \in 1..k /\ n < Len(s)
    BY <1>1
  <2> QED BY <1>1, <2>1
<1>4. k = n
  BY <1>1, <1>2, <1>3
<1> QED BY <1>4 DEF k

\* The span of a text that begins with symbols of the set, and then has one that is not.
LEMMA SpanOf ==
  ASSUME NEW S, NEW s \in Seq(S), NEW t \in Seq(S), NEW D,
         \A i \in 1..Len(s) : s[i] \in D, t # <<>> => t[1] \notin D
  PROVE  Span(s \o t, D) = Len(s)
<1> DEFINE u == s \o t
<1>1. /\ u \in Seq(S) /\ Len(u) = Len(s) + Len(t)
      /\ \A i \in 1..(Len(s) + Len(t)) : u[i] = IF i <= Len(s) THEN s[i] ELSE t[i - Len(s)]
  BY ConcatProperties
<1> HIDE DEF u
<1>2. Len(s) \in 0..Len(u) /\ \A i \in 1..Len(s) : u[i] \in D
  BY <1>1
<1>3. Len(s) < Len(u) => u[Len(s) + 1] \notin D
  <2> SUFFICES ASSUME Len(s) < Len(u) PROVE u[Len(s) + 1] \notin D
    OBVIOUS
  <2>1. Len(t) >= 1 /\ t # <<>>
    BY <1>1
  <2>2. u[Len(s) + 1] = t[1]
    <3>1. Len(s) + 1 \in 1..(Len(s) + Len(t)) /\ ~ (Len(s) + 1 <= Len(s)) /\ (Len(s) + 1) - Len(s) = 1
      BY <2>1
    <3> QED BY <1>1, <3>1
  <2> QED BY <2>1, <2>2
<1>4. Span(u, D) = Len(s)
  BY <1>1, <1>2, <1>3, SpanUnique
<1> QED BY <1>4 DEF u

\* Behind its end a text is empty.
LEMMA FromEnd ==
  ASSUME NEW S, NEW s \in Seq(S), NEW i \in Int, i > Len(s)
  PROVE  From(s, i) = <<>>
<1>1. Len(s) \in Int
  OBVIOUS
<1> QED BY <1>1, SubSeqEmpty DEF From

\* A word and what is left are parts of the text.
LEMMA SkipTyped ==
  ASSUME NEW S, NEW s \in Seq(S), NEW D, NEW W
  PROVE  /\ SkipQuoted(s, D, W).word \in Seq(S) /\ SkipQuoted(s, D, W).rest \in Seq(S)
         /\ Len(SkipQuoted(s, D, W).word) + Len(SkipQuoted(s, D, W).rest) <= Len(s)
<1> DEFINE n == Span(s, ToSet(s) \ D)
           rest == From(s, n + 2)
           k == Span(rest, W)
           word == SubSeq(s, 1, n)
           left == From(rest, k + 1)
<1>1. n \in 0..Len(s)
  BY SpanIs
<1> HIDE DEF n
<1>2. rest \in Seq(S) /\ Len(rest) <= Len(s) - n
  <2>1. CASE n = Len(s)
    <3>1. n + 2 \in Int /\ n + 2 > Len(s)
      BY <2>1, <1>1
    <3>2. rest = <<>>
      BY <3>1, FromEnd
    <3> HIDE DEF rest
    <3> QED BY <3>2, <2>1
  <2>2. CASE n < Len(s)
    <3>1. n + 2 \in 1..(Len(s) + 1)
      BY <1>1, <2>2
    <3>2. rest \in Seq(S) /\ Len(rest) = Len(s) - (n + 2) + 1
      BY <3>1, FromIs
    <3> HIDE DEF rest
    <3> QED BY <3>2, <1>1
  <2> QED BY <2>1, <2>2, <1>1
<1> HIDE DEF rest
<1>3. k \in 0..Len(rest)
  BY <1>2, SpanIs
<1> HIDE DEF k
<1>4. left \in Seq(S) /\ Len(left) = Len(rest) - (k + 1) + 1
  <2>1. k + 1 \in 1..(Len(rest) + 1)
    BY <1>2, <1>3
  <2> QED BY <1>2, <2>1, FromIs
<1>5. word \in Seq(S) /\ Len(word) = n
  BY <1>1, UptoIs
<1>6. SkipQuoted(s, D, W) = [word |-> word, rest |-> left]
  BY DEF SkipQuoted, n, rest, k
<1> HIDE DEF word, left
<1>7. Len(word) + Len(left) <= Len(s)
  BY <1>1, <1>2, <1>3, <1>4, <1>5
<1> QED BY <1>4, <1>5, <1>6, <1>7

\* A word, its delimiter and white space, and what follows.
LEMMA SkipOver ==
  ASSUME NEW S, NEW s \in Seq(S), NEW d \in S, NEW w \in Seq(S), NEW r \in Seq(S), NEW D, NEW W,
         \A i \in 1..Len(s) : s[i] \notin D, d \in D,
         \A i \in 1..Len(w) : w[i] \in W, r # <<>> => r[1] \notin W
  PROVE  /\ SkipQuoted(s \o (<<d>> \o (w \o r)), D, W).word = s
         /\ SkipQuoted(s \o (<<d>> \o (w \o r)), D, W).rest = r
<1> DEFINE v == w \o r
           t == <<d>> \o v
           u == s \o t
           n == Span(u, ToSet(u) \ D)
           rest == From(u, n + 2)
<1>1. v \in Seq(S) /\ <<d>> \in Seq(S) /\ Len(<<d>>) = 1 /\ <<d>>[1] = d
  BY ConcatProperties
<1>2. Span(v, W) = Len(w) /\ From(v, Len(w) + 1) = r
  BY SpanOf, Parts
<1> HIDE DEF v
<1>3. t \in Seq(S) /\ Len(t) = 1 + Len(v) /\ t[1] = d
  <2>1. /\ t \in Seq(S) /\ Len(t) = Len(<<d>>) + Len(v)
        /\ \A i \in 1..(Len(<<d>>) + Len(v)) : t[i] = IF i <= Len(<<d>>) THEN <<d>>[i] ELSE v[i - Len(<<d>>)]
    BY <1>1, ConcatProperties
  <2>2. 1 \in 1..(Len(<<d>>) + Len(v)) /\ 1 <= Len(<<d>>)
    BY <1>1
  <2> QED BY <1>1, <2>1, <2>2
<1>4. From(t, 2) = v
  <2>1. From(t, Len(<<d>>) + 1) = v
    BY <1>1, Parts
  <2> QED BY <1>1, <2>1
<1> HIDE DEF t
<1>5. u \in Seq(S) /\ Len(u) = Len(s) + Len(t) /\ (\A i \in 1..Len(s) : u[i] = s[i])
  <2>1. /\ u \in Seq(S) /\ Len(u) = Len(s) + Len(t)
        /\ \A i \in 1..(Len(s) + Len(t)) : u[i] = IF i <= Len(s) THEN s[i] ELSE t[i - Len(s)]
    BY <1>3, ConcatProperties, ZenonT(60)
  <2> HIDE DEF u
  <2> QED BY <1>3, <2>1
<1>6. \A i \in 1..Len(s) : s[i] \in ToSet(u) \ D
  <2> TAKE i \in 1..Len(s)
  <2>1. i \in DOMAIN u /\ u[i] = s[i]
    <3> HIDE DEF u
    <3> QED BY <1>3, <1>5
  <2> HIDE DEF u
  <2> QED BY <2>1 DEF ToSet
<1>7. n = Len(s)
  <2> DEFINE T == ToSet(u) \ D
  <2>1. \A i \in 1..Len(s) : s[i] \in T
    BY <1>6
  <2>2. t # <<>> => t[1] \notin T
    BY <1>3
  <2> HIDE DEF T
  <2>3. Span(s \o t, T) = Len(s)
    BY <1>3, <2>1, <2>2, SpanOf
  <2> QED BY <2>3 DEF T
<1>8. SubSeq(u, 1, Len(s)) = s
  BY <1>3, Parts
<1>9. rest = v
  <2>1. From(u, Len(s) + 2) = From(t, 2)
    <3> DEFINE k == Len(s) + 2
    <3>1. k \in 1..(Len(u) + 1) /\ 2 \in 1..(Len(t) + 1) /\ Len(u) - k + 1 = Len(t) - 2 + 1
      <4> HIDE DEF u
      <4> QED BY <1>3, <1>5, <1>1
    <3>2. /\ From(u, k) \in Seq(S) /\ Len(From(u, k)) = Len(u) - k + 1
          /\ \A j \in 1..(Len(u) - k + 1) : From(u, k)[j] = u[k + j - 1]
      <4> HIDE DEF u, k
      <4> QED BY <1>5, <3>1, FromIs, ZenonT(60)
    <3>3. /\ From(t, 2) \in Seq(S) /\ Len(From(t, 2)) = Len(t) - 2 + 1
          /\ \A j \in 1..(Len(t) - 2 + 1) : From(t, 2)[j] = t[2 + j - 1]
      BY <1>3, <3>1, FromIs, ZenonT(60)
    <3>4. ASSUME NEW j \in 1..(Len(t) - 2 + 1) PROVE u[k + j - 1] = t[2 + j - 1]
      <4>1. k + j - 1 \in 1..(Len(s) + Len(t)) /\ ~ (k + j - 1 <= Len(s)) /\ (k + j - 1) - Len(s) = 2 + j - 1
        BY <1>3
      <4> HIDE DEF k
      <4> QED BY <1>3, <4>1, ConcatProperties
    <3>5. From(u, k) = From(t, 2)
      <4> HIDE DEF u, k
      <4>1. \A j \in 1..Len(From(u, k)) : From(u, k)[j] = From(t, 2)[j]
        BY <3>1, <3>2, <3>3, <3>4
      <4>2. From(u, k) \in Seq(S) /\ From(t, 2) \in Seq(S) /\ Len(From(u, k)) = Len(From(t, 2))
        BY <3>1, <3>2, <3>3
      <4> QED BY <4>1, <4>2, SeqEqual
    <3> QED BY <3>5
  <2> QED BY <1>4, <1>7, <2>1
<1>10. /\ SkipQuoted(u, D, W).word = SubSeq(u, 1, n)
       /\ SkipQuoted(u, D, W).rest = From(rest, Span(rest, W) + 1)
  BY DEF SkipQuoted
<1> HIDE DEF u, n, rest
<1> QED BY <1>2, <1>7, <1>8, <1>9, <1>10 DEF u, t, v

\* A word that ends with the text.
LEMMA SkipAll ==
  ASSUME NEW S, NEW s \in Seq(S), NEW D, NEW W, \A i \in 1..Len(s) : s[i] \notin D
  PROVE  SkipQuoted(s, D, W).word = s /\ SkipQuoted(s, D, W).rest = <<>>
<1> DEFINE n == Span(s, ToSet(s) \ D)
           T == ToSet(s) \ D
           rest == From(s, n + 2)
<1>1. \A i \in 1..Len(s) : s[i] \in T
  BY DEF ToSet
<1>2. n = Len(s)
  <2> HIDE DEF T
  <2>1. Len(s) \in 0..Len(s)
    OBVIOUS
  <2>2. Span(s, T) = Len(s)
    BY <1>1, <2>1, SpanUnique
  <2> QED BY <2>2 DEF T
<1>3. rest = <<>>
  <2>1. n + 2 \in Int /\ n + 2 > Len(s)
    BY <1>2
  <2> HIDE DEF n
  <2> QED BY <2>1, FromEnd
<1>4. Span(<<>>, W) = 0
  <2>1. <<>> \in Seq(S) /\ Len(<<>>) = 0
    OBVIOUS
  <2>2. Span(<<>>, W) \in 0..Len(<<>>)
    BY <2>1, SpanIs
  <2> QED BY <2>1, <2>2
<1>5. From(<<>>, 0 + 1) = <<>>
  <2>1. <<>> \in Seq(S) /\ Len(<<>>) = 0 /\ 0 + 1 \in Int
    OBVIOUS
  <2>2. 0 + 1 > Len(<<>>)
    BY <2>1
  <2> QED BY <2>1, <2>2, FromEnd
<1>6. SkipQuoted(s, D, W).word = SubSeq(s, 1, n) /\ SkipQuoted(s, D, W).rest = From(rest, Span(rest, W) + 1)
  BY DEF SkipQuoted
<1> HIDE DEF n, rest
<1> QED BY <1>2, <1>3, <1>4, <1>5, <1>6, SubSeqFull

(***************************************************************************)
(* The headers.                                                            *)
(***************************************************************************)
Text == Seq(Symbols)

\* What parse_http_headers reads first, and what is left behind it.
Name(s)  == SkipQuoted(s, {":"}, {" "})
Value(s) == SkipTo(Name(s).rest, Eol)
Parsed(s) == [name |-> Name(s).word, value |-> Value(s).word]

\* A header is read from texts and leaves a shorter one, unless its name is empty.
LEMMA NameTyped ==
  ASSUME NEW s \in Text
  PROVE  /\ Name(s).word \in Text /\ Value(s).word \in Text /\ Value(s).rest \in Text
         /\ Name(s).word # <<>> => Len(Value(s).rest) < Len(s)
<1>1. /\ Name(s).word \in Text /\ Name(s).rest \in Text
      /\ Len(Name(s).word) + Len(Name(s).rest) <= Len(s)
  BY SkipTyped DEF Name, Text
<1>2. /\ Value(s).word \in Text /\ Value(s).rest \in Text
      /\ Len(Value(s).word) + Len(Value(s).rest) <= Len(Name(s).rest)
  BY <1>1, SkipTyped DEF Value, SkipTo, Text
<1>3. ASSUME Name(s).word # <<>> PROVE Len(Value(s).rest) < Len(s)
  <2> DEFINE a == Name(s).word
             b == Name(s).rest
             c == Value(s).word
             d == Value(s).rest
  <2>1. a \in Text /\ b \in Text /\ c \in Text /\ d \in Text /\ a # <<>> /\ Len(a) + Len(b) <= Len(s)
        /\ Len(c) + Len(d) <= Len(b)
    BY <1>1, <1>2, <1>3
  <2> HIDE DEF a, b, c, d
  <2>2. Len(a) \in Nat \ {0} /\ Len(b) \in Nat /\ Len(c) \in Nat /\ Len(d) \in Nat /\ Len(s) \in Nat
    BY <2>1, EmptySeq DEF Text
  <2>3. Len(d) < Len(s)
    BY <2>1, <2>2
  <2> QED BY <2>3 DEF d
<1> QED BY <1>1, <1>2, <1>3

\* parse_http_headers goes on behind each header it read, until a name is empty.
LEMMA ParseHeadersIs ==
  ASSUME NEW s \in Text
  PROVE  /\ ParseHeaders[s] \in Seq([name : Text, value : Text])
         /\ ParseHeaders[s] = IF Name(s).word = <<>> THEN <<>>
                              ELSE <<Parsed(s)>> \o ParseHeaders[Value(s).rest]
<1> DEFINE H == [name : Text, value : Text]
           V == Seq(H)
           m == [x \in Text |-> Len(x)]
           body == [x \in [Text -> V] \X Text |->
                      IF Name(x[2]).word = <<>> THEN <<>>
                      ELSE <<Parsed(x[2])>> \o x[1][Value(x[2]).rest]]
           Body(f) == [x \in Text |-> IF Name(x).word = <<>> THEN <<>>
                                      ELSE <<Parsed(x)>> \o f[Value(x).rest]]
<1>0. \A a, b \in V : a \o b \in V
  <2> HIDE DEF H
  <2> QED BY ConcatProperties
<1>1. /\ \A x \in Text : <<Parsed(x)>> \in V /\ Value(x).rest \in Text
      /\ <<>> \in V
  <2>1. \A x \in Text : Parsed(x) \in H /\ Value(x).rest \in Text
    BY NameTyped DEF Parsed
  <2> HIDE DEF H
  <2>2. \A h \in H : <<h>> \in Seq(H)
    OBVIOUS
  <2>3. \A x \in Text : <<Parsed(x)>> \in V
    BY <2>1, <2>2
  <2>4. <<>> \in V
    OBVIOUS
  <2> QED BY <2>1, <2>3, <2>4
<1> HIDE DEF H, V
<1>2. \A f \in [Text -> V], x \in Text :
        /\ body[<<f, x>>] = (IF Name(x).word = <<>> THEN <<>> ELSE <<Parsed(x)>> \o f[Value(x).rest])
        /\ body[<<f, x>>] \in V
  <2> TAKE f \in [Text -> V], x \in Text
  <2>1. body[<<f, x>>] = (IF Name(x).word = <<>> THEN <<>> ELSE <<Parsed(x)>> \o f[Value(x).rest])
    OBVIOUS
  <2>2. f[Value(x).rest] \in V
    BY <1>1
  <2> HIDE DEF body
  <2> QED BY <1>0, <1>1, <2>1, <2>2
<1>3. body \in [[Text -> V] \X Text -> V]
  <2>1. DOMAIN body = [Text -> V] \X Text /\ body = [x \in [Text -> V] \X Text |-> body[x]]
    OBVIOUS
  <2>2. \A x \in [Text -> V] \X Text : body[x] \in V
    <3> TAKE x \in [Text -> V] \X Text
    <3>1. x = <<x[1], x[2]>> /\ x[1] \in [Text -> V] /\ x[2] \in Text
      OBVIOUS
    <3> HIDE DEF body
    <3> QED BY <1>2, <3>1
  <2> HIDE DEF body
  <2> QED BY <2>1, <2>2
<1> HIDE DEF body
<1>4. m \in [Text -> Nat] /\ \A x \in Text : m[x] = Len(x)
  BY DEF Text
<1> HIDE DEF m
<1>5. Contractive(Text, V, m, body)
  <2>1. ASSUME NEW g \in [Text -> V], NEW h \in [Text -> V], NEW x \in Text,
               \A y \in Text : m[y] < m[x] => g[y] = h[y]
        PROVE  body[<<g, x>>] = body[<<h, x>>]
    <3>1. Name(x).word # <<>> => g[Value(x).rest] = h[Value(x).rest]
      BY <1>1, <1>4, <2>1, NameTyped
    <3> QED BY <1>2, <3>1
  <2> QED BY <1>3, <2>1 DEF Contractive
<1>6. PICK f : Solves(Text, V, body, f)
  <2>1. V # {}
    BY <1>1
  <2> QED BY <1>4, <1>5, <2>1, RecursiveFunctionExists
<1>7. f \in [Text -> V] /\ f = Body(f)
  <2>1. f \in [Text -> V] /\ \A x \in Text : f[x] = IF Name(x).word = <<>> THEN <<>>
                                                    ELSE <<Parsed(x)>> \o f[Value(x).rest]
    BY <1>2, <1>6 DEF Solves
  <2> QED BY <2>1
<1>8. ParseHeaders = Body(ParseHeaders)
  <2>1. ParseHeaders = CHOOSE g : g = Body(g)
    BY DEF ParseHeaders, Text, Parsed, Value, Name, Eol
  <2> HIDE DEF Body
  <2> QED BY <1>7, <2>1
<1> DEFINE F == ParseHeaders
<1>9. /\ DOMAIN F = Text
      /\ \A x \in Text : F[x] = IF Name(x).word = <<>> THEN <<>> ELSE <<Parsed(x)>> \o F[Value(x).rest]
  <2> HIDE DEF F
  <2>1. F = Body(F)
    BY <1>8 DEF F
  <2>2. /\ DOMAIN Body(F) = Text
        /\ \A x \in Text : Body(F)[x] = IF Name(x).word = <<>> THEN <<>> ELSE <<Parsed(x)>> \o F[Value(x).rest]
    OBVIOUS
  <2> HIDE DEF Body
  <2> QED BY <2>1, <2>2
<1> HIDE DEF F
<1> DEFINE P == {x \in Text : F[x] \in V}
<1>10. ASSUME NEW x \in Text, \A y \in Text : m[y] < m[x] => y \in P PROVE x \in P
  <2>1. CASE Name(x).word = <<>>
    BY <1>1, <1>9, <2>1
  <2>2. CASE Name(x).word # <<>>
    <3>1. F[Value(x).rest] \in V
      BY <1>1, <1>4, <1>10, <2>2, NameTyped
    <3>2. F[x] = <<Parsed(x)>> \o F[Value(x).rest] /\ <<Parsed(x)>> \in V
      BY <1>1, <1>9, <2>2
    <3> QED BY <1>0, <3>1, <3>2
  <2> QED BY <2>1, <2>2
<1>11. Text \subseteq P
  <2> HIDE DEF P
  <2> QED BY <1>4, <1>10, MeasureInduction
<1> QED BY <1>9, <1>11 DEF F, V, H

\* The first symbol of two texts.
LEMMA FirstOf ==
  ASSUME NEW S, NEW s \in Seq(S), NEW t \in Seq(S)
  PROVE  /\ s # <<>> => (s \o t)[1] = s[1]
         /\ s = <<>> => s \o t = t
<1>1. ASSUME s # <<>> PROVE (s \o t)[1] = s[1]
  <2>1. 1 \in 1..(Len(s) + Len(t)) /\ 1 <= Len(s)
    BY <1>1
  <2> QED BY <2>1, ConcatProperties
<1> QED BY <1>1, ConcatEmptySeq

\* A text begins with its first symbol.
LEMMA HeadFirst ==
  ASSUME NEW S, NEW s \in Seq(S), s # <<>>
  PROVE  /\ s[1] \in S /\ Tail(s) \in Seq(S) /\ s = <<s[1]>> \o Tail(s)
         /\ \A i \in 1..Len(Tail(s)) : Tail(s)[i] = s[i + 1] /\ i + 1 \in 1..Len(s)
<1>1. /\ s[1] \in S /\ Tail(s) \in Seq(S) /\ Len(Tail(s)) = Len(s) - 1
      /\ \A i \in 1..Len(Tail(s)) : Tail(s)[i] = s[i + 1]
  BY HeadTailProperties
<1>2. Len(s) \in Nat \ {0}
  BY EmptySeq
<1>3. s = <<s[1]>> \o Tail(s)
  <2> DEFINE h == <<s[1]>>
             t == Tail(s)
  <2>1. h \in Seq(S) /\ Len(h) = 1 /\ h[1] = s[1]
    BY <1>1
  <2>2. /\ h \o t \in Seq(S) /\ Len(h \o t) = Len(h) + Len(t)
        /\ \A i \in 1..(Len(h) + Len(t)) : (h \o t)[i] = IF i <= Len(h) THEN h[i] ELSE t[i - Len(h)]
    <3>1. t \in Seq(S)
      BY <1>1
    <3> HIDE DEF h, t
    <3> QED BY <2>1, <3>1, ConcatProperties
  <2>3. Len(h \o t) = Len(s)
    <3> HIDE DEF h, t
    <3> QED BY <1>1, <1>2, <2>1, <2>2 DEF t
  <2>4. ASSUME NEW i \in 1..Len(s) PROVE (h \o t)[i] = s[i]
    <3>1. i \in 1..(Len(h) + Len(t))
      BY <1>1, <2>1
    <3>2. CASE i = 1
      BY <2>1, <2>2, <3>1, <3>2
    <3>3. CASE i # 1
      <4>1. ~ (i <= Len(h)) /\ i - Len(h) = i - 1 /\ i - 1 \in 1..Len(t) /\ (i - 1) + 1 = i
        BY <1>1, <2>1, <3>3
      <4> HIDE DEF h
      <4> QED BY <1>1, <2>2, <3>1, <4>1
    <3> QED BY <3>2, <3>3
  <2> HIDE DEF h, t
  <2>5. s = h \o t
    BY <2>2, <2>3, <2>4, SeqEqual
  <2> QED BY <2>5 DEF h, t
<1> QED BY <1>1, <1>2, <1>3

(***************************************************************************)
(* Texts one after the other, and what is known of their symbols.          *)
(***************************************************************************)
\* Of symbols of D only, of none of D, not beginning with one of D; what skip_quoted makes
\* of s.
Inside(s, D)  == \A i \in 1..Len(s) : s[i] \in D
Outside(s, D) == \A i \in 1..Len(s) : s[i] \notin D
Behind(s, D)  == s # <<>> => s[1] \notin D
Skips(s, D, W, word, rest) == SkipQuoted(s, D, W).word = word /\ SkipQuoted(s, D, W).rest = rest

\* A word, its delimiter and white space are skipped over; and so is a word to the end.
LEMMA SkipsOver ==
  ASSUME NEW S, NEW s \in Seq(S), NEW d \in S, NEW w \in Seq(S), NEW r \in Seq(S), NEW D, NEW W,
         Outside(s, D), d \in D, Inside(w, W), Behind(r, W)
  PROVE  Skips(Cat(s, Cat(One(d), Cat(w, r))), D, W, s, r)
<1>1. \A i \in 1..Len(s) : s[i] \notin D
  BY DEF Outside
<1>2. \A i \in 1..Len(w) : w[i] \in W
  BY DEF Inside
<1>3. r # <<>> => r[1] \notin W
  BY DEF Behind
<1>4. /\ SkipQuoted(s \o (<<d>> \o (w \o r)), D, W).word = s
      /\ SkipQuoted(s \o (<<d>> \o (w \o r)), D, W).rest = r
  BY <1>1, <1>2, <1>3, SkipOver
<1> QED BY <1>4 DEF Skips, Cat, One

\* A text without the delimiter is one word.
LEMMA SkipsAll ==
  ASSUME NEW S, NEW s \in Seq(S), NEW D, NEW W, Outside(s, D)
  PROVE  Skips(s, D, W, s, <<>>)
<1>1. \A i \in 1..Len(s) : s[i] \notin D
  BY DEF Outside
<1> QED BY <1>1, SkipAll DEF Skips

\* The symbols of a set a text begins with, and the others.
LEMMA SpanSplits ==
  ASSUME NEW S, NEW s \in Seq(S), NEW D, NEW T, Outside(s, T)
  PROVE  \E w \in Seq(S) :
            /\ s = Cat(w, From(s, Span(s, D) + 1)) /\ From(s, Span(s, D) + 1) \in Seq(S)
            /\ Inside(w, D) /\ Behind(From(s, Span(s, D) + 1), D)
            /\ Outside(From(s, Span(s, D) + 1), T)
<1> DEFINE k == Span(s, D)
           w == SubSeq(s, 1, k)
           r == From(s, k + 1)
<1>1. /\ k \in 0..Len(s) /\ \A i \in 1..k : s[i] \in D
      /\ k < Len(s) => s[k + 1] \notin D
  BY SpanIs
<1> HIDE DEF k
<1>2. k + 1 \in 1..(Len(s) + 1)
  BY <1>1
<1>3. w \in Seq(S) /\ Len(w) = k /\ \A j \in 1..k : w[j] = s[j]
  BY <1>1, UptoIs
<1>4. /\ r \in Seq(S) /\ Len(r) = Len(s) - (k + 1) + 1
      /\ \A j \in 1..(Len(s) - (k + 1) + 1) : r[j] = s[(k + 1) + j - 1]
  BY <1>2, FromIs
<1>5. s = w \o r
  <2>1. 1 \in 1..(Len(s) + 1) /\ k \in (1 - 1)..Len(s) /\ Len(s) \in k..Len(s)
    BY <1>1
  <2>2. SubSeq(s, 1, k) \o SubSeq(s, k + 1, Len(s)) = SubSeq(s, 1, Len(s))
    BY <2>1, ConcatAdjacentSubSeq
  <2>3. SubSeq(s, 1, Len(s)) = s
    BY SubSeqFull
  <2> QED BY <2>2, <2>3 DEF From
<1> HIDE DEF w, r
<1>6. \A i \in 1..Len(w) : w[i] \in D
  BY <1>1, <1>3
<1>7. r # <<>> => r[1] \notin D
  <2> SUFFICES ASSUME r # <<>> PROVE r[1] \notin D
    OBVIOUS
  <2>1. Len(r) >= 1
    BY <1>4
  <2>2. k < Len(s) /\ 1 \in 1..(Len(s) - (k + 1) + 1) /\ (k + 1) + 1 - 1 = k + 1
    BY <1>1, <1>4, <2>1
  <2>3. r[1] = s[k + 1]
    BY <1>4, <2>2
  <2> QED BY <1>1, <2>2, <2>3
<1>8. Outside(r, T)
  <2> SUFFICES \A i \in 1..Len(r) : r[i] \notin T
    BY DEF Outside
  <2> TAKE i \in 1..Len(r)
  <2>1. i \in 1..(Len(s) - (k + 1) + 1) /\ (k + 1) + i - 1 \in 1..Len(s)
    BY <1>1, <1>4
  <2> QED BY <1>4, <2>1 DEF Outside
<1>9. r = From(s, Span(s, D) + 1)
  BY DEF r, k
<1>10. s = Cat(w, r) /\ Inside(w, D) /\ Behind(r, D)
  BY <1>5, <1>6, <1>7 DEF Cat, Inside, Behind
<1> QED BY <1>3, <1>4, <1>8, <1>9, <1>10

\* Two texts one after the other: none of the symbols begins them.
LEMMA CatBehind ==
  ASSUME NEW S, NEW s \in Seq(S), NEW t \in Seq(S), NEW D, Behind(s, D), Behind(t, D)
  PROVE  Behind(Cat(s, t), D)
<1>1. CASE s = <<>>
  BY <1>1, CatEmpty
<1>2. CASE s # <<>>
  <2>1. (s \o t)[1] = s[1]
    BY <1>2, FirstOf
  <2> QED BY <1>2, <2>1 DEF Behind, Cat
<1> QED BY <1>1, <1>2

\* The end of a line: symbols that end it, of which the first is no white space, and another
\* line or nothing.
EndsLine(e, E, W, rest) ==
  /\ Inside(e, E) /\ Behind(e, W) /\ Behind(rest, E)
  /\ e = <<>> => rest = <<>>

\* A name, a delimiter, a value that may begin with white space, and the end of the line.
LEMMA OneLine ==
  ASSUME NEW S, NEW c \in S, NEW E, NEW W, NEW n \in Seq(S), NEW v \in Seq(S), NEW e \in Seq(S),
         NEW rest \in Seq(S), Outside(n, {c}), Outside(v, E), EndsLine(e, E, W, rest)
  PROVE  \E left \in Seq(S) :
           /\ Skips(Cat(n, Cat(One(c), Cat(v, Cat(e, rest)))), {c}, W, n, left)
           /\ Skips(left, E, E, From(v, Span(v, W) + 1), rest)
<1> DEFINE r == From(v, Span(v, W) + 1)
<1>1. PICK w \in Seq(S) : v = Cat(w, r) /\ r \in Seq(S) /\ Inside(w, W) /\ Behind(r, W) /\ Outside(r, E)
  BY SpanSplits
<1> HIDE DEF r
<1> DEFINE tail == Cat(e, rest)
           u == Cat(r, tail)
<1>2. tail \in Seq(S) /\ u \in Seq(S)
  BY <1>1, CatTyped
<1>3. Inside(e, E) /\ Behind(e, W) /\ Behind(rest, E) /\ (e = <<>> => rest = <<>>)
  BY DEF EndsLine
<1>4. Behind(tail, W)
  <2>1. CASE e = <<>>
    <3>1. tail = <<>>
      BY <1>3, <2>1, CatEmpty
    <3> QED BY <3>1 DEF Behind
  <2>2. CASE e # <<>>
    <3>1. (e \o rest)[1] = e[1]
      BY <2>2, FirstOf
    <3> QED BY <1>3, <2>2, <3>1 DEF Behind, Cat
  <2> QED BY <2>1, <2>2
<1>5. Behind(u, W)
  BY <1>1, <1>2, <1>4, CatBehind
<1>6. Cat(v, tail) = Cat(w, u)
  BY <1>1, <1>2, CatAssoc
<1>7. Skips(Cat(n, Cat(One(c), Cat(v, tail))), {c}, W, n, u)
  BY <1>1, <1>2, <1>5, <1>6, SkipsOver
<1>8. Skips(u, E, E, r, rest)
  <2>1. CASE e = <<>>
    <3>1. rest = <<>> /\ u = r
      BY <1>1, <1>3, <2>1, CatEmpty
    <3> QED BY <1>1, <3>1, SkipsAll
  <2>2. CASE e # <<>>
    <3> DEFINE d == e[1]
               t == Tail(e)
    <3>1. /\ d \in S /\ t \in Seq(S) /\ e = <<d>> \o t
          /\ \A i \in 1..Len(t) : t[i] = e[i + 1] /\ i + 1 \in 1..Len(e)
      BY <2>2, HeadFirst
    <3>2. 1 \in 1..Len(e)
      BY <2>2
    <3>3. d \in E
      BY <1>3, <3>2 DEF Inside
    <3> HIDE DEF d, t
    <3>4. Inside(t, E)
      BY <1>3, <3>1 DEF Inside
    <3>5. e = Cat(One(d), t) /\ One(d) \in Seq(S)
      BY <3>1, OneTyped DEF Cat, One
    <3>6. tail = Cat(One(d), Cat(t, rest))
      <4>1. One(d) \in Seq(S) /\ t \in Seq(S)
        BY <3>1, <3>5
      <4>2. Cat(Cat(One(d), t), rest) = Cat(One(d), Cat(t, rest))
        BY <4>1, CatAssoc
      <4> QED BY <3>5, <4>2
    <3> QED BY <1>1, <1>3, <3>1, <3>3, <3>4, <3>6, SkipsOver
  <2> QED BY <2>1, <2>2
<1> QED BY <1>2, <1>7, <1>8 DEF r

\* A line of the head, and the header parse_http_headers makes of it.
LineText(l, e) == Cat(l.name, Cat(One(":"), Cat(l.value, e)))
Stripped(v)    == From(v, Span(v, {" "}) + 1)
Header(l)      == [name |-> l.name, value |-> Stripped(l.value)]

\* What the server needs of a header to read it back.
IsLine(l) == /\ l.name \in Text /\ l.name # <<>> /\ l.value \in Text
             /\ Outside(l.name, {":"}) /\ Outside(l.name, Eol) /\ Outside(l.value, Eol)

\* A line is a text that begins with no end of a line, and what follows it can be taken
\* for a part of its end.
LEMMA LineTyped ==
  ASSUME NEW l, IsLine(l), NEW e \in Text, NEW rest \in Text
  PROVE  /\ LineText(l, e) \in Text
         /\ Cat(LineText(l, e), rest) = LineText(l, Cat(e, rest))
         /\ Behind(LineText(l, e), Eol)
<1> DEFINE n == l.name
           v == l.value
           c == One(":")
<1>1. n \in Text /\ n # <<>> /\ v \in Text /\ Outside(n, Eol)
  BY DEF IsLine
<1>2. c \in Text
  <2>1. ":" \in Symbols
    BY HttpConstants DEF Delimiters
  <2> HIDE DEF c
  <2> QED BY <2>1, OneTyped DEF c, Text
<1> HIDE DEF n, v, c
<1>3. Cat(v, e) \in Text /\ Cat(c, Cat(v, e)) \in Text /\ Cat(n, Cat(c, Cat(v, e))) \in Text
  BY <1>1, <1>2, CatTyped DEF Text
<1>4. Cat(Cat(n, Cat(c, Cat(v, e))), rest) = Cat(n, Cat(c, Cat(v, Cat(e, rest))))
  <2>1. Cat(Cat(v, e), rest) = Cat(v, Cat(e, rest))
    BY <1>1, CatAssoc DEF Text
  <2>2. Cat(Cat(c, Cat(v, e)), rest) = Cat(c, Cat(Cat(v, e), rest))
    BY <1>2, <1>3, CatAssoc DEF Text
  <2>3. Cat(Cat(n, Cat(c, Cat(v, e))), rest) = Cat(n, Cat(Cat(c, Cat(v, e)), rest))
    BY <1>1, <1>3, CatAssoc DEF Text
  <2> QED BY <2>1, <2>2, <2>3
<1>5. Behind(Cat(n, Cat(c, Cat(v, e))), Eol)
  <2> DEFINE t == Cat(c, Cat(v, e))
  <2>1. t \in Text
    BY <1>3
  <2> HIDE DEF t
  <2>2. (n \o t)[1] = n[1]
    BY <1>1, <2>1, FirstOf DEF Text
  <2>3. 1 \in 1..Len(n)
    BY <1>1 DEF Text
  <2>4. n[1] \notin Eol
    BY <1>1, <2>3 DEF Outside
  <2>5. Behind(Cat(n, t), Eol)
    BY <2>2, <2>4 DEF Behind, Cat
  <2> QED BY <2>5 DEF t
<1> QED BY <1>3, <1>4, <1>5 DEF LineText, n, v, c

\* parse_http_headers reads a line as its name and its value without the spaces it begins with.
LEMMA OneHeader ==
  ASSUME NEW l, IsLine(l), NEW e \in Text, NEW rest \in Text, Inside(e, Eol), Behind(rest, Eol),
         e = <<>> => rest = <<>>
  PROVE  /\ Header(l) \in [name : Text, value : Text]
         /\ ParseHeaders[LineText(l, Cat(e, rest))] = Cat(One(Header(l)), ParseHeaders[rest])
<1> DEFINE n == l.name
           v == l.value
           c == ":"
           W == {" "}
           text == LineText(l, Cat(e, rest))
<1>1. n \in Text /\ n # <<>> /\ v \in Text /\ Outside(n, {c}) /\ Outside(v, Eol)
  BY DEF IsLine
<1>2. c \in Symbols
  BY HttpConstants DEF Delimiters
<1>3. EndsLine(e, Eol, W, rest)
  <2>1. Behind(e, W)
    <3> SUFFICES ASSUME e # <<>> PROVE e[1] \notin W
      BY DEF Behind
    <3>1. 1 \in 1..Len(e)
      BY DEF Text
    <3>2. e[1] \in Eol
      BY <3>1 DEF Inside
    <3> QED BY <3>2 DEF Eol
  <2> HIDE DEF W
  <2> QED BY <2>1 DEF EndsLine
<1>4. text \in Text
  <2>1. Cat(e, rest) \in Text
    BY CatTyped DEF Text
  <2> QED BY <2>1, LineTyped
<1>5. text = Cat(n, Cat(One(c), Cat(v, Cat(e, rest))))
  BY DEF LineText
<1> HIDE DEF n, v, c, W, text
<1>6. PICK left \in Text : /\ Skips(text, {c}, W, n, left)
                           /\ Skips(left, Eol, Eol, From(v, Span(v, W) + 1), rest)
  BY <1>1, <1>2, <1>3, <1>5, OneLine DEF Text
<1>7. Name(text).word = n /\ Name(text).rest = left
  BY <1>6 DEF Skips, Name, c, W
<1>8. Value(text).word = From(v, Span(v, W) + 1) /\ Value(text).rest = rest
  BY <1>6, <1>7 DEF Skips, Value, SkipTo
<1>9. Parsed(text) = Header(l)
  BY <1>7, <1>8 DEF Parsed, Header, Stripped, n, v, W
<1>10. Parsed(text) \in [name : Text, value : Text]
  BY <1>4, NameTyped DEF Parsed
<1>11. ParseHeaders[text] = <<Parsed(text)>> \o ParseHeaders[Value(text).rest]
  BY <1>1, <1>4, <1>7, ParseHeadersIs
<1>12. ParseHeaders[text] = Cat(One(Header(l)), ParseHeaders[rest])
  BY <1>8, <1>9, <1>11 DEF Cat, One
<1> QED BY <1>9, <1>10, <1>12 DEF text

\* Where there is no line there is no header.
LEMMA NoHeaders == ParseHeaders[<<>>] = <<>>
<1>1. <<>> \in Text
  BY DEF Text
<1>2. Outside(<<>>, {":"})
  BY DEF Outside
<1>3. Skips(<<>>, {":"}, {" "}, <<>>, <<>>)
  <2> DEFINE D == {":"}
             W == {" "}
             s == <<>>
  <2>1. s \in Seq(Symbols) /\ Outside(s, D)
    BY <1>1, <1>2 DEF Text
  <2> HIDE DEF D, W, s
  <2>2. Skips(s, D, W, s, <<>>)
    BY <2>1, SkipsAll
  <2> QED BY <2>2 DEF D, W, s
<1>4. Name(<<>>).word = <<>>
  BY <1>3 DEF Skips, Name
<1> QED BY <1>1, <1>4, ParseHeadersIs

\* The headers.
Pairs == [name : Text, value : Text]

\* The headers of the first k lines.
HeadersOf(l, k) == [i \in 1..k |-> Header(l[i])]

\* The headers of one more line.
LEMMA HeadersAdd ==
  ASSUME NEW l, NEW k \in Nat, \A i \in 1..(k + 1) : Header(l[i]) \in Pairs
  PROVE  /\ HeadersOf(l, k) \in Seq(Pairs) /\ HeadersOf(l, k + 1) \in Seq(Pairs)
         /\ Cat(HeadersOf(l, k), One(Header(l[k + 1]))) = HeadersOf(l, k + 1)
<1> DEFINE f == HeadersOf(l, k)
           g == HeadersOf(l, k + 1)
           x == Header(l[k + 1])
           o == One(x)
<1>1. f \in Seq(Pairs) /\ Len(f) = k /\ \A i \in 1..k : f[i] = Header(l[i])
  <2> HIDE DEF x, o, g
  <2> QED BY DEF HeadersOf
<1>2. g \in Seq(Pairs) /\ Len(g) = k + 1 /\ \A i \in 1..(k + 1) : g[i] = Header(l[i])
  <2> HIDE DEF x, o, f
  <2> QED BY DEF HeadersOf
<1>3. x \in Pairs
  OBVIOUS
<1> HIDE DEF f, g
<1>4. x = Header(l[k + 1])
  OBVIOUS
<1> HIDE DEF x
<1>5. o \in Seq(Pairs) /\ Len(o) = 1 /\ o[1] = x
  BY <1>3 DEF One
<1> HIDE DEF o
<1>6. /\ f \o o \in Seq(Pairs) /\ Len(f \o o) = Len(f) + Len(o)
      /\ \A i \in 1..(Len(f) + Len(o)) : (f \o o)[i] = IF i <= Len(f) THEN f[i] ELSE o[i - Len(f)]
  BY <1>1, <1>5, ConcatProperties
<1>7. Len(f \o o) = Len(g)
  BY <1>1, <1>2, <1>5, <1>6
<1>8. ASSUME NEW i \in 1..Len(f \o o) PROVE (f \o o)[i] = g[i]
  <2>1. i \in 1..(k + 1) /\ i \in 1..(Len(f) + Len(o))
    BY <1>1, <1>5, <1>6
  <2>2. CASE i <= k
    <3>1. i \in 1..k
      BY <2>1, <2>2
    <3> QED BY <1>1, <1>2, <1>6, <2>1, <2>2, <3>1
  <2>3. CASE ~ (i <= k)
    <3>1. i = k + 1 /\ i - Len(f) = 1
      BY <1>1, <2>1, <2>3
    <3> QED BY <1>1, <1>2, <1>4, <1>5, <1>6, <2>1, <2>3, <3>1
  <2> QED BY <2>2, <2>3
<1>9. f \o o = g
  BY <1>2, <1>6, <1>7, <1>8, SeqEqual
<1> QED BY <1>1, <1>2, <1>9 DEF f, g, o, x, Cat

\* The first n are lines, and u has the texts of the first ones joined.
AreLines(n, l) == \A i \in 1..n : IsLine(l[i])
Joins(n, l, e, u) == /\ \A k \in 0..n : u[k] \in Text
                     /\ u[0] = <<>>
                     /\ \A k \in 1..n : u[k] = Cat(u[k - 1], LineText(l[k], e))

\* The headers of the first k lines, and what is read behind them.
ReadsLines(n, l, u) ==
  \A k \in 0..n, rest \in Text :
    Behind(rest, Eol) => /\ HeadersOf(l, k) \in Seq(Pairs)
                         /\ ParseHeaders[Cat(u[k], rest)] = Cat(HeadersOf(l, k), ParseHeaders[rest])

\* parse_http_headers reads all the lines.
LEMMA ManyHeaders ==
  ASSUME NEW n \in Nat, NEW l, AreLines(n, l), NEW e \in Text, e # <<>>, Inside(e, Eol),
         NEW u, Joins(n, l, e, u)
  PROVE  ReadsLines(n, l, u)
<1> DEFINE Reads(k, rest) ==
             /\ HeadersOf(l, k) \in Seq(Pairs)
             /\ ParseHeaders[Cat(u[k], rest)] = Cat(HeadersOf(l, k), ParseHeaders[rest])
           N == {k \in Nat : k <= n => \A rest \in Text : Behind(rest, Eol) => Reads(k, rest)}
<1>0. \A t \in Text : ParseHeaders[t] \in Seq(Pairs)
  BY ParseHeadersIs DEF Pairs
<1>1. 0 \in N
  <2> SUFFICES ASSUME NEW rest \in Text PROVE Reads(0, rest)
    OBVIOUS
  <2>1. HeadersOf(l, 0) = <<>> /\ u[0] = <<>>
    BY DEF HeadersOf, Joins
  <2>2. Cat(<<>>, rest) = rest
    BY CatEmpty DEF Text
  <2>3. Cat(<<>>, ParseHeaders[rest]) = ParseHeaders[rest]
    BY <1>0, CatEmpty
  <2>4. <<>> \in Seq(Pairs)
    BY EmptySeq
  <2> QED BY <2>1, <2>2, <2>3, <2>4
<1>2. ASSUME NEW k \in Nat, k \in N PROVE k + 1 \in N
  <2> SUFFICES ASSUME k + 1 <= n, NEW rest \in Text, Behind(rest, Eol) PROVE Reads(k + 1, rest)
    OBVIOUS
  <2> DEFINE x == l[k + 1]
             line == LineText(x, e)
             tail == Cat(line, rest)
  <2>1. /\ k + 1 \in 1..n /\ k \in 0..n /\ k <= n /\ (k + 1) - 1 = k
    OBVIOUS
  <2>2. IsLine(x)
    BY <2>1 DEF AreLines
  <2>3. u[k + 1] = Cat(u[k], line) /\ u[k] \in Text
    BY <2>1 DEF Joins
  <2> HIDE DEF x
  <2>4. /\ line \in Text /\ tail = LineText(x, Cat(e, rest)) /\ Behind(line, Eol)
    BY <2>2, LineTyped
  <2>5. Header(x) \in Pairs /\ ParseHeaders[tail] = Cat(One(Header(x)), ParseHeaders[rest])
    BY <2>2, <2>4, OneHeader DEF Pairs
  <2> HIDE DEF line
  <2>6. tail \in Text
    BY <2>4, CatTyped DEF Text
  <2>7. Behind(tail, Eol)
    <3>1. CASE line = <<>>
      <4>1. tail = rest
        BY <3>1, CatEmpty DEF Text
      <4> QED BY <4>1
    <3>2. CASE line # <<>>
      <4>1. (line \o rest)[1] = line[1]
        BY <2>4, <3>2, FirstOf DEF Text
      <4> QED BY <2>4, <3>2, <4>1 DEF Behind, Cat
    <3> QED BY <3>1, <3>2
  <2>8. Cat(u[k + 1], rest) = Cat(u[k], tail)
    <3>1. Cat(Cat(u[k], line), rest) = Cat(u[k], Cat(line, rest))
      BY <2>3, <2>4, CatAssoc DEF Text
    <3> QED BY <2>3, <3>1
  <2> HIDE DEF tail
  <2>9. Reads(k, tail)
    BY <1>2, <2>1, <2>6, <2>7
  <2>10. \A i \in 1..(k + 1) : Header(l[i]) \in Pairs
    <3> TAKE i \in 1..(k + 1)
    <3>1. i \in 1..n
      BY <2>1
    <3>2. IsLine(l[i])
      BY <3>1 DEF AreLines
    <3>3. <<>> \in Text /\ Inside(<<>>, Eol) /\ Behind(<<>>, Eol)
      BY DEF Text, Inside, Behind
    <3> QED BY <3>2, <3>3, OneHeader DEF Pairs
  <2>11. /\ HeadersOf(l, k) \in Seq(Pairs) /\ HeadersOf(l, k + 1) \in Seq(Pairs)
         /\ Cat(HeadersOf(l, k), One(Header(x))) = HeadersOf(l, k + 1)
    BY <2>10, HeadersAdd DEF x
  <2>12. One(Header(x)) \in Seq(Pairs) /\ ParseHeaders[rest] \in Seq(Pairs)
    BY <1>0, <2>5, OneTyped
  <2>13. Cat(Cat(HeadersOf(l, k), One(Header(x))), ParseHeaders[rest])
         = Cat(HeadersOf(l, k), Cat(One(Header(x)), ParseHeaders[rest]))
    BY <2>11, <2>12, CatAssoc
  <2> QED BY <2>5, <2>8, <2>9, <2>11, <2>13
<1>3. \A k \in Nat : k \in N
  <2> HIDE DEF N
  <2> QED BY <1>1, <1>2, SetInduction
<1> QED BY <1>3 DEF ReadsLines

\* The symbols of a set a text begins with, and the others.
LEMMA SpanOver ==
  ASSUME NEW S, NEW s \in Seq(S), NEW t \in Seq(S), NEW D, Inside(s, D), Behind(t, D)
  PROVE  /\ Span(Cat(s, t), D) = Len(s)
         /\ From(Cat(s, t), Span(Cat(s, t), D) + 1) = t
         /\ SubSeq(Cat(s, t), 1, Span(Cat(s, t), D)) = s
<1>1. \A i \in 1..Len(s) : s[i] \in D
  BY DEF Inside
<1>2. t # <<>> => t[1] \notin D
  BY DEF Behind
<1>3. Span(s \o t, D) = Len(s)
  BY <1>1, <1>2, SpanOf
<1>4. SubSeq(s \o t, 1, Len(s)) = s /\ From(s \o t, Len(s) + 1) = t
  BY Parts
<1> QED BY <1>3, <1>4 DEF Cat

\* Two texts one after the other are taken apart where the first ends.
LEMMA CatParts ==
  ASSUME NEW S, NEW s \in Seq(S), NEW t \in Seq(S)
  PROVE  SubSeq(Cat(s, t), 1, Len(s)) = s /\ From(Cat(s, t), Len(s) + 1) = t
         /\ Len(Cat(s, t)) = Len(s) + Len(t)
BY Parts, ConcatProperties DEF Cat

\* Two texts with symbols of a set, or of none, one after the other.
LEMMA CatInside ==
  ASSUME NEW S, NEW s \in Seq(S), NEW t \in Seq(S), NEW D
  PROVE  /\ Inside(s, D) /\ Inside(t, D) => Inside(Cat(s, t), D)
         /\ Outside(s, D) /\ Outside(t, D) => Outside(Cat(s, t), D)
<1> DEFINE u == Cat(s, t)
<1>1. /\ Len(u) = Len(s) + Len(t)
      /\ \A i \in 1..(Len(s) + Len(t)) : u[i] = IF i <= Len(s) THEN s[i] ELSE t[i - Len(s)]
  BY ConcatProperties DEF Cat
<1> HIDE DEF u
<1>2. \A i \in 1..Len(u) : \/ i \in 1..Len(s) /\ u[i] = s[i]
                           \/ (i - Len(s)) \in 1..Len(t) /\ u[i] = t[i - Len(s)]
  <2> TAKE i \in 1..Len(u)
  <2>1. i \in 1..(Len(s) + Len(t))
    BY <1>1
  <2> QED BY <1>1, <2>1
<1>3. Inside(s, D) /\ Inside(t, D) => Inside(u, D)
  BY <1>2 DEF Inside
<1>4. Outside(s, D) /\ Outside(t, D) => Outside(u, D)
  BY <1>2 DEF Outside
<1> QED BY <1>3, <1>4 DEF u

\* Without its last symbol.
LEMMA FrontCat ==
  ASSUME NEW S, NEW s \in Seq(S), NEW t \in Seq(S), t # <<>>
  PROVE  /\ Front(Cat(s, t)) = Cat(s, Front(t)) /\ Front(t) \in Seq(S)
         /\ \A D : Inside(t, D) => Inside(Front(t), D)
<1>1. Len(t) \in Nat \ {0}
  BY EmptySeq
<1>2. Len(t) - 1 \in 0..Len(t)
  BY <1>1
<1> DEFINE f == Front(t)
           u == s \o t
           v == s \o f
           g == Front(u)
<1>3. f \in Seq(S) /\ Len(f) = Len(t) - 1 /\ \A j \in 1..(Len(t) - 1) : f[j] = t[j]
  BY <1>2, UptoIs DEF Front
<1> HIDE DEF f
<1>4. /\ u \in Seq(S) /\ Len(u) = Len(s) + Len(t)
      /\ \A i \in 1..(Len(s) + Len(t)) : u[i] = IF i <= Len(s) THEN s[i] ELSE t[i - Len(s)]
  BY ConcatProperties
<1>5. /\ v \in Seq(S) /\ Len(v) = Len(s) + Len(f)
      /\ \A i \in 1..(Len(s) + Len(f)) : v[i] = IF i <= Len(s) THEN s[i] ELSE f[i - Len(s)]
  BY <1>3, ConcatProperties
<1> HIDE DEF u, v
<1>6. g \in Seq(S) /\ Len(g) = Len(u) - 1 /\ \A j \in 1..(Len(u) - 1) : g[j] = u[j]
  <2>1. Len(u) - 1 \in 0..Len(u)
    BY <1>1, <1>4
  <2> QED BY <1>4, <2>1, UptoIs DEF Front
<1> HIDE DEF g
<1>7. Len(g) = Len(v)
  BY <1>1, <1>3, <1>4, <1>5, <1>6
<1>8. ASSUME NEW i \in 1..Len(g) PROVE g[i] = v[i]
  <2>1. i \in 1..(Len(u) - 1) /\ i \in 1..(Len(s) + Len(t)) /\ i \in 1..(Len(s) + Len(f))
    BY <1>1, <1>3, <1>4, <1>6
  <2>2. g[i] = IF i <= Len(s) THEN s[i] ELSE t[i - Len(s)]
    BY <1>4, <1>6, <2>1
  <2>3. v[i] = IF i <= Len(s) THEN s[i] ELSE f[i - Len(s)]
    BY <1>5, <2>1
  <2>4. ~ (i <= Len(s)) => i - Len(s) \in 1..(Len(t) - 1)
    BY <1>3, <2>1
  <2> QED BY <1>3, <2>2, <2>3, <2>4
<1>9. g = v
  BY <1>5, <1>6, <1>7, <1>8, SeqEqual
<1>10. ASSUME NEW D, Inside(t, D) PROVE Inside(f, D)
  <2>1. \A i \in 1..Len(f) : i \in 1..Len(t) /\ i \in 1..(Len(t) - 1)
    BY <1>1, <1>3
  <2> QED BY <1>3, <1>10, <2>1 DEF Inside
<1> QED BY <1>3, <1>9, <1>10 DEF f, g, u, v, Cat

\* A text without some symbols.
LEMMA WithoutIs ==
  ASSUME NEW S, NEW D, NEW s \in Seq(S \ D)
  PROVE  s \in Seq(S) /\ Outside(s, D) /\ \A E : E \subseteq D => Outside(s, E)
<1>1. S \ D \subseteq S
  OBVIOUS
<1>2. s \in Seq(S)
  BY <1>1, SeqMonotonic
<1>3. \A i \in 1..Len(s) : s[i] \in S \ D
  BY ElementOfSeq
<1> QED BY <1>2, <1>3 DEF Outside

\* A text over some of the symbols.
LEMMA WithinIs ==
  ASSUME NEW S, NEW D, D \subseteq S, NEW s \in Seq(D)
  PROVE  s \in Seq(S) /\ Inside(s, D)
<1>1. s \in Seq(S)
  BY SeqMonotonic
<1>2. \A i \in 1..Len(s) : s[i] \in D
  BY ElementOfSeq
<1> QED BY <1>1, <1>2 DEF Inside

\* A text of one symbol.
LEMMA OneIs ==
  ASSUME NEW S, NEW c \in S
  PROVE  /\ One(c) \in Seq(S) /\ One(c) # <<>> /\ Len(One(c)) = 1 /\ One(c)[1] = c
         /\ \A D : c \notin D => Outside(One(c), D) /\ Behind(One(c), D)
         /\ \A D : c \in D => Inside(One(c), D)
<1> DEFINE o == One(c)
<1>1. o \in Seq(S) /\ o # <<>> /\ Len(o) = 1 /\ o[1] = c
  BY DEF One
<1> HIDE DEF o
<1>2. \A i \in 1..Len(o) : o[i] = c
  BY <1>1
<1>3. ASSUME NEW D, c \notin D PROVE Outside(o, D) /\ Behind(o, D)
  BY <1>1, <1>2, <1>3 DEF Outside, Behind
<1>4. ASSUME NEW D, c \in D PROVE Inside(o, D)
  BY <1>2, <1>4 DEF Inside
<1> QED BY <1>1, <1>3, <1>4 DEF o

\* A text without some symbols does not begin with one of them.
LEMMA OutsideBehind ==
  ASSUME NEW S, NEW s \in Seq(S), NEW D, Outside(s, D)
  PROVE  Behind(s, D)
<1> SUFFICES ASSUME s # <<>> PROVE s[1] \notin D
  BY DEF Behind
<1>1. 1 \in 1..Len(s)
  OBVIOUS
<1> QED BY <1>1 DEF Outside

\* A text that begins with another that is not empty.
LEMMA CatStarts ==
  ASSUME NEW S, NEW s \in Seq(S), NEW t \in Seq(S), s # <<>>
  PROVE  /\ Cat(s, t) # <<>> /\ Cat(s, t)[1] = s[1]
         /\ \A D : Behind(s, D) => Behind(Cat(s, t), D)
<1>1. (s \o t)[1] = s[1]
  BY FirstOf
<1>2. s \o t # <<>>
  BY ConcatEqualIffEmpty
<1> QED BY <1>1, <1>2 DEF Behind, Cat

\* Three texts and a fourth.
LEMMA CatFlat ==
  ASSUME NEW S, NEW a \in Seq(S), NEW b \in Seq(S), NEW c \in Seq(S), NEW d \in Seq(S)
  PROVE  Cat(Cat(a, Cat(b, c)), d) = Cat(a, Cat(b, Cat(c, d)))
<1>1. Cat(b, c) \in Seq(S)
  BY CatTyped
<1>2. Cat(Cat(a, Cat(b, c)), d) = Cat(a, Cat(Cat(b, c), d))
  BY <1>1, CatAssoc
<1>3. Cat(Cat(b, c), d) = Cat(b, Cat(c, d))
  BY CatAssoc
<1> QED BY <1>2, <1>3

(***************************************************************************)
(* The head a client sends.                                                *)
(***************************************************************************)
LengthLine(h, length) == [name |-> h.length, value |-> h.space \o <<Digits[length]>>]

\* What LoginConstants says of a head, in the terms of this module.
IsHead(h) ==
  /\ h.method \in ValidMethods /\ h.blank \in Seq({" "} \cup Eol)
  /\ IsHeaderName(h.length) /\ SameWord(h.length, ContentLength) /\ h.space \in Seq({" "})
  /\ h.before \in Seq(Range(h.before)) /\ h.after \in Seq(Range(h.after))
  /\ \A l \in Range(h.before) : IsOther(l) /\ ~ SameWord(l.name, ContentLength)
  /\ Len(h.before) < MaxHeaders
  /\ \A l \in Range(h.after) : IsOther(l)
  /\ h.eol \in Seq(Eol) /\ h.eol # <<>>

\* How clients write the head, by the assumption on the constants.
LEMMA HeadsAre == \A h \in Heads : IsHead(h)
BY LoginConstants DEF IsHead

\* Symbols of the head.
LEMMA SymbolsAre ==
  /\ ":" \in Symbols /\ " " \in Symbols /\ "?" \in Symbols /\ "=" \in Symbols /\ "&" \in Symbols
  /\ "HTTP/" \in Symbols /\ "1.1" \in Symbols /\ "/login" \in Symbols
  /\ Eol \subseteq Symbols /\ {" "} \subseteq Symbols /\ {" "} \cup Eol \subseteq Symbols
  /\ ValidMethods \subseteq Symbols
<1>1. {" ", "\r", "\n", ":", "?", "&", "="} \subseteq Symbols /\ "HTTP/" \in Symbols
  BY HttpConstants DEF Delimiters
<1>2. ValidMethods \subseteq Symbols /\ "1.1" \in Symbols /\ "/login" \in Symbols
  BY LoginConstants
<1> QED BY <1>1, <1>2 DEF Eol

\* A number ends neither the line nor the white space before it.
LEMMA DigitsAre ==
  ASSUME NEW n \in 0..PostLen
  PROVE  Digits[n] \in Symbols /\ Digits[n] \notin Eol /\ Digits[n] # " "
BY LoginConstants

\* A header of the client is a line.
LEMMA HeaderIsLine ==
  ASSUME NEW l, IsHeader(l)
  PROVE  IsLine(l)
<1> DEFINE n == l.name
           v == l.value
<1>1. n \in Seq(Symbols \ (Eol \cup {":", "nul"})) /\ n # <<>> /\ v \in Seq(Symbols \ (Eol \cup {"nul"}))
  BY DEF IsHeader, IsHeaderName
<1>2. /\ {":"} \subseteq Eol \cup {":", "nul"} /\ Eol \subseteq Eol \cup {":", "nul"}
      /\ Eol \subseteq Eol \cup {"nul"}
  OBVIOUS
<1> HIDE DEF n, v
<1>3. n \in Text /\ Outside(n, {":"}) /\ Outside(n, Eol)
  BY <1>1, <1>2, WithoutIs DEF Text
<1>4. v \in Text /\ Outside(v, Eol)
  BY <1>1, <1>2, WithoutIs DEF Text
<1> QED BY <1>1, <1>3, <1>4 DEF IsLine, n, v

\* What the server reads of a Content-Length.
LEMMA LengthIs ==
  ASSUME NEW h, IsHead(h), NEW n \in 0..PostLen
  PROVE  /\ IsLine(LengthLine(h, n))
         /\ Stripped(LengthLine(h, n).value) = One(Digits[n])
<1> DEFINE x == Digits[n]
           s == h.space
           v == Cat(s, One(x))
           W == {" "}
<1>1. x \in Symbols /\ x \notin Eol /\ x # " "
  BY DigitsAre
<1>2. W \subseteq Symbols
  BY SymbolsAre
<1>3. s \in Seq(W) /\ IsHeaderName(h.length)
  BY DEF IsHead
<1>4. x \notin W
  BY <1>1
<1>5. \A y \in W : y \notin Eol
  BY DEF Eol
<1>6. LengthLine(h, n).name = h.length /\ LengthLine(h, n).value = v
  BY DEF LengthLine, Cat, One
<1> HIDE DEF x, s, W
<1>7. s \in Text /\ Inside(s, W)
  BY <1>2, <1>3, WithinIs DEF Text
<1>8. One(x) \in Text /\ Behind(One(x), W) /\ Outside(One(x), Eol)
  BY <1>1, <1>4, OneIs DEF Text
<1>9. Outside(s, Eol)
  BY <1>5, <1>7 DEF Inside, Outside
<1>10. v \in Text /\ Outside(v, Eol)
  BY <1>7, <1>8, <1>9, CatTyped, CatInside DEF Text
<1>11. From(v, Span(v, W) + 1) = One(x)
  BY <1>7, <1>8, SpanOver DEF Text
<1>12. h.length \in Text /\ h.length # <<>> /\ Outside(h.length, {":"}) /\ Outside(h.length, Eol)
  <2> DEFINE k == h.length
  <2>1. k \in Seq(Symbols \ (Eol \cup {":", "nul"})) /\ k # <<>>
    BY <1>3 DEF IsHeaderName
  <2>2. {":"} \subseteq Eol \cup {":", "nul"} /\ Eol \subseteq Eol \cup {":", "nul"}
    OBVIOUS
  <2> HIDE DEF k
  <2>3. k \in Text /\ k # <<>> /\ Outside(k, {":"}) /\ Outside(k, Eol)
    BY <2>1, <2>2, WithoutIs DEF Text
  <2> QED BY <2>3 DEF k
<1> HIDE DEF v
<1> QED BY <1>6, <1>10, <1>11, <1>12 DEF IsLine, Stripped, W, x

\* The lines of the head: those before Content-Length, it, and those behind it.
LEMMA LinesAre ==
  ASSUME NEW h, IsHead(h), NEW n \in 0..PostLen
  PROVE  LET l == Lines(h, n)
             b == Len(h.before)
         IN /\ b \in Nat /\ Len(l) \in Nat /\ b + 1 \in 1..Len(l) /\ DOMAIN l = 1..Len(l)
            /\ \A i \in 1..Len(l) : IsLine(l[i])
            /\ l[b + 1] = LengthLine(h, n)
            /\ \A i \in 1..b : ~ SameWord(l[i].name, ContentLength)
            /\ b < MaxHeaders
            /\ \A i \in 1..Len(l) : ~ SameWord(l[i].name, ContentLenght)
<1> DEFINE B == Range(h.before)
           A == Range(h.after)
           x == LengthLine(h, n)
           R == (B \cup {x}) \cup A
           p == h.before
           q == h.after
           m == One(x)
           pm == p \o m
           l == pm \o q
<1>1. /\ p \in Seq(B) /\ q \in Seq(A)
      /\ \A y \in B : IsOther(y) /\ ~ SameWord(y.name, ContentLength)
      /\ \A y \in A : IsOther(y)
      /\ Len(p) < MaxHeaders
  BY DEF IsHead
<1>2. IsLine(x) /\ ~ SameWord(x.name, ContentLenght)
  <2>1. ~ SameWord(h.length, ContentLenght)
    <3>1. SameWord(h.length, ContentLength) /\ ~ SameWord(ContentLength, ContentLenght)
      BY LoginConstants DEF IsHead
    <3> QED BY <3>1 DEF SameWord
  <2>2. x.name = h.length
    BY DEF LengthLine
  <2> QED BY <2>1, <2>2, LengthIs
<1>3. Lines(h, n) = l
  BY DEF Lines, LengthLine, One
<1> HIDE DEF B, A, x, p, q
<1>4. p \in Seq(R) /\ q \in Seq(R) /\ m \in Seq(R) /\ Len(m) = 1 /\ m[1] = x
  <2>1. B \subseteq R /\ A \subseteq R /\ x \in R
    OBVIOUS
  <2> HIDE DEF R, m
  <2>2. p \in Seq(R)
    BY <1>1, <2>1, SeqMonotonic
  <2>3. q \in Seq(R)
    BY <1>1, <2>1, SeqMonotonic
  <2>4. m \in Seq(R)
    BY <2>1, OneTyped DEF m
  <2>5. Len(m) = 1 /\ m[1] = x
    BY DEF m, One
  <2> QED BY <2>2, <2>3, <2>4, <2>5
<1>5. \A i \in 1..Len(p) : p[i] \in B
  BY <1>1, ElementOfSeq
<1>6. \A y \in R : IsLine(y) /\ ~ SameWord(y.name, ContentLenght)
  BY <1>1, <1>2, HeaderIsLine DEF IsOther
<1> HIDE DEF R, m
<1>7. /\ pm \in Seq(R) /\ Len(pm) = Len(p) + Len(m)
      /\ \A i \in 1..(Len(p) + Len(m)) : pm[i] = IF i <= Len(p) THEN p[i] ELSE m[i - Len(p)]
  BY <1>4, ConcatProperties
<1> HIDE DEF pm
<1>8. /\ l \in Seq(R) /\ Len(l) = Len(pm) + Len(q)
      /\ \A i \in 1..(Len(pm) + Len(q)) : l[i] = IF i <= Len(pm) THEN pm[i] ELSE q[i - Len(pm)]
  <2>1. q \in Seq(R) /\ pm \in Seq(R)
    BY <1>4, <1>7
  <2> QED BY <2>1, ConcatProperties
<1>9. \A i \in 1..Len(l) : l[i] \in R
  BY <1>8, ElementOfSeq
<1>10. Len(l) \in Nat /\ DOMAIN l = 1..Len(l)
  BY <1>8, LenProperties
<1> HIDE DEF l
<1>11. Len(p) \in Nat /\ Len(q) \in Nat
  BY <1>4
<1>12. Len(p) + 1 \in 1..Len(l) /\ l[Len(p) + 1] = x
  <2>1. /\ Len(p) + 1 \in 1..(Len(p) + Len(m)) /\ Len(p) + 1 \in 1..(Len(pm) + Len(q))
        /\ Len(p) + 1 <= Len(pm) /\ ~ (Len(p) + 1 <= Len(p)) /\ (Len(p) + 1) - Len(p) = 1
    BY <1>4, <1>7, <1>11
  <2>2. pm[Len(p) + 1] = m[1]
    BY <1>7, <2>1
  <2>3. l[Len(p) + 1] = pm[Len(p) + 1]
    BY <1>8, <2>1
  <2> QED BY <1>4, <1>8, <2>1, <2>2, <2>3
<1>13. ASSUME NEW i \in 1..Len(p) PROVE l[i] \in B
  <2>1. i \in 1..(Len(p) + Len(m)) /\ i \in 1..(Len(pm) + Len(q)) /\ i <= Len(p) /\ i <= Len(pm)
    BY <1>4, <1>7, <1>11
  <2>2. pm[i] = p[i] /\ l[i] = pm[i]
    BY <1>7, <1>8, <2>1
  <2> QED BY <1>5, <2>2
<1> QED BY <1>1, <1>3, <1>6, <1>9, <1>10, <1>11, <1>12, <1>13 DEF p, x

\* The text of some lines begins with no end of a line.
LEMMA LinesBehind ==
  ASSUME NEW n \in Nat, NEW l, AreLines(n, l), NEW e \in Text, NEW u, Joins(n, l, e, u)
  PROVE  \A k \in 0..n : Behind(u[k], Eol)
<1> DEFINE N == {k \in Nat : k <= n => Behind(u[k], Eol)}
<1>1. 0 \in N
  BY DEF Behind, Joins
<1>2. ASSUME NEW k \in Nat, k \in N PROVE k + 1 \in N
  <2> SUFFICES ASSUME k + 1 <= n PROVE Behind(u[k + 1], Eol)
    OBVIOUS
  <2> DEFINE line == LineText(l[k + 1], e)
  <2>1. k + 1 \in 1..n /\ k \in 0..n /\ k <= n /\ (k + 1) - 1 = k
    OBVIOUS
  <2>2. u[k] \in Text /\ Behind(u[k], Eol) /\ u[k + 1] = Cat(u[k], line) /\ IsLine(l[k + 1])
    BY <1>2, <2>1 DEF Joins, AreLines
  <2>3. line \in Text /\ Behind(line, Eol)
    BY <2>2, LineTyped
  <2> HIDE DEF line
  <2> QED BY <2>2, <2>3, CatBehind DEF Text
<1>3. \A k \in Nat : k \in N
  <2> HIDE DEF N
  <2> QED BY <1>1, <1>2, SetInduction
<1> QED BY <1>3

\* The text of a line as the client joins it.
LEMMA LineIs ==
  ASSUME NEW l, IsLine(l), NEW e \in Text
  PROVE  ((l.name \o <<":">>) \o l.value) \o e = LineText(l, e)
<1> DEFINE n == l.name
           v == l.value
           c == One(":")
<1>1. n \in Text /\ v \in Text
  BY DEF IsLine
<1>2. c \in Text
  BY SymbolsAre, OneTyped DEF Text
<1>3. LineText(l, e) = Cat(n, Cat(c, Cat(v, e)))
  BY DEF LineText
<1>4. ((l.name \o <<":">>) \o l.value) \o e = Cat(Cat(Cat(n, c), v), e)
  BY DEF Cat, One
<1> HIDE DEF n, v, c
<1>5. Cat(n, c) \in Text /\ Cat(v, e) \in Text
  BY <1>1, <1>2, CatTyped DEF Text
<1>6. Cat(Cat(Cat(n, c), v), e) = Cat(Cat(n, c), Cat(v, e))
  BY <1>1, <1>5, CatAssoc DEF Text
<1>7. Cat(Cat(n, c), Cat(v, e)) = Cat(n, Cat(c, Cat(v, e)))
  BY <1>1, <1>2, <1>5, CatAssoc DEF Text
<1> QED BY <1>3, <1>4, <1>6, <1>7

\* The lines as the client joins them, and what is read of them without their last byte.
Joint(l, e) == FlattenSeq([i \in DOMAIN l |-> l[i].name \o <<":">> \o l[i].value \o e])
IsBody(body, l, e, N) ==
  /\ Behind(body, Eol) /\ ParseHeaders[body] = HeadersOf(l, N)
  /\ \A s \in Text : Front(Cat(s, Joint(l, e))) = Cat(s, body)

\* The lines without their last byte: parse_http_headers reads them all.
LEMMA LinesRead ==
  ASSUME NEW N \in Nat \ {0}, NEW l, DOMAIN l = 1..N, \A i \in 1..N : IsLine(l[i]),
         NEW e \in Text, e # <<>>, Inside(e, Eol)
  PROVE  \E body \in Text : IsBody(body, l, e, N)
<1> DEFINE seqs == [i \in 1..N |-> LineText(l[i], e)]
           U(k) == Upto(seqs, k)
           u == [k \in 0..N |-> U(k)]
           x == l[N]
           f == Front(e)
           last == LineText(x, f)
           before == u[N - 1]
           body == Cat(before, last)
           flat == FlattenSeq([i \in DOMAIN l |-> l[i].name \o <<":">> \o l[i].value \o e])
<1>1. flat = FlattenSeq(seqs)
  <2>1. \A i \in 1..N : l[i].name \o <<":">> \o l[i].value \o e = LineText(l[i], e)
    BY LineIs
  <2>2. [i \in DOMAIN l |-> l[i].name \o <<":">> \o l[i].value \o e] = seqs
    BY <2>1
  <2> HIDE DEF seqs
  <2> QED BY <2>2
<1> HIDE DEF flat
<1>2. seqs \in Seq(Seq(Symbols)) /\ Len(seqs) = N /\ \A i \in 1..N : seqs[i] = LineText(l[i], e)
  <2>1. \A i \in 1..N : LineText(l[i], e) \in Text
    <3>1. <<>> \in Text
      BY DEF Text
    <3> QED BY <3>1, LineTyped
  <2>2. seqs \in [1..N -> Text] /\ Len(seqs) = N
    BY <2>1
  <2>3. seqs \in Seq(Text)
    BY <2>1
  <2> HIDE DEF seqs
  <2>4. \A i \in 1..N : seqs[i] = LineText(l[i], e)
    BY DEF seqs
  <2> QED BY <2>2, <2>3, <2>4 DEF Text
<1> HIDE DEF seqs
<1>3. /\ \A k \in 0..N : U(k) \in Text
      /\ U(0) = <<>>
      /\ \A k \in 1..N : U(k) = Cat(U(k - 1), LineText(l[k], e))
      /\ FlattenSeq(seqs) = U(N)
  BY <1>2, UptoAdds DEF Cat, Text
<1> HIDE DEF U
<1>4. /\ \A k \in 0..N : u[k] \in Text
      /\ u[0] = <<>>
      /\ \A k \in 1..N : u[k] = Cat(u[k - 1], LineText(l[k], e))
      /\ flat = u[N]
  <2>1. \A k \in 0..N : u[k] = U(k)
    OBVIOUS
  <2>2. \A k \in 1..N : k - 1 \in 0..N /\ k \in 0..N
    OBVIOUS
  <2>3. 0 \in 0..N /\ N \in 0..N
    OBVIOUS
  <2> HIDE DEF u
  <2> QED BY <1>1, <1>3, <2>1, <2>2, <2>3
<1> HIDE DEF u
<1>5. N \in 1..N /\ N - 1 \in 0..N /\ N \in 0..N
  OBVIOUS
<1>6. before \in Text /\ Behind(before, Eol)
  <2>1. Joins(N, l, e, u) /\ AreLines(N, l)
    BY <1>4 DEF Joins, AreLines
  <2> QED BY <1>4, <1>5, <2>1, LinesBehind
<1>7. IsLine(x)
  BY <1>5
<1>8. flat = Cat(before, LineText(x, e))
  BY <1>4, <1>5
<1> HIDE DEF before
<1>9. <<>> \in Text /\ Cat(<<>>, e) = e /\ Cat(<<>>, f) = f
  <2>1. f \in Text
    BY FrontCat DEF Text
  <2> HIDE DEF f
  <2> QED BY <2>1, CatEmpty DEF Text
<1>10. f \in Text /\ Inside(f, Eol)
  BY FrontCat DEF Text
<1>11. \A s \in Text : Front(Cat(s, e)) = Cat(s, f)
  BY FrontCat DEF Text
<1> HIDE DEF f
<1>12. last \in Text /\ Behind(last, Eol)
  BY <1>7, <1>9, <1>10, LineTyped
<1>13. ASSUME NEW s \in Text PROVE Front(Cat(s, flat)) = Cat(s, body)
  <2> DEFINE t == LineText(x, <<>>)
             w == Cat(before, t)
  <2>1. t \in Text /\ LineText(x, e) = Cat(t, e) /\ last = Cat(t, f)
    BY <1>7, <1>9, <1>10, LineTyped
  <2> HIDE DEF t, last
  <2>2. w \in Text /\ Cat(s, w) \in Text
    BY <1>6, <2>1, CatTyped DEF Text
  <2>3. Cat(before, Cat(t, e)) = Cat(w, e) /\ Cat(before, Cat(t, f)) = Cat(w, f)
    BY <1>6, <1>10, <2>1, CatAssoc DEF Text
  <2> HIDE DEF w
  <2>4. Cat(s, Cat(w, e)) = Cat(Cat(s, w), e) /\ Cat(s, Cat(w, f)) = Cat(Cat(s, w), f)
    BY <1>10, <2>2, CatAssoc DEF Text
  <2>5. Front(Cat(Cat(s, w), e)) = Cat(Cat(s, w), f)
    BY <1>11, <2>2
  <2> QED BY <1>8, <2>1, <2>3, <2>4, <2>5
<1>14. ParseHeaders[last] = One(Header(x)) /\ Header(x) \in Pairs
  <2>1. <<>> \in Text /\ Behind(<<>>, Eol) /\ Cat(f, <<>>) = f
    BY <1>9, <1>10, CatEmpty DEF Behind, Text
  <2>2. /\ Header(x) \in Pairs
        /\ ParseHeaders[LineText(x, Cat(f, <<>>))] = Cat(One(Header(x)), ParseHeaders[<<>>])
    BY <1>7, <1>10, <2>1, OneHeader DEF Pairs
  <2>3. Cat(One(Header(x)), <<>>) = One(Header(x))
    BY <2>2, OneTyped, CatEmpty
  <2> QED BY <2>1, <2>2, <2>3, NoHeaders
<1> HIDE DEF last
<1>15. ParseHeaders[body] = HeadersOf(l, N)
  <2> DEFINE n == N - 1
  <2>1. n \in Nat /\ n + 1 = N /\ n \in 0..n /\ n \in 0..N
    OBVIOUS
  <2>2. AreLines(n, l)
    BY DEF AreLines
  <2>3. Joins(n, l, e, u)
    BY <1>4 DEF Joins
  <2>4. before = u[n]
    BY DEF before
  <2> HIDE DEF n
  <2>5. ReadsLines(n, l, u)
    BY <2>1, <2>2, <2>3, ManyHeaders
  <2>6. ParseHeaders[body] = Cat(HeadersOf(l, n), ParseHeaders[last])
    BY <1>12, <2>1, <2>4, <2>5 DEF ReadsLines
  <2>7. \A i \in 1..(n + 1) : Header(l[i]) \in Pairs
    <3>1. <<>> \in Text /\ Inside(<<>>, Eol) /\ Behind(<<>>, Eol)
      BY DEF Text, Inside, Behind
    <3>2. \A i \in 1..(n + 1) : IsLine(l[i])
      BY <2>1
    <3> QED BY <3>1, <3>2, OneHeader DEF Pairs
  <2>8. Cat(HeadersOf(l, n), One(Header(x))) = HeadersOf(l, N)
    <3>1. x = l[n + 1] /\ HeadersOf(l, N) = HeadersOf(l, n + 1)
      BY <2>1
    <3> HIDE DEF x
    <3> QED BY <2>1, <2>7, <3>1, HeadersAdd
  <2> QED BY <1>14, <2>6, <2>8
<1>16. body \in Text /\ Behind(body, Eol)
  BY <1>6, <1>12, CatTyped, CatBehind DEF Text
<1> HIDE DEF body
<1>17. flat = Joint(l, e)
  BY DEF flat, Joint
<1> QED BY <1>13, <1>15, <1>16, <1>17 DEF IsBody

\* Two words, one of which is of one symbol.
LEMMA Tuples ==
  ASSUME NEW a, NEW b
  PROVE  <<a, b>> = Cat(One(a), One(b))
<1> DEFINE p == <<a>>
           q == <<b>>
           t == <<a, b>>
           S == {a, b}
<1>1. p \in Seq(S) /\ q \in Seq(S) /\ t \in Seq(S) /\ Len(p) = 1 /\ Len(q) = 1 /\ Len(t) = 2
      /\ p[1] = a /\ q[1] = b /\ t[1] = a /\ t[2] = b
  OBVIOUS
<1> HIDE DEF p, q, t, S
<1>2. /\ p \o q \in Seq(S) /\ Len(p \o q) = Len(p) + Len(q)
      /\ \A i \in 1..(Len(p) + Len(q)) : (p \o q)[i] = IF i <= Len(p) THEN p[i] ELSE q[i - Len(p)]
  BY <1>1, ConcatProperties
<1>3. Len(t) = Len(p \o q)
  BY <1>1, <1>2
<1>4. \A i \in 1..Len(t) : t[i] = (p \o q)[i]
  <2> TAKE i \in 1..Len(t)
  <2>1. i = 1 \/ i = 2
    BY <1>1
  <2> QED BY <1>1, <1>2, <2>1
<1>5. t = p \o q
  BY <1>1, <1>2, <1>3, <1>4, SeqEqual
<1> QED BY <1>5 DEF p, q, t, Cat, One

\* The first of two and what follows it.
LEMMA PairIs ==
  ASSUME NEW a, NEW b
  PROVE  <<a, b>>[1] = a /\ Tail(<<a, b>>) = One(b) /\ <<a, b>> # <<>>
<1> DEFINE S == {a, b}
           t == <<a, b>>
           w == Tail(t)
           o == One(b)
<1>1. t \in Seq(S) /\ t # <<>> /\ Len(t) = 2 /\ t[1] = a /\ t[2] = b
  OBVIOUS
<1>2. o \in Seq(S) /\ Len(o) = 1 /\ o[1] = b
  BY DEF One
<1> HIDE DEF S, t, o
<1>3. w \in Seq(S) /\ Len(w) = Len(t) - 1 /\ \A i \in 1..Len(w) : w[i] = t[i + 1]
  BY <1>1, HeadTailProperties
<1> HIDE DEF w
<1>4. Len(w) = Len(o) /\ \A i \in 1..Len(w) : w[i] = o[i]
  BY <1>1, <1>2, <1>3
<1>5. w = o
  BY <1>2, <1>3, <1>4, SeqEqual
<1> QED BY <1>1, <1>5 DEF t, w, o

\* Three symbols are one and two.
LEMMA Triple ==
  ASSUME NEW a, NEW b, NEW c
  PROVE  <<a, b, c>> = Cat(One(a), <<b, c>>)
<1> DEFINE p == <<a>>
           q == <<b, c>>
           t == <<a, b, c>>
           S == {a, b, c}
<1>1. p \in Seq(S) /\ q \in Seq(S) /\ t \in Seq(S) /\ Len(p) = 1 /\ Len(q) = 2 /\ Len(t) = 3
      /\ p[1] = a /\ q[1] = b /\ q[2] = c /\ t[1] = a /\ t[2] = b /\ t[3] = c
  OBVIOUS
<1> HIDE DEF p, q, t, S
<1>2. /\ p \o q \in Seq(S) /\ Len(p \o q) = Len(p) + Len(q)
      /\ \A i \in 1..(Len(p) + Len(q)) : (p \o q)[i] = IF i <= Len(p) THEN p[i] ELSE q[i - Len(p)]
  BY <1>1, ConcatProperties
<1>3. Len(t) = Len(p \o q)
  BY <1>1, <1>2
<1>4. \A i \in 1..Len(t) : t[i] = (p \o q)[i]
  <2> TAKE i \in 1..Len(t)
  <2>1. i = 1 \/ i = 2 \/ i = 3
    BY <1>1
  <2> QED BY <1>1, <1>2, <2>1
<1>5. t = p \o q
  BY <1>1, <1>2, <1>3, <1>4, SeqEqual
<1> QED BY <1>5 DEF p, q, t, Cat, One

\* A word, one delimiter, and no more of them.
LEMMA SkipsOne ==
  ASSUME NEW S, NEW s \in Seq(S), NEW d \in S, NEW r \in Seq(S), NEW D,
         Outside(s, D), d \in D, Behind(r, D)
  PROVE  Skips(Cat(s, Cat(One(d), r)), D, D, s, r)
<1>1. <<>> \in Seq(S) /\ Inside(<<>>, D)
  BY EmptySeq DEF Inside
<1>2. Cat(<<>>, r) = r
  BY CatEmpty
<1>3. Skips(Cat(s, Cat(One(d), Cat(<<>>, r))), D, D, s, r)
  BY <1>1, SkipsOver
<1> QED BY <1>2, <1>3

\* A word and some delimiters.
LEMMA SkipsSome ==
  ASSUME NEW S, NEW s \in Seq(S), NEW e \in Seq(S), e # <<>>, NEW r \in Seq(S), NEW D,
         Outside(s, D), Inside(e, D), Behind(r, D)
  PROVE  Skips(Cat(s, Cat(e, r)), D, D, s, r)
<1> DEFINE d == e[1]
           t == Tail(e)
<1>1. /\ d \in S /\ t \in Seq(S) /\ e = <<d>> \o t
      /\ \A i \in 1..Len(t) : t[i] = e[i + 1] /\ i + 1 \in 1..Len(e)
  BY HeadFirst
<1>2. 1 \in 1..Len(e)
  OBVIOUS
<1>3. d \in D
  BY <1>2 DEF Inside
<1> HIDE DEF d, t
<1>4. Inside(t, D)
  BY <1>1 DEF Inside
<1>5. e = Cat(One(d), t) /\ One(d) \in Seq(S)
  BY <1>1, OneTyped DEF Cat, One
<1>6. t \in Seq(S)
  BY <1>1
<1>7. Cat(Cat(One(d), t), r) = Cat(One(d), Cat(t, r))
  BY <1>5, <1>6, CatAssoc
<1>8. Skips(Cat(s, Cat(One(d), Cat(t, r))), D, D, s, r)
  BY <1>1, <1>3, <1>4, SkipsOver
<1> QED BY <1>5, <1>7, <1>8

\* The URI of a form in the query, which a client may leave out when it is empty.
Uri(q, mark) == IF mark THEN Cat(One("/login"), Cat(One("?"), q)) ELSE One("/login")

\* Nothing in it ends the URI.
NoSpace(q) == Outside(q, {" "})

\* The URI has no space, whatever form without one is its query.
LEMMA UriIs ==
  ASSUME NEW q \in Text, NoSpace(q), NEW mark \in BOOLEAN
  PROVE  /\ Uri(q, mark) \in Text /\ Outside(Uri(q, mark), {" "}) /\ Uri(q, mark) # <<>>
         /\ <<"/login">> \o (IF mark THEN <<"?">> \o q ELSE <<>>) = Uri(q, mark)
<1> DEFINE l == "/login"
           m == "?"
           D == {" "}
           r == Cat(One(m), q)
<1>1. l \in Symbols /\ m \in Symbols
  BY SymbolsAre
<1>2. l \notin D /\ m \notin D
  OBVIOUS
<1>3. Outside(q, D) /\ Uri(q, mark) = IF mark THEN Cat(One(l), r) ELSE One(l)
  BY DEF Uri, NoSpace
<1>4. <<"/login">> \o (IF mark THEN <<"?">> \o q ELSE <<>>) = IF mark THEN Cat(One(l), r)
                                                              ELSE Cat(One(l), <<>>)
  BY DEF Cat, One
<1> HIDE DEF l, m, D
<1>5. One(l) \in Text /\ Outside(One(l), D) /\ Behind(One(l), D) /\ One(m) \in Text /\ Outside(One(m), D)
  BY <1>1, <1>2, OneIs DEF Text
<1>6. r \in Text /\ Outside(r, D)
  BY <1>3, <1>5, CatTyped, CatInside DEF Text
<1> HIDE DEF r
<1>7. Cat(One(l), r) \in Text /\ Outside(Cat(One(l), r), D)
  BY <1>5, <1>6, CatTyped, CatInside DEF Text
<1>8. One(l) # <<>> /\ Cat(One(l), r) # <<>>
  BY <1>1, <1>5, <1>6, OneIs, CatStarts DEF Text
<1>9. Cat(One(l), <<>>) = One(l)
  BY <1>5, CatEmpty DEF Text
<1>10. Uri(q, mark) \in Text /\ Outside(Uri(q, mark), D)
  BY <1>3, <1>5, <1>7
<1> QED BY <1>3, <1>4, <1>8, <1>9, <1>10 DEF D

\* The pieces of a head, one after the other, as the client joins them and as the server
\* reads them.
Piled(b, m, c, u, v, e, t) == Cat(Cat(Cat(Cat(Cat(b, Cat(m, c)), u), Cat(c, v)), e), t)
InRow(b, m, c, u, v, e, t) == Cat(b, Cat(m, Cat(c, Cat(u, Cat(c, Cat(v, Cat(e, t)))))))

\* All of them are texts.
AreTexts(b, m, c, u, v, e, t) ==
  b \in Text /\ m \in Text /\ c \in Text /\ u \in Text /\ v \in Text /\ e \in Text /\ t \in Text

\* The head the client joins is the head the server reads.
LEMMA Pieces ==
  ASSUME NEW b, NEW m, NEW c, NEW u, NEW v, NEW e, NEW t, AreTexts(b, m, c, u, v, e, t)
  PROVE  Piled(b, m, c, u, v, e, t) = InRow(b, m, c, u, v, e, t)
<1> DEFINE S == Symbols
<1>0. b \in Seq(S) /\ m \in Seq(S) /\ c \in Seq(S) /\ u \in Seq(S) /\ v \in Seq(S) /\ e \in Seq(S) /\ t \in Seq(S)
  BY DEF AreTexts, Text
<1> HIDE DEF S
<1> USE <1>0
<1> DEFINE x1 == Cat(b, Cat(m, c))
           x2 == Cat(x1, u)
           x3 == Cat(x2, Cat(c, v))
           r1 == Cat(e, t)
           r2 == Cat(c, Cat(v, r1))
           r3 == Cat(u, r2)
<1>1. x1 \in Seq(S) /\ r1 \in Seq(S)
  <2>1. Cat(m, c) \in Seq(S)
    BY CatTyped
  <2> HIDE DEF r1
  <2> QED BY <2>1, CatTyped DEF r1
<1>2. x2 \in Seq(S)
  <2> HIDE DEF x1
  <2> QED BY <1>1, CatTyped
<1>3. x3 \in Seq(S)
  <2>1. Cat(c, v) \in Seq(S)
    BY CatTyped
  <2> HIDE DEF x2
  <2> QED BY <1>2, <2>1, CatTyped
<1>4. r2 \in Seq(S)
  <2> HIDE DEF r1
  <2>1. Cat(v, r1) \in Seq(S)
    BY <1>1, CatTyped
  <2> QED BY <2>1, CatTyped
<1>5. r3 \in Seq(S)
  <2> HIDE DEF r2
  <2> QED BY <1>4, CatTyped
<1>6. Cat(Cat(x3, e), t) = Cat(x3, r1)
  <2> HIDE DEF x3
  <2> QED BY <1>3, CatAssoc
<1>7. Cat(x3, r1) = Cat(x2, r2)
  <2> HIDE DEF x2, r1
  <2> QED BY <1>1, <1>2, CatFlat
<1>8. Cat(x2, r2) = Cat(x1, r3)
  <2> HIDE DEF x1, r2
  <2> QED BY <1>1, <1>4, CatAssoc
<1>9. Cat(x1, r3) = Cat(b, Cat(m, Cat(c, r3)))
  <2> HIDE DEF r3
  <2> QED BY <1>5, CatFlat
<1> QED BY <1>6, <1>7, <1>8, <1>9 DEF Piled, InRow

\* The pieces of a head, and what parse_http_request reads.
ArePieces(b, m, u, e, body) ==
  /\ b \in Text /\ Inside(b, {" "} \cup Eol) /\ m \in ValidMethods
  /\ u \in Text /\ u # <<>> /\ Outside(u, {" "})
  /\ e \in Text /\ e # <<>> /\ Inside(e, Eol) /\ body \in Text /\ Behind(body, Eol)

\* The request r is understood, and is this one.
ReadAs(r, m, u, headers) ==
  r.ok /\ r.method = One(m) /\ r.uri = u /\ r.version = One("1.1") /\ r.headers = headers

\* parse_http_request reads the method, the URI and the version of such a head, and then
\* its headers.
LEMMA RequestReads ==
  ASSUME NEW b, NEW m, NEW u, NEW e, NEW body, ArePieces(b, m, u, e, body)
  PROVE  ReadAs(ParseRequest(InRow(b, One(m), One(" "), u, <<"HTTP/", "1.1">>, e, body)),
                m, u, FirstHeaders(ParseHeaders[body]))
<1> DEFINE s == InRow(b, One(m), One(" "), u, <<"HTTP/", "1.1">>, e, body)
<1>0. ArePieces(b, m, u, e, body)
  OBVIOUS
<1> USE <1>0 DEF ArePieces
<1> DEFINE W == {" ", "\r", "\n"}
           D == {" "}
           c == " "
           v == <<"HTTP/", "1.1">>
           r4 == Cat(e, body)
           r3 == Cat(v, r4)
           r2 == Cat(One(c), r3)
           r1 == Cat(u, r2)
           r0 == Cat(One(c), r1)
           r == Cat(One(m), r0)
<1>1. m \in Symbols /\ c \in Symbols /\ c \in D /\ m \notin W /\ m \notin D
  BY SymbolsAre DEF ValidMethods
<1>2. Inside(b, W) /\ Outside(u, D) /\ Behind(u, D)
  <2>1. W = {" "} \cup Eol /\ D = {" "}
    BY DEF Eol
  <2> HIDE DEF W, D
  <2>2. Outside(u, D)
    BY <2>1
  <2> QED BY <2>1, <2>2, OutsideBehind DEF Text
<1>3. v \in Text /\ v # <<>> /\ Outside(v, Eol) /\ Behind(v, D)
  <2> DEFINE x == "HTTP/"
             y == "1.1"
  <2>1. x \in Symbols /\ y \in Symbols /\ x \notin Eol /\ y \notin Eol /\ x \notin D
    BY SymbolsAre DEF Eol
  <2>2. v = Cat(One(x), One(y))
    BY Tuples
  <2> HIDE DEF x, y, v, D
  <2>3. /\ One(x) \in Text /\ One(y) \in Text /\ Outside(One(x), Eol) /\ Outside(One(y), Eol)
        /\ One(x) # <<>> /\ Behind(One(x), D)
    BY <2>1, OneIs DEF Text
  <2> QED BY <2>2, <2>3, CatTyped, CatInside, CatStarts DEF Text
<1>4. v[1] = "HTTP/" /\ Tail(v) = One("1.1") /\ v # <<>>
  BY PairIs
<1>5. One(m) \in {<<w>> : w \in ValidMethods}
  BY DEF One
<1>6. s = Cat(b, r)
  BY DEF InRow
<1> HIDE DEF W, D, c, v, s
<1>7. One(m) \in Text /\ One(c) \in Text /\ Behind(One(m), W) /\ Outside(One(m), D) /\ One(m) # <<>>
  BY <1>1, OneIs DEF Text
<1>8. r4 \in Text
  BY CatTyped DEF Text
<1> HIDE DEF r4
<1>9. r3 \in Text /\ Behind(r3, D)
  BY <1>3, <1>8, CatTyped, CatStarts DEF Text
<1>10. Skips(r3, Eol, Eol, v, body)
  BY <1>3, SkipsSome DEF r4, Text
<1> HIDE DEF r3
<1>11. r2 \in Text
  BY <1>7, <1>9, CatTyped DEF Text
<1>12. Skips(r1, D, D, u, r3)
  BY <1>1, <1>2, <1>9, SkipsOne DEF Text
<1> HIDE DEF r2
<1>13. r1 \in Text /\ Behind(r1, D)
  BY <1>2, <1>11, CatTyped, CatStarts DEF Text
<1> HIDE DEF r1
<1>14. r0 \in Text
  BY <1>7, <1>13, CatTyped DEF Text
<1>15. Skips(r, D, D, One(m), r1)
  BY <1>1, <1>7, <1>13, SkipsOne DEF Text
<1> HIDE DEF r0
<1>16. r \in Text /\ Behind(r, W)
  BY <1>7, <1>14, CatTyped, CatStarts DEF Text
<1> HIDE DEF r
<1>17. From(s, Span(s, W) + 1) = r
  BY <1>2, <1>6, <1>16, SpanOver DEF Text
<1> DEFINE method == SkipTo(From(s, Span(s, {" ", "\r", "\n"}) + 1), {" "})
           uri == SkipTo(method.rest, {" "})
           version == SkipTo(uri.rest, {"\r", "\n"})
<1>18. method.word = One(m) /\ method.rest = r1
  BY <1>15, <1>17 DEF Skips, SkipTo, W, D
<1>19. uri.word = u /\ uri.rest = r3
  BY <1>12, <1>18 DEF Skips, SkipTo, D
<1>20. version.word = v /\ version.rest = body
  BY <1>10, <1>19 DEF Skips, SkipTo, Eol
<1>21. ParseRequest(s) =
         LET ok == /\ method.word \in {<<w>> : w \in ValidMethods}
                   /\ version.word # <<>> /\ version.word[1] = "HTTP/"
         IN [ok |-> ok, method |-> method.word, uri |-> uri.word,
             version |-> IF ok THEN Tail(version.word) ELSE version.word,
             headers |-> IF ok THEN FirstHeaders(ParseHeaders[version.rest]) ELSE <<>>]
  BY DEF ParseRequest
<1> HIDE DEF method, uri, version
<1>22. ParseRequest(s) = [ok |-> TRUE, method |-> One(m), uri |-> u, version |-> One("1.1"),
                          headers |-> FirstHeaders(ParseHeaders[body])]
  BY <1>4, <1>5, <1>18, <1>19, <1>20, <1>21
<1> DEFINE P == ParseRequest(s)
<1>23. P = [ok |-> TRUE, method |-> One(m), uri |-> u, version |-> One("1.1"),
            headers |-> FirstHeaders(ParseHeaders[body])]
  BY <1>22
<1> HIDE DEF P
<1>24. P.ok /\ P.method = One(m) /\ P.uri = u /\ P.version = One("1.1") /\ P.headers = FirstHeaders(ParseHeaders[body])
  BY <1>23
<1> QED BY <1>24 DEF P, s, ReadAs

\* The query the client sends.
IsQuery(q) == q = form["query"]

\* Headers there is room for.
Room(n) == IF n < MaxHeaders THEN n ELSE MaxHeaders

\* The headers read are those of the first lines.
LEMMA FirstAre ==
  ASSUME NEW l, NEW N \in Nat
  PROVE  Room(N) \in 0..N /\ FirstHeaders(HeadersOf(l, N)) = HeadersOf(l, Room(N))
<1> DEFINE H == HeadersOf(l, N)
           R == {H[i] : i \in 1..N}
           k == Room(N)
           G == HeadersOf(l, k)
<1>1. k \in 0..N
  BY HttpConstants DEF Room
<1>2. H = [i \in 1..N |-> Header(l[i])] /\ G = [i \in 1..k |-> Header(l[i])]
  BY DEF HeadersOf
<1>3. FirstHeaders(H) = SubSeq(H, 1, IF Len(H) < MaxHeaders THEN Len(H) ELSE MaxHeaders)
  BY DEF FirstHeaders
<1> HIDE DEF H, G
<1>4. H \in Seq(R) /\ Len(H) = N
  <2>1. H \in [1..N -> R]
    BY <1>2
  <2> HIDE DEF R
  <2> QED BY <1>2, <2>1
<1>5. FirstHeaders(H) = SubSeq(H, 1, k)
  BY <1>3, <1>4 DEF Room
<1> HIDE DEF k, R
<1>6. SubSeq(H, 1, k) \in Seq(R) /\ Len(SubSeq(H, 1, k)) = k /\ \A i \in 1..k : SubSeq(H, 1, k)[i] = H[i]
  BY <1>1, <1>4, UptoIs
<1>7. \A i \in 1..k : i \in 1..N /\ H[i] = G[i] /\ G[i] \in R
  <2> TAKE i \in 1..k
  <2>1. i \in 1..N
    BY <1>1
  <2> QED BY <1>2, <2>1 DEF R
<1>8. G \in Seq(R) /\ Len(G) = k
  <2>1. G \in [1..k -> R]
    BY <1>2, <1>7
  <2>2. k \in Nat
    BY <1>1
  <2> QED BY <1>2, <2>1, <2>2
<1>9. SubSeq(H, 1, k) = G
  BY <1>6, <1>7, <1>8, SeqEqual
<1> QED BY <1>1, <1>5, <1>9 DEF H, G, k

\* What parse_http_request reads of a head: the method, the URI, and as many headers as
\* there is room for, each as the client wrote it.
LEMMA HeadReads ==
  ASSUME NEW h, IsHead(h), NEW n \in 0..PostLen, NEW q \in Text, IsQuery(q), NoSpace(q),
         NEW mark \in BOOLEAN
  PROVE  ReadAs(ParseRequest(HeadText(h, mark, n)), h.method, Uri(q, mark),
                HeadersOf(Lines(h, n), Room(Len(Lines(h, n)))))
<1> DEFINE l == Lines(h, n)
           N == Len(l)
           e == h.eol
           flat == Joint(l, e)
           u == Uri(q, mark)
           b == h.blank
           m == h.method
           http == <<"HTTP/", "1.1">>
           c == " "
           text == HeadText(h, mark, n)
<1>1. e \in Text /\ Inside(e, Eol) /\ e # <<>>
  <2>1. e \in Seq(Eol) /\ e # <<>>
    BY DEF IsHead
  <2> HIDE DEF e
  <2> QED BY <2>1, SymbolsAre, WithinIs DEF Text
<1>2. N \in Nat \ {0} /\ DOMAIN l = 1..N /\ \A i \in 1..N : IsLine(l[i])
  <2> DEFINE k == Len(h.before)
  <2>1. /\ N \in Nat /\ k \in Nat /\ k + 1 \in 1..N /\ DOMAIN l = 1..N
        /\ \A i \in 1..N : IsLine(l[i])
    BY LinesAre
  <2> HIDE DEF l, N, k
  <2>2. N \in Nat \ {0}
    <3>1. N \in Nat /\ k \in Nat
      BY <2>1
    <3>2. k + 1 \in 1..N
      BY <2>1
    <3> QED BY <3>1, <3>2
  <2> QED BY <2>1, <2>2
<1>3. b \in Text /\ Inside(b, {" "} \cup Eol)
  <2> DEFINE W == {" "} \cup Eol
  <2>1. b \in Seq(W) /\ W \subseteq Symbols
    BY SymbolsAre DEF IsHead
  <2> HIDE DEF b, W
  <2>2. b \in Text /\ Inside(b, W)
    BY <2>1, WithinIs DEF Text
  <2> QED BY <2>2 DEF W
<1>4. m \in ValidMethods /\ m \in Symbols
  BY SymbolsAre DEF IsHead
<1>5. u \in Text /\ u # <<>> /\ Outside(u, {" "})
  BY UriIs
<1>51. <<"/login">> \o (IF mark THEN <<"?">> \o q ELSE <<>>) = u
  BY UriIs
<1>60. PICK body \in Text : IsBody(body, l, e, N)
  <2> HIDE DEF l, N, e
  <2> QED BY <1>1, <1>2, LinesRead
<1>6. /\ Behind(body, Eol) /\ ParseHeaders[body] = HeadersOf(l, N)
      /\ \A s \in Text : Front(Cat(s, flat)) = Cat(s, body)
  BY <1>60 DEF IsBody
<1> DEFINE s == Cat(Cat(Cat(Cat(b, Cat(One(m), One(c))), u), Cat(One(c), http)), e)
<1>7. text = Front(Cat(s, flat))
  <2>1. text = Front(b \o <<m, c>> \o u \o <<c, "HTTP/", "1.1">> \o e \o flat)
    BY <1>51 DEF HeadText, Joint, IsQuery
  <2>2. <<m, c>> = Cat(One(m), One(c)) /\ <<c, "HTTP/", "1.1">> = Cat(One(c), http)
    BY Tuples, Triple
  <2> HIDE DEF text, b, m, u, c, e, flat, http
  <2> QED BY <2>1, <2>2 DEF Cat
<1>8. http \in Text
  <2>1. One("HTTP/") \in Text /\ One("1.1") \in Text /\ http = Cat(One("HTTP/"), One("1.1"))
    BY SymbolsAre, OneIs, Tuples DEF Text
  <2> HIDE DEF http
  <2> QED BY <2>1, CatTyped DEF Text
<1>9. One(m) \in Text /\ One(c) \in Text
  BY <1>4, SymbolsAre, OneIs DEF Text
<1> HIDE DEF l, N, e, flat, u, b, m, http, c, text
<1>10. s \in Text
  <2> HIDE DEF c
  <2>1. Cat(One(m), One(c)) \in Text /\ Cat(One(c), http) \in Text
    BY <1>8, <1>9, CatTyped DEF Text
  <2>2. Cat(b, Cat(One(m), One(c))) \in Text
    BY <1>3, <2>1, CatTyped DEF Text
  <2>3. Cat(Cat(b, Cat(One(m), One(c))), u) \in Text
    BY <1>5, <2>2, CatTyped DEF Text
  <2>4. Cat(Cat(Cat(b, Cat(One(m), One(c))), u), Cat(One(c), http)) \in Text
    BY <2>1, <2>3, CatTyped DEF Text
  <2> QED BY <1>1, <2>4, CatTyped DEF Text
<1>11. text = Cat(s, body)
  BY <1>6, <1>7, <1>10
<1>12. Cat(s, body) = InRow(b, One(m), One(c), u, http, e, body)
  <2> DEFINE o == One(c)
             p == One(m)
  <2>1. o \in Text /\ p \in Text
    BY <1>9
  <2>2. Cat(s, body) = Piled(b, p, o, u, http, e, body)
    BY DEF Piled
  <2> HIDE DEF o, p, s
  <2>3. AreTexts(b, p, o, u, http, e, body)
    BY <1>1, <1>3, <1>5, <1>6, <1>8, <2>1 DEF AreTexts
  <2>5. Piled(b, p, o, u, http, e, body) = InRow(b, p, o, u, http, e, body)
    BY <2>3, Pieces
  <2> QED BY <2>2, <2>5 DEF o, p
<1> HIDE DEF s
<1>13. text = InRow(b, One(m), One(" "), u, <<"HTTP/", "1.1">>, e, body)
  BY <1>11, <1>12 DEF c, http
<1>14. ReadAs(ParseRequest(text), m, u, FirstHeaders(ParseHeaders[body]))
  <2>1. ArePieces(b, m, u, e, body)
    BY <1>1, <1>3, <1>4, <1>5, <1>6 DEF ArePieces
  <2> QED BY <1>13, <2>1, RequestReads
<1>15. FirstHeaders(HeadersOf(l, N)) = HeadersOf(l, Room(N))
  <2>1. N \in Nat
    BY <1>2
  <2> QED BY <2>1, FirstAre
<1> QED BY <1>6, <1>14, <1>15 DEF text, m, u, l, N

\* Of the headers there is room for the first the name is of is Content-Length, it is the
\* length of the body, and none is a bound of the body.
LEMMA LengthReads ==
  ASSUME NEW h, IsHead(h), NEW n \in 0..PostLen
  PROVE  LET H == HeadersOf(Lines(h, n), Room(Len(Lines(h, n))))
         IN /\ GetHeader(H, ContentLength) = One(Digits[n])
            /\ GetHeader(H, ContentLenght) = None
<1> DEFINE l == Lines(h, n)
           N == Room(Len(l))
           b == Len(h.before)
           H == HeadersOf(l, N)
           found == {i \in DOMAIN H : SameWord(H[i].name, ContentLength)}
           x == LengthLine(h, n)
<1>1. /\ b \in Nat /\ N \in Nat /\ N <= Len(l) /\ b + 1 \in 1..N /\ l[b + 1] = x
      /\ \A i \in 1..b : ~ SameWord(l[i].name, ContentLength)
      /\ \A i \in 1..N : ~ SameWord(l[i].name, ContentLenght)
  <2> HIDE DEF l, b, x
  <2>1. /\ b \in Nat /\ Len(l) \in Nat /\ b + 1 \in 1..Len(l) /\ l[b + 1] = x /\ b < MaxHeaders
        /\ \A i \in 1..b : ~ SameWord(l[i].name, ContentLength)
        /\ \A i \in 1..Len(l) : ~ SameWord(l[i].name, ContentLenght)
    BY LinesAre DEF l, b, x
  <2>2. MaxHeaders \in Nat
    BY HttpConstants
  <2>3. N \in Nat /\ N <= Len(l) /\ b + 1 \in 1..N
    BY <2>1, <2>2 DEF Room
  <2> QED BY <2>1, <2>3
<1>2. SameWord(x.name, ContentLength) /\ Stripped(x.value) = One(Digits[n])
  BY LengthIs DEF LengthLine, IsHead
<1> HIDE DEF l, N, b, x
<1>3. DOMAIN H = 1..N /\ \A i \in 1..N : H[i].name = l[i].name /\ H[i].value = Stripped(l[i].value)
  BY DEF HeadersOf, Header
<1> HIDE DEF H
<1>4. b + 1 \in found /\ \A i \in found : i \in 1..N /\ b + 1 <= i
  BY <1>1, <1>2, <1>3
<1>5. Min(found) = b + 1
  <2>1. \A i \in found : i \in Int /\ (i <= b + 1 => i = b + 1)
    BY <1>1, <1>4
  <2> HIDE DEF found
  <2>2. Min(found) = CHOOSE i \in found : \A j \in found : i <= j
    BY DEF Min
  <2>3. Min(found) \in found /\ Min(found) <= b + 1
    BY <1>1, <1>4, <2>1, <2>2
  <2> QED BY <1>1, <1>4, <2>1, <2>3
<1>6. GetHeader(H, ContentLength) = H[Min(found)].value
  <2>1. found # {}
    BY <1>4
  <2> QED BY <2>1 DEF GetHeader
<1>7. GetHeader(H, ContentLenght) = None
  <2>1. {i \in DOMAIN H : SameWord(H[i].name, ContentLenght)} = {}
    BY <1>1, <1>3
  <2> QED BY <2>1 DEF GetHeader
<1> HIDE DEF found
<1> QED BY <1>1, <1>2, <1>3, <1>5, <1>6, <1>7 DEF H, l, N

(***************************************************************************)
(* The decoding of a value.                                                *)
(***************************************************************************)
\* What is left when a symbol is decoded, and when there is none to decode.
RestOf(t) == [src |-> From(t.src, Width(t) + 1), room |-> t.room - 1, form |-> t.form]
Stops(t)  == t.src = <<>> \/ t.room = 0

\* HEXTOI makes a symbol of any two digits.
LEMMA CharIs ==
  ASSUME NEW n
  PROVE  Char(n) \in Symbols
<1>1. "byte" \in Symbols /\ DOMAIN Ascii \subseteq Symbols
  BY HttpConstants
<1>2. ASSUME \E c \in DOMAIN Ascii : Ascii[c] = n
      PROVE  (CHOOSE c \in DOMAIN Ascii : Ascii[c] = n) \in Symbols
  BY <1>1, <1>2
<1> QED BY <1>1, <1>2 DEF Char

\* url_decode goes on with a text to decode and less room.
LEMMA RestTyped ==
  ASSUME NEW t \in Encoded, ~ Stops(t)
  PROVE  /\ First(t) \in Symbols /\ RestOf(t) \in Encoded /\ RestOf(t).room = t.room - 1
         /\ RestOf(t).src = From(t.src, Width(t) + 1) /\ RestOf(t).form = t.form
<1> DEFINE s == t.src
           r == t.room
           f == t.form
           w == Width(t)
           x == First(t)
           o == RestOf(t)
<1>1. s \in Text /\ r \in Nat /\ f \in BOOLEAN /\ s # <<>> /\ r # 0
  BY DEF Encoded, Stops, Text
<1>2. w = IF IsEscape(s) THEN 3 ELSE 1
  BY DEF Width
<1>3. IsEscape(s) => Len(s) >= 3
  BY DEF IsEscape
<1>4. o = [src |-> From(s, w + 1), room |-> r - 1, form |-> f]
  BY DEF RestOf
<1>5. x \in Symbols
  <2>1. 1 \in 1..Len(s)
    <3> HIDE DEF s
    <3> QED BY <1>1, EmptySeq DEF Text
  <2>2. s[1] \in Symbols
    <3> HIDE DEF s
    <3> QED BY <1>1, <2>1, ElementOfSeq DEF Text
  <2>3. " " \in Symbols
    BY SymbolsAre
  <2>4. \A n : Char(n) \in Symbols
    BY CharIs
  <2>5. x = s[1] \/ x = " " \/ x = Char(16 * HexValue(s[2]) + HexValue(s[3]))
    BY DEF First
  <2> QED BY <2>2, <2>3, <2>4, <2>5
<1> HIDE DEF s, r, f, w, x, o
<1>6. Len(s) \in Nat \ {0}
  BY <1>1, EmptySeq DEF Text
<1>7. w + 1 \in 1..(Len(s) + 1)
  BY <1>2, <1>3, <1>6
<1>8. From(s, w + 1) \in Seq(Symbols)
  BY <1>1, <1>7, FromIs DEF Text
<1>9. o \in Encoded /\ o.room = r - 1 /\ o.src = From(s, w + 1) /\ o.form = f
  BY <1>1, <1>4, <1>8 DEF Encoded
<1> QED BY <1>5, <1>9 DEF s, r, f, w, x, o

\* url_decode reads a symbol and goes on, until the text or the room is at its end.
LEMMA UrlDecodeIs ==
  /\ \A t \in Encoded : UrlDecode[t] \in Text
  /\ \A t \in Encoded : Stops(t) => UrlDecode[t] = <<>>
  /\ \A t \in Encoded : ~ Stops(t) => UrlDecode[t] = Cat(One(First(t)), UrlDecode[RestOf(t)])
<1> DEFINE V == Text
           m == [x \in Encoded |-> x.room]
           body == [x \in [Encoded -> V] \X Encoded |->
                      IF Stops(x[2]) THEN <<>> ELSE <<First(x[2])>> \o x[1][RestOf(x[2])]]
           Body(f) == [x \in Encoded |-> IF Stops(x) THEN <<>> ELSE <<First(x)>> \o f[RestOf(x)]]
<1>0. \A a, b \in V : a \o b \in V
  BY ConcatProperties DEF Text
<1>1. /\ \A x \in Encoded : ~ Stops(x) => <<First(x)>> \in V /\ RestOf(x) \in Encoded
      /\ <<>> \in V
  <2>1. \A x \in Encoded : ~ Stops(x) => First(x) \in Symbols /\ RestOf(x) \in Encoded
    BY RestTyped
  <2>2. \A c \in Symbols : <<c>> \in V
    BY DEF Text
  <2>3. <<>> \in V
    BY DEF Text
  <2> QED BY <2>1, <2>2, <2>3
<1> HIDE DEF V
<1>2. \A f \in [Encoded -> V], x \in Encoded :
        /\ body[<<f, x>>] = (IF Stops(x) THEN <<>> ELSE <<First(x)>> \o f[RestOf(x)])
        /\ body[<<f, x>>] \in V
  <2> TAKE f \in [Encoded -> V], x \in Encoded
  <2>1. body[<<f, x>>] = (IF Stops(x) THEN <<>> ELSE <<First(x)>> \o f[RestOf(x)])
    OBVIOUS
  <2>2. ~ Stops(x) => f[RestOf(x)] \in V
    BY <1>1
  <2> HIDE DEF body
  <2> QED BY <1>0, <1>1, <2>1, <2>2
<1>3. body \in [[Encoded -> V] \X Encoded -> V]
  <2>1. DOMAIN body = [Encoded -> V] \X Encoded /\ body = [x \in [Encoded -> V] \X Encoded |-> body[x]]
    OBVIOUS
  <2>2. \A x \in [Encoded -> V] \X Encoded : body[x] \in V
    <3> TAKE x \in [Encoded -> V] \X Encoded
    <3>1. x = <<x[1], x[2]>> /\ x[1] \in [Encoded -> V] /\ x[2] \in Encoded
      OBVIOUS
    <3> HIDE DEF body
    <3> QED BY <1>2, <3>1
  <2> HIDE DEF body
  <2> QED BY <2>1, <2>2
<1> HIDE DEF body
<1>4. m \in [Encoded -> Nat] /\ \A x \in Encoded : m[x] = x.room
  BY DEF Encoded
<1> HIDE DEF m
<1>5. \A x \in Encoded : ~ Stops(x) => m[RestOf(x)] < m[x]
  <2> TAKE x \in Encoded
  <2> SUFFICES ASSUME ~ Stops(x) PROVE m[RestOf(x)] < m[x]
    OBVIOUS
  <2>1. RestOf(x) \in Encoded /\ RestOf(x).room = x.room - 1
    BY RestTyped
  <2>2. m[x] \in Nat /\ m[x] = x.room /\ m[RestOf(x)] = RestOf(x).room
    BY <1>4, <2>1
  <2> DEFINE a == m[x]
             b == m[RestOf(x)]
  <2>3. a \in Nat /\ b = a - 1
    BY <2>1, <2>2
  <2> HIDE DEF a, b
  <2>4. b < a
    BY <2>3
  <2> QED BY <2>4 DEF a, b
<1>6. Contractive(Encoded, V, m, body)
  <2>1. ASSUME NEW g \in [Encoded -> V], NEW h \in [Encoded -> V], NEW x \in Encoded,
               \A y \in Encoded : m[y] < m[x] => g[y] = h[y]
        PROVE  body[<<g, x>>] = body[<<h, x>>]
    <3>1. ~ Stops(x) => g[RestOf(x)] = h[RestOf(x)]
      BY <1>1, <1>5, <2>1
    <3> QED BY <1>2, <3>1
  <2> QED BY <1>3, <2>1 DEF Contractive
<1>7. PICK f : Solves(Encoded, V, body, f)
  <2>1. V # {}
    BY <1>1
  <2> QED BY <1>4, <1>6, <2>1, RecursiveFunctionExists
<1>8. f \in [Encoded -> V] /\ f = Body(f)
  <2>1. f \in [Encoded -> V] /\ \A x \in Encoded : f[x] = IF Stops(x) THEN <<>>
                                                          ELSE <<First(x)>> \o f[RestOf(x)]
    BY <1>2, <1>7 DEF Solves
  <2> QED BY <2>1
<1>9. UrlDecode = Body(UrlDecode)
  <2>1. UrlDecode = CHOOSE g : g = Body(g)
    BY DEF UrlDecode, Stops, RestOf
  <2> HIDE DEF Body
  <2> QED BY <1>8, <2>1
<1> DEFINE F == UrlDecode
<1>10. /\ DOMAIN F = Encoded
       /\ \A x \in Encoded : F[x] = IF Stops(x) THEN <<>> ELSE <<First(x)>> \o F[RestOf(x)]
  <2> HIDE DEF F
  <2>1. F = Body(F)
    BY <1>9 DEF F
  <2>2. /\ DOMAIN Body(F) = Encoded
        /\ \A x \in Encoded : Body(F)[x] = IF Stops(x) THEN <<>> ELSE <<First(x)>> \o F[RestOf(x)]
    OBVIOUS
  <2> HIDE DEF Body
  <2> QED BY <2>1, <2>2
<1> HIDE DEF F
<1> DEFINE P == {x \in Encoded : F[x] \in V}
<1>11. ASSUME NEW x \in Encoded, \A y \in Encoded : m[y] < m[x] => y \in P PROVE x \in P
  <2>1. CASE Stops(x)
    BY <1>1, <1>10, <2>1
  <2>2. CASE ~ Stops(x)
    <3>1. F[RestOf(x)] \in V
      BY <1>1, <1>5, <1>11, <2>2
    <3>2. F[x] = <<First(x)>> \o F[RestOf(x)] /\ <<First(x)>> \in V
      BY <1>1, <1>10, <2>2
    <3> QED BY <1>0, <3>1, <3>2
  <2> QED BY <2>1, <2>2
<1>12. Encoded \subseteq P
  <2> HIDE DEF P
  <2> QED BY <1>4, <1>11, MeasureInduction
<1> QED BY <1>10, <1>12 DEF F, V, Cat, One

\* url_decode writes no more than there is room for.
LEMMA DecodedFits == \A t \in Encoded : Len(UrlDecode[t]) <= t.room
<1> DEFINE m == [x \in Encoded |-> x.room]
           P == {x \in Encoded : Len(UrlDecode[x]) <= x.room}
<1>1. m \in [Encoded -> Nat] /\ \A x \in Encoded : m[x] = x.room /\ x.room \in Nat
  BY DEF Encoded
<1> HIDE DEF m
<1>2. ASSUME NEW x \in Encoded, \A y \in Encoded : m[y] < m[x] => y \in P PROVE x \in P
  <2>1. CASE Stops(x)
    BY <1>1, <2>1, UrlDecodeIs
  <2>2. CASE ~ Stops(x)
    <3> DEFINE r == RestOf(x)
               d == UrlDecode[r]
               n == x.room
               k == r.room
               o == One(First(x))
    <3>1. First(x) \in Symbols /\ r \in Encoded /\ k = n - 1
      BY <2>2, RestTyped
    <3>2. d \in Text /\ UrlDecode[x] = Cat(o, d) /\ n \in Nat /\ k \in Nat
      BY <1>1, <2>2, <3>1, UrlDecodeIs
    <3>3. m[r] = k /\ m[x] = n
      BY <1>1, <3>1
    <3>4. o \in Text /\ Len(o) = 1
      BY <3>1, OneIs DEF Text
    <3> HIDE DEF d, n, k, o
    <3>5. k < n
      BY <3>1, <3>2
    <3>6. Len(d) <= k
      <4>1. r \in P
        BY <1>2, <3>1, <3>3, <3>5
      <4> QED BY <4>1 DEF d, k
    <3>7. Len(Cat(o, d)) = Len(o) + Len(d)
      BY <3>2, <3>4, CatParts DEF Text
    <3>8. Len(d) \in Nat
      BY <3>2 DEF Text
    <3>9. Len(Cat(o, d)) <= n
      BY <3>1, <3>2, <3>4, <3>6, <3>7, <3>8
    <3> QED BY <3>2, <3>9 DEF n
  <2> QED BY <2>1, <2>2
<1>3. Encoded \subseteq P
  <2> HIDE DEF P
  <2> QED BY <1>1, <1>2, MeasureInduction
<1> QED BY <1>3

(***************************************************************************)
(* The spelling of a value.                                                *)
(***************************************************************************)
ToDecode(s, n) == [src |-> s, room |-> n, form |-> TRUE]

\* A text of a form is one to decode.
LEMMA ToDecodeTyped ==
  ASSUME NEW s \in Text, NEW n \in Nat
  PROVE  /\ ToDecode(s, n) \in Encoded /\ ToDecode(s, n).src = s /\ ToDecode(s, n).room = n
         /\ ToDecode(s, n).form = TRUE
BY DEF ToDecode, Encoded, Text

\* A text reads as a symbol that takes the first w of it.
ReadsFirst(s, w, c) == First(ToDecode(s, 1)) = c /\ Width(ToDecode(s, 1)) = w

\* The first symbol of a decoded text, and the others.
LEMMA DecodesFirst ==
  ASSUME NEW s \in Text, NEW r \in Text, NEW t \in Text, NEW c \in Symbols, NEW n \in Nat,
         s # <<>>, t = Cat(s, r), ReadsFirst(t, Len(s), c)
  PROVE  UrlDecode[ToDecode(t, n + 1)] = Cat(One(c), UrlDecode[ToDecode(r, n)])
<1> DEFINE x == ToDecode(t, n + 1)
<1>1. x \in Encoded /\ x.src = t /\ x.room = n + 1 /\ x.form = TRUE
  <2>1. n + 1 \in Nat
    OBVIOUS
  <2> QED BY <2>1, ToDecodeTyped
<1>2. First(x) = c /\ Width(x) = Len(s)
  <2>1. ToDecode(t, 1).src = t /\ ToDecode(t, 1).form = TRUE
    BY ToDecodeTyped
  <2>2. First(x) = First(ToDecode(t, 1)) /\ Width(x) = Width(ToDecode(t, 1))
    BY <1>1, <2>1 DEF First, Width
  <2> QED BY <2>2 DEF ReadsFirst
<1>3. t # <<>>
  BY CatStarts DEF Text
<1>4. ~ Stops(x)
  BY <1>1, <1>3 DEF Stops
<1>5. From(t, Len(s) + 1) = r
  BY CatParts DEF Text
<1>6. RestOf(x) = ToDecode(r, n)
  <2>1. (n + 1) - 1 = n
    OBVIOUS
  <2> HIDE DEF x
  <2> QED BY <1>1, <1>2, <1>5, <2>1 DEF RestOf, ToDecode
<1> QED BY <1>1, <1>2, <1>4, <1>6, UrlDecodeIs

\* The ways to write a symbol.
Plain(c, s)    == s = One(c) /\ c # "+" /\ c # "%" /\ c # "&" /\ c # " "
AsPlus(c, s)   == c = " " /\ s = One("+")
ByNumber(c, s) == \E d, e \in HexDigits : s = <<"%", d, e>> /\ Char(16 * HexValue(d) + HexValue(e)) = c

\* There are three ways to spell a symbol.
LEMMA SpellingIs ==
  ASSUME NEW c, NEW s \in SpellingsOf(c)
  PROVE  Plain(c, s) \/ AsPlus(c, s) \/ ByNumber(c, s)
<1>1. CASE s \in {<<x>> : x \in {c} \ {"+", "%", "&", " ", "nul"}}
  BY <1>1 DEF Plain, One
<1>2. CASE s \in {<<x>> : x \in IF c = " " THEN {"+"} ELSE {}}
  BY <1>2 DEF AsPlus, One
<1>3. CASE s \in {<<"%", d[1], d[2]>> : d \in {x \in HexDigits \X HexDigits :
                                       Char(16 * HexValue(x[1]) + HexValue(x[2])) = c}}
  <2>1. PICK d \in HexDigits \X HexDigits :
          s = <<"%", d[1], d[2]>> /\ Char(16 * HexValue(d[1]) + HexValue(d[2])) = c
    BY <1>3
  <2> QED BY <2>1 DEF ByNumber
<1> QED BY <1>1, <1>2, <1>3 DEF SpellingsOf

\* No spelling ends the value, or begins with what is none.
Kept(s) == Outside(s, {"&"}) /\ Outside(s, {" "})

\* An encoded character is three symbols.
LEMMA TripleIs ==
  ASSUME NEW S, NEW a \in S, NEW b \in S, NEW c \in S
  PROVE  /\ <<a, b, c>> \in Seq(S) /\ Len(<<a, b, c>>) = 3 /\ <<a, b, c>>[1] = a
         /\ <<a, b, c>>[2] = b /\ <<a, b, c>>[3] = c /\ <<a, b, c>> # <<>>
OBVIOUS

\* A spelling reads as the symbol it is for, whatever follows.
LEMMA SpellingReads ==
  ASSUME NEW c \in Symbols, NEW s \in SpellingsOf(c)
  PROVE  /\ s \in Text /\ s # <<>> /\ Kept(s)
         /\ \A r \in Text : ReadsFirst(Cat(s, r), Len(s), c)
<1>0. "+" \in Symbols /\ "%" \in Symbols /\ HexDigits \subseteq Symbols
  BY HttpConstants
<1>1. ASSUME NEW x \in Symbols, x # "%", x # "&", x # " ", s = One(x), x = "+" => c = " ",
             x # "+" => c = x
      PROVE  /\ s \in Text /\ s # <<>> /\ Kept(s)
             /\ \A r \in Text : ReadsFirst(Cat(s, r), Len(s), c)
  <2>1. s \in Text /\ s # <<>> /\ Len(s) = 1 /\ s[1] = x
    BY <1>1, OneIs DEF Text
  <2>2. Kept(s)
    <3>1. x \notin {"&"} /\ x \notin {" "}
      BY <1>1
    <3>2. \A D : x \notin D => Outside(One(x), D)
      BY OneIs
    <3> QED BY <1>1, <3>1, <3>2 DEF Kept
  <2>3. ASSUME NEW r \in Text PROVE ReadsFirst(Cat(s, r), Len(s), c)
    <3> DEFINE t == Cat(s, r)
               e == ToDecode(t, 1)
    <3>1. t \in Text /\ t[1] = x
      BY <2>1, CatTyped, CatStarts DEF Text
    <3> HIDE DEF t
    <3>2. e.src = t /\ e.form = TRUE
      BY <3>1, ToDecodeTyped
    <3> HIDE DEF e
    <3>3. ~ IsEscape(t)
      BY <1>1, <3>1 DEF IsEscape
    <3>4. Width(e) = 1
      BY <3>2, <3>3 DEF Width
    <3>5. First(e) = IF x = "+" THEN " " ELSE x
      BY <3>1, <3>2, <3>3 DEF First
    <3>6. First(e) = c
      BY <1>1, <3>5
    <3> QED BY <2>1, <3>4, <3>6 DEF ReadsFirst, e, t
  <2> QED BY <2>1, <2>2, <2>3
<1>2. CASE Plain(c, s)
  <2>1. s = One(c) /\ c # "+" /\ c # "%" /\ c # "&" /\ c # " "
    BY <1>2 DEF Plain
  <2> QED BY <1>1, <2>1
<1>3. CASE AsPlus(c, s)
  <2> DEFINE x == "+"
  <2>1. s = One(x) /\ x \in Symbols /\ x # "%" /\ x # "&" /\ x # " " /\ x = "+" /\ c = " "
    BY <1>0, <1>3 DEF AsPlus
  <2> HIDE DEF x
  <2> QED BY <1>1, <2>1
<1>4. CASE ByNumber(c, s)
  <2>1. PICK d, e \in HexDigits : s = <<"%", d, e>> /\ Char(16 * HexValue(d) + HexValue(e)) = c
    BY <1>4 DEF ByNumber
  <2> DEFINE p == "%"
  <2>2. p \in Symbols /\ d \in Symbols /\ e \in Symbols /\ s = <<p, d, e>>
    BY <1>0, <2>1
  <2>3. p \notin {"&"} /\ p \notin {" "} /\ d \notin {"&"} /\ d \notin {" "} /\ e \notin {"&"} /\ e \notin {" "}
    BY DEF HexDigits
  <2>31. p = "%"
    OBVIOUS
  <2> HIDE DEF p
  <2>4. s \in Text /\ Len(s) = 3 /\ s[1] = p /\ s[2] = d /\ s[3] = e /\ s # <<>>
    BY <2>2, TripleIs DEF Text
  <2>5. \A i \in 1..Len(s) : s[i] = p \/ s[i] = d \/ s[i] = e
    <3> TAKE i \in 1..Len(s)
    <3>1. i = 1 \/ i = 2 \/ i = 3
      BY <2>4
    <3> QED BY <2>4, <3>1
  <2>6. Kept(s)
    BY <2>3, <2>5 DEF Kept, Outside
  <2>7. ASSUME NEW r \in Text PROVE ReadsFirst(Cat(s, r), Len(s), c)
    <3> DEFINE t == Cat(s, r)
               x == ToDecode(t, 1)
    <3>1. t \in Text /\ t[1] = p /\ t[2] = d /\ t[3] = e /\ Len(t) >= 3
      <4>1. /\ s \o r \in Seq(Symbols) /\ Len(s \o r) = Len(s) + Len(r)
            /\ \A i \in 1..(Len(s) + Len(r)) : (s \o r)[i] = IF i <= Len(s) THEN s[i] ELSE r[i - Len(s)]
        BY <2>4, ConcatProperties DEF Text
      <4>2. Len(r) \in Nat
        BY DEF Text
      <4> DEFINE u == s \o r
      <4>3. u \in Seq(Symbols) /\ Len(u) = 3 + Len(r)
            /\ \A i \in 1..(3 + Len(r)) : u[i] = IF i <= 3 THEN s[i] ELSE r[i - 3]
        BY <2>4, <4>1
      <4> HIDE DEF u
      <4>4. 1 \in 1..(3 + Len(r)) /\ 2 \in 1..(3 + Len(r)) /\ 3 \in 1..(3 + Len(r))
        BY <4>2
      <4>5. u[1] = p /\ u[2] = d /\ u[3] = e /\ Len(u) >= 3
        BY <2>4, <4>2, <4>3, <4>4
      <4> QED BY <4>3, <4>5 DEF u, Cat, Text
    <3> HIDE DEF t
    <3>2. x.src = t
      BY <3>1, ToDecodeTyped
    <3> HIDE DEF x
    <3>3. IsEscape(t)
      BY <2>31, <3>1 DEF IsEscape
    <3>4. Width(x) = 3
      BY <3>2, <3>3 DEF Width
    <3>5. First(x) = Char(16 * HexValue(d) + HexValue(e))
      BY <3>1, <3>2, <3>3 DEF First
    <3> QED BY <2>1, <2>4, <3>4, <3>5 DEF ReadsFirst, x, t
  <2> QED BY <2>4, <2>6, <2>7
<1> QED BY <1>2, <1>3, <1>4, SpellingIs

\* A text one symbol longer.
LEMMA PrefixAdds ==
  ASSUME NEW S, NEW v \in Seq(S), NEW k \in Nat, k + 1 <= Len(v)
  PROVE  /\ SubSeq(v, 1, k) \in Seq(S) /\ v[k + 1] \in S
         /\ Cat(SubSeq(v, 1, k), One(v[k + 1])) = SubSeq(v, 1, k + 1)
<1> DEFINE n == Len(v)
           f == SubSeq(v, 1, k)
           g == SubSeq(v, 1, k + 1)
           x == v[k + 1]
           o == <<x>>
<1>0. n \in Nat /\ k + 1 <= n
  OBVIOUS
<1> HIDE DEF n
<1>1. k \in 0..n /\ k + 1 \in 0..n /\ k + 1 \in 1..n
  BY <1>0
<1>2. f \in Seq(S) /\ Len(f) = k /\ \A j \in 1..k : f[j] = v[j]
  BY <1>1, UptoIs DEF n
<1>3. g \in Seq(S) /\ Len(g) = k + 1 /\ \A j \in 1..(k + 1) : g[j] = v[j]
  BY <1>1, UptoIs DEF n
<1>4. x \in S
  BY <1>1, ElementOfSeq DEF n
<1> HIDE DEF f, g
<1>5. x = v[k + 1]
  OBVIOUS
<1> HIDE DEF x
<1>6. o \in Seq(S) /\ Len(o) = 1 /\ o[1] = x
  BY <1>4
<1> HIDE DEF o
<1>7. /\ f \o o \in Seq(S) /\ Len(f \o o) = Len(f) + Len(o)
      /\ \A i \in 1..(Len(f) + Len(o)) : (f \o o)[i] = IF i <= Len(f) THEN f[i] ELSE o[i - Len(f)]
  BY <1>2, <1>6, ConcatProperties, ZenonT(60)
<1>8. Len(f \o o) = Len(g)
  BY <1>2, <1>3, <1>6, <1>7
<1>9. ASSUME NEW i \in 1..Len(f \o o) PROVE (f \o o)[i] = g[i]
  <2>1. i \in 1..(k + 1) /\ i \in 1..(Len(f) + Len(o))
    BY <1>2, <1>6, <1>7, <1>9
  <2>2. CASE i <= k
    <3>1. i \in 1..k
      BY <2>1, <2>2
    <3> QED BY <1>2, <1>3, <1>7, <2>1, <2>2, <3>1
  <2>3. CASE ~ (i <= k)
    <3>1. i = k + 1 /\ i - Len(f) = 1
      BY <1>2, <2>1, <2>3
    <3> QED BY <1>2, <1>3, <1>5, <1>6, <1>7, <2>1, <2>3, <3>1
  <2> QED BY <2>2, <2>3
<1>10. f \o o = g
  BY <1>3, <1>7, <1>8, <1>9, SeqEqual
<1> QED BY <1>2, <1>4, <1>10 DEF f, g, o, x, Cat, One

\* The client wrote the first n symbols, and u has the texts of the first ones joined.
Writes(n, v, how, u) ==
  /\ \A k \in 0..n : u[k] \in Text
  /\ u[0] = <<>>
  /\ \A k \in 1..n : u[k] = Cat(u[k - 1], how[k]) /\ how[k] \in SpellingsOf(v[k])

\* What is read of a text of k symbols, and of what follows it.
Reads(k, t, w) ==
  \A r \in Text, n \in Nat :
    UrlDecode[ToDecode(Cat(t, r), k + n)] = Cat(w, UrlDecode[ToDecode(r, n)])

\* A text reads as a value.
Decodes(w, v) ==
  /\ w \in Text /\ Kept(w)
  /\ \A n \in Nat : n >= Len(w) => UrlDecode[ToDecode(w, n)] = v

\* Two spellings one after the other neither end the value nor the URI.
LEMMA KeptCat ==
  ASSUME NEW s \in Text, NEW t \in Text, Kept(s), Kept(t)
  PROVE  Kept(Cat(s, t))
BY CatInside DEF Kept, Text

\* With the spelling of one more symbol, one more symbol is read.
LEMMA ReadsNext ==
  ASSUME NEW k \in Nat, NEW t \in Text, NEW w \in Text, NEW s \in Text, s # <<>>, NEW c \in Symbols,
         Reads(k, t, w), \A r \in Text : ReadsFirst(Cat(s, r), Len(s), c)
  PROVE  Reads(k + 1, Cat(t, s), Cat(w, One(c)))
<1> SUFFICES ASSUME NEW r \in Text, NEW n \in Nat
             PROVE  UrlDecode[ToDecode(Cat(Cat(t, s), r), (k + 1) + n)]
                    = Cat(Cat(w, One(c)), UrlDecode[ToDecode(r, n)])
  BY DEF Reads
<1> DEFINE x == Cat(s, r)
           d == UrlDecode[ToDecode(r, n)]
<1>1. x \in Text /\ Cat(Cat(t, s), r) = Cat(t, x)
  BY CatTyped, CatAssoc DEF Text
<1>2. ReadsFirst(x, Len(s), c)
  OBVIOUS
<1>3. UrlDecode[ToDecode(x, n + 1)] = Cat(One(c), d)
  <2> HIDE DEF x
  <2>1. x = Cat(s, r)
    BY DEF x
  <2> QED BY <1>1, <1>2, <2>1, DecodesFirst
<1>4. (k + 1) + n = k + (n + 1) /\ n + 1 \in Nat
  OBVIOUS
<1>5. d \in Text
  BY ToDecodeTyped, UrlDecodeIs
<1>6. One(c) \in Text
  BY OneTyped DEF Text
<1> HIDE DEF x, d
<1>7. UrlDecode[ToDecode(Cat(t, x), k + (n + 1))] = Cat(w, Cat(One(c), d))
  <2> DEFINE m == n + 1
  <2>1. m \in Nat
    BY <1>4
  <2>2. UrlDecode[ToDecode(x, m)] = Cat(One(c), d)
    BY <1>3
  <2> HIDE DEF m
  <2>3. UrlDecode[ToDecode(Cat(t, x), k + m)] = Cat(w, Cat(One(c), d))
    BY <1>1, <2>1, <2>2 DEF Reads
  <2> QED BY <2>3 DEF m
<1>8. Cat(w, Cat(One(c), d)) = Cat(Cat(w, One(c)), d)
  BY <1>5, <1>6, CatAssoc DEF Text
<1>9. UrlDecode[ToDecode(Cat(Cat(t, s), r), (k + 1) + n)] = Cat(Cat(w, One(c)), d)
  BY <1>1, <1>4, <1>7, <1>8
<1> QED BY <1>9 DEF d

\* The text of the first k symbols, of at least k symbols, reads as them.
IsUpto(k, v, t) == Kept(t) /\ Len(t) >= k /\ Reads(k, t, SubSeq(v, 1, k))

\* All symbols of a spelled value are read.
LEMMA ManySpelled ==
  ASSUME NEW v \in Text, NEW how, NEW u, Writes(Len(v), v, how, u)
  PROVE  IsUpto(Len(v), v, u[Len(v)])
<1> DEFINE n == Len(v)
           N == {k \in Nat : k <= n => IsUpto(k, v, u[k])}
<1>0. n \in Nat
  BY DEF Text
<1>1. 0 \in N
  <2>1. u[0] = <<>>
    BY DEF Writes
  <2>2. SubSeq(v, 1, 0) = <<>> /\ Kept(<<>>) /\ Len(<<>>) >= 0
    BY DEF Kept, Outside
  <2>3. \A r \in Text : Cat(<<>>, r) = r
    BY CatEmpty DEF Text
  <2>4. \A m \in Nat : 0 + m = m
    OBVIOUS
  <2>5. \A r \in Text, m \in Nat : UrlDecode[ToDecode(r, m)] \in Text
    BY ToDecodeTyped, UrlDecodeIs
  <2>6. Reads(0, <<>>, <<>>)
    BY <2>3, <2>4, <2>5 DEF Reads
  <2> QED BY <2>1, <2>2, <2>6 DEF IsUpto
<1>2. ASSUME NEW k \in Nat, k \in N PROVE k + 1 \in N
  <2> SUFFICES ASSUME k + 1 <= n PROVE IsUpto(k + 1, v, u[k + 1])
    OBVIOUS
  <2> DEFINE s == how[k + 1]
             c == v[k + 1]
             w == SubSeq(v, 1, k)
             x == SubSeq(v, 1, k + 1)
             a == u[k]
             b == u[k + 1]
  <2>1. k + 1 \in 1..n /\ k \in 0..n /\ k <= n /\ (k + 1) - 1 = k
    BY <1>0
  <2>2. a \in Text /\ b = Cat(a, s) /\ s \in SpellingsOf(c)
    BY <2>1 DEF Writes
  <2>3. w \in Text /\ c \in Symbols /\ Cat(w, One(c)) = x
    BY PrefixAdds DEF Text
  <2>4. Kept(a) /\ Len(a) >= k /\ Reads(k, a, w)
    BY <1>2, <2>1 DEF IsUpto
  <2>5. /\ s \in Text /\ s # <<>> /\ Kept(s)
        /\ \A r \in Text : ReadsFirst(Cat(s, r), Len(s), c)
    BY <2>2, <2>3, SpellingReads
  <2> HIDE DEF s, c, w, x, a, b
  <2>6. Reads(k + 1, b, x)
    BY <2>2, <2>3, <2>4, <2>5, ReadsNext
  <2>7. Kept(b)
    BY <2>2, <2>4, <2>5, KeptCat
  <2>8. Len(b) >= k + 1
    <3>1. Len(b) = Len(a) + Len(s)
      BY <2>2, <2>5, CatParts DEF Text
    <3>2. Len(a) \in Nat /\ Len(s) \in Nat \ {0}
      BY <2>2, <2>5, EmptySeq DEF Text
    <3> QED BY <2>4, <3>1, <3>2
  <2> QED BY <2>6, <2>7, <2>8 DEF IsUpto, b, x
<1>3. \A k \in Nat : k \in N
  <2> HIDE DEF N
  <2> QED BY <1>1, <1>2, SetInduction
<1> QED BY <1>0, <1>3

\* However a value is spelled, it reads back.
LEMMA SpelledDecodes ==
  ASSUME NEW v \in Text, NEW how, \A i \in DOMAIN v : how[i] \in SpellingsOf(v[i])
  PROVE  Decodes(Spelled(v, how), v)
<1> DEFINE n == Len(v)
           q == [i \in DOMAIN v |-> how[i]]
           u == [k \in 0..n |-> Upto(q, k)]
           t == Spelled(v, how)
<1>1. n \in Nat /\ DOMAIN v = 1..n /\ \A i \in 1..n : v[i] \in Symbols
  BY DEF Text
<1>2. \A i \in 1..n : how[i] \in Text
  <2> TAKE i \in 1..n
  <2>1. v[i] \in Symbols /\ how[i] \in SpellingsOf(v[i])
    BY <1>1
  <2> QED BY <2>1, SpellingReads
<1>3. DOMAIN q = 1..n /\ \A i \in 1..n : q[i] = how[i]
  BY <1>1
<1>4. q \in Seq(Text) /\ Len(q) = n
  <2>1. q = [i \in 1..n |-> how[i]]
    BY <1>1
  <2> HIDE DEF n
  <2> QED BY <1>1, <1>2, <2>1
<1>5. t = FlattenSeq(q)
  BY DEF Spelled
<1> HIDE DEF q, t
<1>6. /\ \A k \in 0..n : Upto(q, k) \in Text
      /\ Upto(q, 0) = <<>> /\ \A k \in 1..n : Upto(q, k) = Cat(Upto(q, k - 1), q[k])
      /\ t = Upto(q, n)
  BY <1>4, <1>5, UptoAdds DEF Text, Cat
<1>7. \A k \in 0..n : u[k] = Upto(q, k)
  OBVIOUS
<1> HIDE DEF u
<1>8. Writes(n, v, how, u)
  <2>1. \A k \in 0..n : u[k] \in Text
    BY <1>6, <1>7
  <2>2. u[0] = <<>>
    BY <1>1, <1>6, <1>7
  <2>3. ASSUME NEW k \in 1..n PROVE u[k] = Cat(u[k - 1], how[k]) /\ how[k] \in SpellingsOf(v[k])
    <3>1. k \in 0..n /\ k - 1 \in 0..n
      BY <1>1
    <3>2. k \in DOMAIN v
      BY <1>1
    <3> QED BY <1>3, <1>6, <1>7, <3>1, <3>2
  <2> QED BY <2>1, <2>2, <2>3 DEF Writes
<1>9. IsUpto(n, v, t) /\ t \in Text
  <2>1. n \in 0..n
    BY <1>1
  <2> QED BY <1>6, <1>7, <1>8, <2>1, ManySpelled
<1> HIDE DEF n
<1>10. SubSeq(v, 1, n) = v
  <2>1. v \in Seq(Symbols) /\ Len(v) = n
    BY DEF Text, n
  <2> QED BY <2>1, <1>1
<1>11. ASSUME NEW m \in Nat, m >= Len(t) PROVE UrlDecode[ToDecode(t, m)] = v
  <2> DEFINE k == m - n
  <2>1. k \in Nat /\ n + k = m
    <3>1. Len(t) \in Nat /\ Len(t) >= n
      BY <1>9 DEF IsUpto, Text
    <3> QED BY <1>1, <1>11, <3>1
  <2> HIDE DEF k
  <2>2. <<>> \in Text /\ Cat(t, <<>>) = t /\ Cat(v, <<>>) = v
    BY <1>9, CatEmpty, EmptySeq DEF Text
  <2>3. UrlDecode[ToDecode(Cat(t, <<>>), n + k)] = Cat(v, UrlDecode[ToDecode(<<>>, k)])
    BY <1>9, <1>10, <2>1, <2>2 DEF IsUpto, Reads
  <2>4. UrlDecode[ToDecode(<<>>, k)] = <<>>
    <3>1. ToDecode(<<>>, k) \in Encoded /\ ToDecode(<<>>, k).src = <<>>
      BY <2>1, <2>2, ToDecodeTyped
    <3> QED BY <3>1, UrlDecodeIs DEF Stops
  <2> QED BY <2>1, <2>2, <2>3, <2>4
<1> QED BY <1>9, <1>11 DEF Decodes, IsUpto, t

(***************************************************************************)
(* What the server makes of the head: the address and the query, and how   *)
(* much of the body it reads.                                              *)
(***************************************************************************)
\* The address has no encoded character.
LEMMA UriDecoded == UrlDecode[[src |-> One("/login"), room |-> 1, form |-> FALSE]] = <<"/login">>
<1> DEFINE l == "/login"
           t == [src |-> One(l), room |-> 1, form |-> FALSE]
           w == One(l)
<1>1. w \in Text /\ w # <<>> /\ Len(w) = 1 /\ w[1] = l /\ l \in Symbols
  BY SymbolsAre, OneIs DEF Text
<1>2. t \in Encoded /\ t.src = w /\ t.room = 1 /\ t.form = FALSE
  BY <1>1 DEF Encoded, Text
<1> HIDE DEF l, t, w
<1>3. ~ Stops(t)
  BY <1>1, <1>2 DEF Stops
<1>4. ~ IsEscape(w)
  BY <1>1 DEF IsEscape
<1>5. First(t) = l /\ Width(t) = 1
  BY <1>1, <1>2, <1>4 DEF First, Width
<1>6. RestOf(t) \in Encoded /\ RestOf(t).room = t.room - 1
  BY <1>2, <1>3, RestTyped
<1>7. RestOf(t).room = 0
  BY <1>2, <1>6
<1>8. UrlDecode[RestOf(t)] = <<>>
  BY <1>6, <1>7, UrlDecodeIs DEF Stops
<1>9. UrlDecode[t] = Cat(One(l), <<>>)
  BY <1>2, <1>3, <1>5, <1>8, UrlDecodeIs
<1>10. UrlDecode[t] = One(l)
  BY <1>1, <1>9, CatEmpty DEF w, Text
<1> QED BY <1>10 DEF One, t, l

\* The address ends where the query begins.
UriEnd(uri)   == Span(uri, ToSet(uri) \ {"?"})
QueryOf(uri)  == IF UriEnd(uri) = Len(uri) THEN None ELSE From(uri, UriEnd(uri) + 2)
Query(q, mark) == IF mark THEN q ELSE None

\* The server takes the address and the query apart as the client joined them.
LEMMA UriSplits ==
  ASSUME NEW q \in Text, NEW mark \in BOOLEAN
  PROVE  /\ UriEnd(Uri(q, mark)) = 1 /\ SubSeq(Uri(q, mark), 1, 1) = One("/login")
         /\ QueryOf(Uri(q, mark)) = Query(q, mark)
<1> DEFINE l == "/login"
           m == "?"
           u == Uri(q, mark)
           D == ToSet(u) \ {m}
           r == Cat(One(m), q)
           n == UriEnd(u)
<1>1. l \in Symbols /\ m \in Symbols /\ l # m
  BY SymbolsAre
<1>2. u = IF mark THEN Cat(One(l), r) ELSE One(l)
  BY DEF Uri
<1>3. n = Span(u, D)
  BY DEF UriEnd
<1>4. QueryOf(u) = IF n = Len(u) THEN None ELSE From(u, n + 2)
  BY DEF QueryOf
<1> HIDE DEF l, m, u, n
<1>5. One(l) \in Text /\ One(l) # <<>> /\ Len(One(l)) = 1 /\ One(l)[1] = l
      /\ One(m) \in Text /\ One(m) # <<>> /\ Len(One(m)) = 1 /\ One(m)[1] = m
  BY <1>1, OneIs DEF Text
<1>6. r \in Text /\ r # <<>> /\ r[1] = m
  BY <1>5, CatTyped, CatStarts DEF Text
<1>7. r = Cat(One(m), q)
  OBVIOUS
<1> HIDE DEF r
<1>8. u \in Text /\ u # <<>> /\ u[1] = l
  BY <1>2, <1>5, <1>6, CatTyped, CatStarts DEF Text
<1>9. l \in D
  <2>1. 1 \in DOMAIN u
    BY <1>8, EmptySeq DEF Text
  <2> QED BY <1>1, <1>8, <2>1 DEF ToSet
<1>10. m \notin D
  OBVIOUS
<1> HIDE DEF D
<1>11. Inside(One(l), D) /\ Behind(r, D)
  <2>1. Inside(One(l), D)
    BY <1>1, <1>9, OneIs
  <2> QED BY <1>6, <1>10, <2>1 DEF Behind
<1>12. CASE ~ mark
  <2>1. u = One(l)
    BY <1>2, <1>12
  <2>2. u = Cat(One(l), <<>>) /\ Behind(<<>>, D) /\ <<>> \in Text
    BY <1>5, <2>1, CatEmpty, EmptySeq DEF Text, Behind
  <2>3. n = 1
    BY <1>3, <1>5, <1>11, <2>2, SpanOver DEF Text
  <2>4. SubSeq(u, 1, Span(u, D)) = One(l)
    BY <1>5, <1>11, <2>2, SpanOver DEF Text
  <2>5. QueryOf(u) = None
    BY <1>4, <1>5, <2>1, <2>3
  <2>6. SubSeq(u, 1, 1) = One(l)
    BY <1>3, <2>3, <2>4
  <2> QED BY <1>12, <2>3, <2>5, <2>6 DEF u, l, n, Query
<1>13. CASE mark
  <2>1. u = Cat(One(l), r)
    BY <1>2, <1>13
  <2>2. n = 1
    BY <1>3, <1>5, <1>6, <1>11, <2>1, SpanOver DEF Text
  <2>3. SubSeq(u, 1, Span(u, D)) = One(l)
    BY <1>5, <1>6, <1>11, <2>1, SpanOver DEF Text
  <2> DEFINE p == Cat(One(l), One(m))
  <2>4. p \in Text /\ Len(p) = 1 + 1 /\ u = Cat(p, q)
    <3>1. p \in Text /\ Len(p) = Len(One(l)) + Len(One(m))
      BY <1>5, CatTyped, CatParts DEF Text
    <3>2. Cat(Cat(One(l), One(m)), q) = Cat(One(l), Cat(One(m), q))
      BY <1>5, CatAssoc DEF Text
    <3> QED BY <1>5, <1>7, <2>1, <3>1, <3>2
  <2> HIDE DEF p
  <2>5. From(u, Len(p) + 1) = q /\ Len(u) = Len(p) + Len(q)
    BY <2>4, CatParts DEF Text
  <2>6. n + 2 = Len(p) + 1
    BY <2>2, <2>4
  <2>7. Len(u) # n
    <3>1. Len(q) \in Nat
      BY DEF Text
    <3> QED BY <2>2, <2>4, <2>5, <3>1
  <2>8. QueryOf(u) = q
    BY <1>4, <2>5, <2>6, <2>7
  <2>9. SubSeq(u, 1, 1) = One(l)
    BY <1>3, <2>2, <2>3
  <2> QED BY <1>13, <2>2, <2>8, <2>9 DEF u, l, n, Query
<1> QED BY <1>12, <1>13

\* atoi reads a number back from its digits.
LEMMA NumberReads ==
  ASSUME NEW n \in 0..PostLen
  PROVE  Number(One(Digits[n])) = n
<1>1. \A m \in 0..PostLen : Digits[m] = Digits[n] => m = n
  BY LoginConstants
<1>2. \A m \in 0..PostLen : <<Digits[m]>> = <<Digits[n]>> => m = n
  <2> TAKE m \in 0..PostLen
  <2>1. <<Digits[m]>> = <<Digits[n]>> => Digits[m] = Digits[n]
    OBVIOUS
  <2> QED BY <1>1, <2>1
<1>3. One(Digits[n]) = <<Digits[n]>>
  BY DEF One
<1>4. Number(One(Digits[n])) = CHOOSE m \in 0..PostLen : <<Digits[m]>> = <<Digits[n]>>
  BY <1>3 DEF Number
<1> QED BY <1>2, <1>4

\* What the client sent with the forms, and what the server makes of it.
Sent(h, mark, body)       == [head |-> HeadText(h, mark, Len(body)), body |-> body, method |-> h.method]
Request(h, mark, q, body) == [ok |-> TRUE, method |-> <<h.method>>, uri |-> <<"/login">>,
                              query |-> Query(q, mark), post |-> body]

\* handle_request makes of a sent request the address, the query and the body the client
\* wrote.
LEMMA RequestMade ==
  ASSUME NEW h \in Heads, NEW mark \in BOOLEAN, NEW q \in Text, IsQuery(q), NoSpace(q),
         NEW body \in Text, Len(body) <= PostLen, wire = Sent(h, mark, body), HandleRequest
  PROVE  ri' = Request(h, mark, q, body)
<1> DEFINE r    == ParseRequest(wire.head)
           n    == Len(body)
           k    == UriEnd(r.uri)
           cl   == GetHeader(r.headers, ContentLength)
           size == IF cl = None THEN 0 ELSE Number(cl)
           clen == GetHeader(r.headers, ContentLenght)
           most == IF clen = None THEN PostLen ELSE Number(clen)
           post == SubSeq(wire.body, 1, IF size < most THEN size ELSE most)
           l    == Lines(h, n)
           m    == h.method
<1>1. ri' = [ok |-> Understood(r), method |-> r.method,
             uri |-> UrlDecode[[src |-> SubSeq(r.uri, 1, k), room |-> k, form |-> FALSE]],
             query |-> QueryOf(r.uri), post |-> post]
  BY DEF HandleRequest, UriEnd, QueryOf
<1>2. n \in 0..PostLen /\ n \in Nat /\ PostLen \in Nat /\ n <= PostLen
  <2>1. PostLen \in Nat
    BY LoginConstants
  <2>2. n \in Nat /\ n <= PostLen
    BY DEF Text
  <2> HIDE DEF n
  <2> QED BY <2>1, <2>2
<1>3. wire.head = HeadText(h, mark, n) /\ wire.body = body
  BY DEF Sent
<1>4. IsHead(h)
  BY HeadsAre
<1> HIDE DEF n, l
<1>5. ReadAs(r, m, Uri(q, mark), HeadersOf(l, Room(Len(l))))
  BY <1>2, <1>3, <1>4, HeadReads DEF l
<1>6. cl = One(Digits[n]) /\ clen = None
  <2>1. r.headers = HeadersOf(l, Room(Len(l)))
    BY <1>5 DEF ReadAs
  <2> QED BY <1>2, <1>4, <2>1, LengthReads DEF l
<1>7. size = n
  <2>1. Digits[n] \in Symbols
    BY <1>2, DigitsAre
  <2>2. One(Digits[n]) # None
    BY <2>1, OneTyped, HttpConstants
  <2> QED BY <1>2, <1>6, <2>2, NumberReads
<1>71. most = PostLen
  BY <1>6
<1> HIDE DEF cl, clen, most
<1>8. post = body
  <2>1. (IF size < most THEN size ELSE most) = n
    <3> HIDE DEF size
    <3> QED BY <1>2, <1>7, <1>71
  <2>2. post = SubSeq(body, 1, n)
    BY <1>3, <2>1
  <2>3. body \in Seq(Symbols) /\ n = Len(body)
    BY DEF n, Text
  <2> HIDE DEF post
  <2> QED BY <2>2, <2>3
<1> HIDE DEF post, size
<1>9. Understood(r) /\ r.method = One(m) /\ r.uri = Uri(q, mark)
  BY <1>5 DEF ReadAs, Understood, One
<1> HIDE DEF r, m
<1>10. k = 1 /\ SubSeq(r.uri, 1, k) = One("/login") /\ QueryOf(r.uri) = Query(q, mark)
  BY <1>9, UriSplits
<1> HIDE DEF k
<1>11. UrlDecode[[src |-> SubSeq(r.uri, 1, k), room |-> k, form |-> FALSE]] = <<"/login">>
  BY <1>10, UriDecoded
<1>12. ri' = [ok |-> TRUE, method |-> One(m), uri |-> <<"/login">>,
              query |-> Query(q, mark), post |-> body]
  BY <1>1, <1>8, <1>9, <1>10, <1>11
<1> QED BY <1>12 DEF Request, One, m

(***************************************************************************)
(* What is found in a form when a variable is added to it.                 *)
(***************************************************************************)
\* The value ends before the first "&".
Amp       == "&"
Ends(t, n) == /\ n \in 0..Len(t) /\ \A i \in 1..n : t[i] # Amp
              /\ n < Len(t) => t[n + 1] = Amp
Cut(t)    == SubSeq(t, 1, Span(t, ToSet(t) \ {"&"}))

\* The value up to the first "&" is known by its length.
LEMMA CutIs ==
  ASSUME NEW t \in Text, NEW n, Ends(t, n)
  PROVE  Cut(t) = SubSeq(t, 1, n)
<1> DEFINE D == ToSet(t) \ {Amp}
<1>1. \A i \in 1..Len(t) : t[i] \in D <=> t[i] # Amp
  <2> TAKE i \in 1..Len(t)
  <2>1. t[i] \in ToSet(t)
    BY DEF ToSet, Text
  <2> QED BY <2>1
<1>2. Cut(t) = SubSeq(t, 1, Span(t, D))
  BY DEF Cut, Amp
<1> HIDE DEF D
<1>3. n \in 0..Len(t) /\ Len(t) \in Nat
  BY DEF Ends, Text
<1>4. \A i \in 1..n : t[i] \in D
  <2> TAKE i \in 1..n
  <2>1. i \in 1..Len(t)
    BY <1>3
  <2> QED BY <1>1, <2>1 DEF Ends
<1>5. n < Len(t) => t[n + 1] \notin D
  <2> SUFFICES ASSUME n < Len(t) PROVE t[n + 1] \notin D
    OBVIOUS
  <2>1. n + 1 \in 1..Len(t)
    BY <1>3
  <2> QED BY <1>1, <2>1 DEF Ends
<1>6. Span(t, D) = n
  BY <1>3, <1>4, <1>5, SpanUnique DEF Text
<1> QED BY <1>2, <1>6

\* A value ends somewhere.
LEMMA CutTyped ==
  ASSUME NEW t \in Text
  PROVE  Cut(t) \in Text /\ Len(Cut(t)) <= Len(t) /\ \E n : Ends(t, n)
<1> DEFINE D == ToSet(t) \ {Amp}
           n == Span(t, D)
<1>1. n \in 0..Len(t) /\ (\A i \in 1..n : t[i] \in D) /\ (n < Len(t) => t[n + 1] \notin D)
  BY SpanIs DEF Text
<1>2. Cut(t) = SubSeq(t, 1, n)
  BY DEF Cut, Amp
<1>3. \A i \in 1..Len(t) : t[i] \in ToSet(t)
  BY DEF ToSet, Text
<1>4. \A i \in 1..Len(t) : t[i] \notin D => t[i] = Amp
  BY <1>3
<1>5. \A x \in D : x # Amp
  OBVIOUS
<1> HIDE DEF D, n
<1>6. SubSeq(t, 1, n) \in Text /\ Len(SubSeq(t, 1, n)) = n
  BY <1>1, UptoIs DEF Text
<1>7. Len(t) \in Nat
  BY DEF Text
<1>8. Ends(t, n)
  <2>1. ASSUME n < Len(t) PROVE t[n + 1] = Amp
    <3>1. n + 1 \in 1..Len(t)
      BY <1>1, <1>7, <2>1
    <3> QED BY <1>1, <1>4, <2>1, <3>1
  <2> QED BY <1>1, <1>5, <2>1 DEF Ends
<1> QED BY <1>1, <1>2, <1>6, <1>7, <1>8

\* Without an "&" the value is the whole text,
LEMMA CutAll ==
  ASSUME NEW t \in Text, Outside(t, {"&"})
  PROVE  Cut(t) = t
<1>1. Ends(t, Len(t))
  BY DEF Ends, Amp, Outside, Text
<1>2. SubSeq(t, 1, Len(t)) = t
  BY DEF Text
<1> QED BY <1>1, <1>2, CutIs

\* and with one, what is behind it makes no difference.
LEMMA CutSame ==
  ASSUME NEW t \in Text, NEW r \in Text, Amp \in Symbols
  PROVE  Cut(Cat(t, Cat(One(Amp), r))) = Cut(t)
<1> DEFINE s == Cat(One(Amp), r)
           u == Cat(t, s)
<1>1. s \in Text /\ s[1] = Amp /\ s # <<>>
  BY OneIs, CatTyped, CatStarts DEF Text
<1> HIDE DEF s
<1>2. /\ u \in Text /\ Len(u) = Len(t) + Len(s)
      /\ \A i \in 1..(Len(t) + Len(s)) : u[i] = IF i <= Len(t) THEN t[i] ELSE s[i - Len(t)]
  BY <1>1, ConcatProperties DEF Text, Cat
<1>3. Len(t) \in Nat /\ Len(s) \in Nat \ {0}
  BY <1>1, EmptySeq DEF Text
<1> HIDE DEF u
<1>4. PICK n : Ends(t, n)
  BY CutTyped
<1>5. n \in 0..Len(t)
  BY <1>4 DEF Ends
<1>6. Ends(u, n)
  <2>1. n \in 0..Len(u)
    BY <1>2, <1>3, <1>5
  <2>2. ASSUME NEW i \in 1..n PROVE u[i] # Amp
    <3>1. i \in 1..(Len(t) + Len(s)) /\ i <= Len(t)
      BY <1>3, <1>5
    <3> QED BY <1>2, <1>4, <3>1 DEF Ends
  <2>3. u[n + 1] = Amp
    <3>1. n + 1 \in 1..(Len(t) + Len(s))
      BY <1>3, <1>5
    <3>2. CASE n < Len(t)
      <4>1. n + 1 <= Len(t)
        BY <1>3, <1>5, <3>2
      <4> QED BY <1>2, <1>4, <3>1, <3>2, <4>1 DEF Ends
    <3>3. CASE ~ (n < Len(t))
      <4>1. n = Len(t) /\ ~ (n + 1 <= Len(t)) /\ (n + 1) - Len(t) = 1
        BY <1>3, <1>5, <3>3
      <4> QED BY <1>1, <1>2, <3>1, <4>1
    <3> QED BY <3>2, <3>3
  <2> QED BY <2>1, <2>2, <2>3 DEF Ends
<1>7. SubSeq(u, 1, n) = SubSeq(t, 1, n)
  <2> DEFINE a == SubSeq(u, 1, n)
             b == SubSeq(t, 1, n)
  <2>1. n \in 0..Len(u)
    BY <1>6 DEF Ends
  <2>2. a \in Text /\ Len(a) = n /\ \A j \in 1..n : a[j] = u[j]
    BY <1>2, <2>1, UptoIs DEF Text
  <2>3. b \in Text /\ Len(b) = n /\ \A j \in 1..n : b[j] = t[j]
    BY <1>5, UptoIs DEF Text
  <2> HIDE DEF a, b
  <2>4. \A j \in 1..n : u[j] = t[j]
    <3> TAKE j \in 1..n
    <3>1. j \in 1..(Len(t) + Len(s)) /\ j <= Len(t)
      BY <1>3, <1>5
    <3> QED BY <1>2, <3>1
  <2>5. a = b
    BY <2>2, <2>3, <2>4, SeqEqual DEF Text
  <2> QED BY <2>5 DEF a, b
<1>8. Cut(u) = Cut(t)
  BY <1>2, <1>4, <1>6, <1>7, CutIs
<1> QED BY <1>8 DEF u, s

\* The variable of a name of one word is at p.
At(buf, p, x) ==
  /\ p = 1 \/ buf[p - 1] = "&"
  /\ p + 1 <= Len(buf) /\ buf[p + 1] = "=" /\ LowerCase(buf[p]) = LowerCase(x)

\* mg_strncasecmp with a name of one word.
LEMMA SameWordOne ==
  ASSUME NEW S, NEW s \in Seq(S), NEW x
  PROVE  SameWord(s, <<x>>) <=> Len(s) = 1 /\ LowerCase(s[1]) = LowerCase(x)
<1> DEFINE f == [i \in DOMAIN s |-> LowerCase(s[i])]
           g == [i \in DOMAIN <<x>> |-> LowerCase(<<x>>[i])]
           a == LowerCase(x)
<1>1. DOMAIN s = 1..Len(s) /\ Len(s) \in Nat
  OBVIOUS
<1>2. g = [i \in 1..1 |-> a]
  OBVIOUS
<1>3. f = [i \in 1..Len(s) |-> LowerCase(s[i])]
  BY <1>1
<1>4. SameWord(s, <<x>>) <=> f = g
  BY DEF SameWord
<1> HIDE DEF f, g, a
<1>5. ASSUME f = g PROVE Len(s) = 1 /\ LowerCase(s[1]) = a
  <2>1. DOMAIN f = 1..Len(s) /\ DOMAIN g = 1..1
    BY <1>2, <1>3
  <2>2. 1..Len(s) = 1..1
    BY <1>5, <2>1
  <2>3. Len(s) = 1
    BY <1>1, <2>2
  <2> QED BY <1>2, <1>3, <1>5, <2>3
<1>6. ASSUME Len(s) = 1, LowerCase(s[1]) = a PROVE f = g
  <2>1. \A i \in 1..1 : i = 1
    OBVIOUS
  <2> QED BY <1>2, <1>3, <1>6, <2>1
<1> QED BY <1>4, <1>5, <1>6 DEF a

\* The first place.
LEMMA MinIs ==
  ASSUME NEW T \in SUBSET Nat, T # {}
  PROVE  Min(T) \in T /\ \A y \in T : Min(T) <= y
<1>1. \E x \in T : \A y \in T : x <= y
  BY LeastNat
<1>2. Min(T) = CHOOSE x \in T : \A y \in T : x <= y
  BY DEF Min
<1> QED BY <1>1, <1>2

\* What is written for the variable that begins at p.
WrittenAt(buf, p) == Cut(From(buf, p + 2))

\* mg_get_var finds the places of a name, and reads the value at one of them.
LEMMA FoundIs ==
  ASSUME NEW buf \in Text, NEW x
  PROVE  /\ Found(buf, <<x>>) = {p \in 1..Len(buf) : At(buf, p, x)}
         /\ Found(buf, <<x>>) # {} =>
              \E p \in Found(buf, <<x>>) : Written(buf, <<x>>) = WrittenAt(buf, p)
<1>1. DOMAIN buf = 1..Len(buf) /\ Len(buf) \in Nat
  BY DEF Text
<1>2. Len(<<x>>) = 1
  OBVIOUS
<1>3. ASSUME NEW p \in 1..Len(buf) PROVE Begins(buf, p, <<x>>) <=> At(buf, p, x)
  <2> DEFINE s == SubSeq(buf, p, p)
  <2>1. p + 1 - 1 = p
    OBVIOUS
  <2>2. s \in Seq(Symbols) /\ Len(s) = 1 /\ s[1] = buf[p]
    BY <1>1 DEF Text
  <2> HIDE DEF s
  <2>3. SameWord(s, <<x>>) <=> LowerCase(buf[p]) = LowerCase(x)
    BY <2>2, SameWordOne
  <2> QED BY <1>2, <2>1, <2>3 DEF Begins, At, s
<1> DEFINE F == Found(buf, <<x>>)
           m == Min(F)
<1>4. F = {p \in 1..Len(buf) : At(buf, p, x)}
  BY <1>1, <1>3 DEF Found
<1>5. Written(buf, <<x>>) = Cut(From(buf, (m + 1) + 1))
  BY <1>2 DEF Written, Cut
<1> HIDE DEF F
<1>6. ASSUME F # {} PROVE m \in F /\ Written(buf, <<x>>) = WrittenAt(buf, m)
  <2>1. F \in SUBSET Nat
    BY <1>1, <1>4
  <2>2. m \in F
    BY <1>6, <2>1, MinIs
  <2> HIDE DEF m
  <2>3. (m + 1) + 1 = m + 2
    BY <2>1, <2>2
  <2> QED BY <1>5, <2>2, <2>3 DEF WrittenAt
<1> QED BY <1>4, <1>6 DEF F

\* The sign behind a name.
Equals == "="

\* What ends a value is no letter, and not what ends a name.
LEMMA AmpIs ==
  Amp \in Symbols /\ Equals \in Symbols /\ Amp # Equals /\ LowerCase(Amp) = Amp
<1>1. Amp \notin DOMAIN Lower
  BY HttpConstants DEF Delimiters, Amp
<1> QED BY <1>1, SymbolsAre DEF Amp, Equals, LowerCase

\* Nothing in it ends a value.
NoAmp(w) == Outside(w, {"&"})

\* The symbols of u are those of s and then those of t.
Follows(u, s, t) ==
  /\ Len(u) = Len(s) + Len(t)
  /\ \A i \in 1..(Len(s) + Len(t)) : u[i] = IF i <= Len(s) THEN s[i] ELSE t[i - Len(s)]

\* The symbols of two texts one after the other.
LEMMA CatIs ==
  ASSUME NEW S, NEW s \in Seq(S), NEW t \in Seq(S)
  PROVE  Cat(s, t) \in Seq(S) /\ Follows(Cat(s, t), s, t)
BY ConcatProperties DEF Cat, Follows

\* The same place, without the characters themselves.
LEMMA AtIs ==
  ASSUME NEW buf, NEW p, NEW x
  PROVE  At(buf, p, x) <=> /\ p = 1 \/ buf[p - 1] = Amp
                           /\ p + 1 <= Len(buf) /\ buf[p + 1] = Equals
                           /\ LowerCase(buf[p]) = LowerCase(x)
BY DEF At, Amp, Equals

\* What is behind a place of the first or of the second of two texts.
LEMMA FromFirst ==
  ASSUME NEW S, NEW s \in Seq(S), NEW t \in Seq(S), NEW i \in 1..(Len(s) + 1)
  PROVE  From(Cat(s, t), i) = Cat(From(s, i), t)
<1> DEFINE a == SubSeq(s, 1, i - 1)
           b == From(s, i)
           k == i - 1
<1>1. k \in 0..Len(s) /\ k + 1 = i
  OBVIOUS
<1> HIDE DEF k
<1>2. SubSeq(s, 1, k) \in Seq(S) /\ Len(SubSeq(s, 1, k)) = k
      /\ \A j \in 1..k : SubSeq(s, 1, k)[j] = s[j]
  BY <1>1, UptoIs
<1>3. b \in Seq(S) /\ Len(b) = Len(s) - i + 1 /\ \A j \in 1..(Len(s) - i + 1) : b[j] = s[i + j - 1]
  BY FromIs
<1> DEFINE c == SubSeq(s, 1, k)
           u == c \o b
           n == Len(s)
<1>4. c \in Seq(S) /\ Len(c) = k /\ \A j \in 1..k : c[j] = s[j]
  BY <1>2
<1>41. n \in Nat /\ n = Len(s) /\ i \in 1..(n + 1) /\ k \in 0..n
  BY <1>1
<1> HIDE DEF b, c, n
<1>5. /\ u \in Seq(S) /\ Len(u) = Len(c) + Len(b)
      /\ \A j \in 1..(Len(c) + Len(b)) : u[j] = IF j <= Len(c) THEN c[j] ELSE b[j - Len(c)]
  BY <1>3, <1>4, ConcatProperties
<1> HIDE DEF u
<1>6. Len(u) = n
  <2>1. Len(b) = n - i + 1 /\ Len(c) = k /\ i = k + 1
    BY <1>1, <1>3, <1>4, <1>41
  <2>2. Len(u) = k + (n - (k + 1) + 1)
    BY <1>5, <2>1
  <2>3. k \in Nat /\ n \in Nat
    BY <1>41
  <2> QED BY <2>2, <2>3
<1>7. \A j \in 1..n : u[j] = s[j]
  <2> TAKE j \in 1..n
  <2>1. j \in 1..(Len(c) + Len(b))
    BY <1>5, <1>6
  <2>2. CASE j <= k
    <3>1. j \in 1..k
      BY <2>2, <1>41
    <3> QED BY <1>4, <1>5, <2>1, <2>2, <3>1
  <2>3. CASE ~ (j <= k)
    <3>1. j - k \in 1..(n - i + 1) /\ i + (j - k) - 1 = j
      BY <1>1, <1>41, <2>3
    <3>2. b[j - k] = s[j]
      BY <1>3, <1>41, <3>1
    <3> QED BY <1>4, <1>5, <2>1, <2>3, <3>2
  <2> QED BY <2>2, <2>3
<1>8. s = Cat(c, b)
  <2>1. u = s
    BY <1>5, <1>6, <1>7, <1>41, SeqEqual
  <2> QED BY <2>1 DEF u, Cat
<1>9. Cat(s, t) = Cat(c, Cat(b, t))
  BY <1>3, <1>4, <1>8, CatAssoc
<1>10. Cat(b, t) \in Seq(S)
  BY <1>3, CatTyped
<1>11. From(Cat(c, Cat(b, t)), Len(c) + 1) = Cat(b, t)
  BY <1>4, <1>10, CatParts
<1>12. Len(c) + 1 = i
  BY <1>1, <1>4
<1> QED BY <1>9, <1>11, <1>12 DEF b

\* and of the second.
LEMMA FromSecond ==
  ASSUME NEW S, NEW s \in Seq(S), NEW t \in Seq(S), NEW i \in 1..(Len(t) + 1)
  PROVE  From(Cat(s, t), Len(s) + i) = From(t, i)
<1> DEFINE u == s \o t
           m == Len(s)
           n == Len(t)
           a == From(u, m + i)
           b == From(t, i)
<1>1. /\ u \in Seq(S) /\ Len(u) = m + n
      /\ \A j \in 1..(m + n) : u[j] = IF j <= m THEN s[j] ELSE t[j - m]
  BY ConcatProperties
<1>2. m \in Nat /\ n \in Nat /\ i \in 1..(n + 1)
  OBVIOUS
<1>3. b \in Seq(S) /\ Len(b) = n - i + 1 /\ \A j \in 1..(n - i + 1) : b[j] = t[i + j - 1]
  BY FromIs
<1> HIDE DEF u, m, n
<1>4. m + i \in 1..(Len(u) + 1)
  BY <1>1, <1>2
<1>5. a \in Seq(S) /\ Len(a) = Len(u) - (m + i) + 1
      /\ \A j \in 1..(Len(u) - (m + i) + 1) : a[j] = u[(m + i) + j - 1]
  BY <1>1, <1>4, FromIs
<1> HIDE DEF a, b
<1>6. Len(a) = Len(b)
  BY <1>1, <1>2, <1>3, <1>5
<1>7. ASSUME NEW j \in 1..Len(a) PROVE a[j] = b[j]
  <2>1. j \in 1..(n - i + 1) /\ j \in 1..(Len(u) - (m + i) + 1)
    BY <1>3, <1>5, <1>6
  <2> DEFINE k == (m + i) + j - 1
  <2>2. k \in 1..(m + n) /\ ~ (k <= m) /\ k - m = i + j - 1
    BY <1>2, <2>1
  <2>3. a[j] = u[k]
    BY <1>5, <2>1
  <2> HIDE DEF k
  <2> QED BY <1>1, <1>3, <2>1, <2>2, <2>3
<1>8. a = b
  BY <1>3, <1>5, <1>6, <1>7, SeqEqual
<1> QED BY <1>8 DEF a, b, u, m, Cat

\* A variable as the client writes it, alone and behind others.
IsName(nm) == nm \in Text /\ nm # <<>> /\ Outside(nm, {"="}) /\ Outside(nm, {"&"})
FieldText(nm, w)  == Cat(nm, Cat(One(Equals), w))
Added(buf, nm, w) == IF buf = <<>> THEN FieldText(nm, w)
                     ELSE Cat(buf, Cat(One(Amp), FieldText(nm, w)))

\* A variable alone is found at its beginning only, if it has the name, and read as its
\* value.
LEMMA FieldIs ==
  ASSUME NEW nm, IsName(nm), NEW w \in Text, NoAmp(w), NEW x
  PROVE  /\ FieldText(nm, w) \in Text /\ Len(FieldText(nm, w)) >= 2
         /\ \A p \in 1..Len(FieldText(nm, w)) : At(FieldText(nm, w), p, x) => p = 1
         /\ At(FieldText(nm, w), 1, x) <=> SameWord(nm, <<x>>)
         /\ SameWord(nm, <<x>>) => WrittenAt(FieldText(nm, w), 1) = w
<1> DEFINE e == One(Equals)
           r == Cat(e, w)
           f == Cat(nm, r)
           n == Len(nm)
<1>1. nm \in Text /\ n \in Nat \ {0} /\ \A i \in 1..n : nm[i] # Equals /\ nm[i] # Amp
  BY EmptySeq DEF IsName, Text, Outside, Equals, Amp
<1>2. \A i \in 1..Len(w) : w[i] # Amp
  BY DEF Outside, Amp, NoAmp
<1>3. e \in Text /\ e # <<>> /\ Len(e) = 1 /\ e[1] = Equals
  BY AmpIs, OneIs DEF Text
<1>4. f = FieldText(nm, w)
  BY DEF FieldText
<1>5. Len(w) \in Nat
  BY DEF Text
<1> HIDE DEF e, n
<1>6. r \in Text /\ Len(r) = 1 + Len(w) /\ r[1] = Equals /\ From(r, 1 + 1) = w
  BY <1>3, CatTyped, CatParts, CatStarts DEF Text
<1>7. \A i \in 1..Len(r) : r[i] # Amp
  <2>2. \A i \in 1..(1 + Len(w)) : r[i] = IF i <= 1 THEN e[i] ELSE w[i - 1]
    <3>1. Follows(r, e, w)
      BY <1>3, CatIs DEF Text
    <3> HIDE DEF r
    <3> QED BY <1>3, <3>1 DEF Follows
  <2> HIDE DEF r
  <2> TAKE i \in 1..Len(r)
  <2>3. i \in 1..(1 + Len(w))
    BY <1>6
  <2>4. CASE i = 1
    BY <1>6, <2>4, AmpIs
  <2>5. CASE i # 1
    <3>1. ~ (i <= 1) /\ i - 1 \in 1..Len(w)
      BY <1>5, <2>3, <2>5
    <3> QED BY <1>2, <2>2, <2>3, <3>1
  <2> QED BY <2>4, <2>5
<1> HIDE DEF r
<1>8. /\ f \in Text /\ Len(f) = n + Len(r)
      /\ \A i \in 1..(n + Len(r)) : f[i] = IF i <= n THEN nm[i] ELSE r[i - n]
  <2>1. f \in Text /\ Follows(f, nm, r)
    BY <1>1, <1>6, CatIs DEF Text
  <2> HIDE DEF f
  <2> QED BY <2>1 DEF Follows, n
<1>81. f = Cat(nm, r)
  OBVIOUS
<1> HIDE DEF f
<1> DEFINE l == Len(f)
           k == Len(r)
<1>9. l \in Nat /\ l >= 2 /\ k \in Nat /\ k >= 1 /\ l = n + k
  BY <1>1, <1>5, <1>6, <1>8
<1>10. \A i \in 1..l : f[i] # Amp
  <2> TAKE i \in 1..l
  <2>1. CASE i <= n
    <3>1. i \in 1..n
      BY <1>1, <2>1
    <3> QED BY <1>1, <1>8, <2>1, <3>1
  <2>2. CASE ~ (i <= n)
    <3>1. i - n \in 1..k
      BY <1>1, <1>9, <2>2
    <3> QED BY <1>7, <1>8, <2>2, <3>1
  <2> QED BY <2>1, <2>2
<1>11. ASSUME NEW p \in 1..l, At(f, p, x) PROVE p = 1
  <2>1. p = 1 \/ f[p - 1] = Amp
    BY <1>11, AtIs
  <2>2. p # 1 => p - 1 \in 1..l
    BY <1>9
  <2> QED BY <1>10, <2>1, <2>2
<1>12. f[1] = nm[1] /\ f[2] = IF n = 1 THEN Equals ELSE nm[2]
  <2>1. 1 \in 1..(n + Len(r)) /\ 2 \in 1..(n + Len(r)) /\ 1 <= n
    BY <1>1, <1>9
  <2>2. f[1] = nm[1] /\ f[2] = IF 2 <= n THEN nm[2] ELSE r[2 - n]
    BY <1>8, <2>1
  <2>3. n = 1 => ~ (2 <= n) /\ 2 - n = 1
    OBVIOUS
  <2>4. n # 1 => 2 <= n
    BY <1>1
  <2> QED BY <1>6, <2>2, <2>3, <2>4
<1>13. n # 1 => nm[2] # Equals
  <2>1. n # 1 => 2 \in 1..n
    BY <1>1
  <2> QED BY <1>1, <2>1
<1>14. At(f, 1, x) <=> SameWord(nm, <<x>>)
  <2>1. SameWord(nm, <<x>>) <=> n = 1 /\ LowerCase(nm[1]) = LowerCase(x)
    BY <1>1, SameWordOne DEF n, Text
  <2>2. 1 + 1 = 2 /\ 2 <= l
    BY <1>9
  <2>3. At(f, 1, x) <=> f[2] = Equals /\ LowerCase(f[1]) = LowerCase(x)
    BY <2>2, AtIs
  <2> QED BY <1>12, <1>13, <2>1, <2>3
<1>15. ASSUME SameWord(nm, <<x>>) PROVE WrittenAt(f, 1) = w
  <2>1. n = 1
    BY <1>1, <1>15, SameWordOne DEF n, Text
  <2>2. 2 \in 1..(Len(r) + 1)
    BY <1>9
  <2>3. From(Cat(nm, r), Len(nm) + 2) = From(r, 2)
    BY <1>1, <1>6, <2>2, FromSecond DEF Text
  <2>4. From(f, 1 + 2) = w
    BY <1>6, <1>81, <2>1, <2>3 DEF n
  <2> QED BY <2>4, CutAll DEF WrittenAt, NoAmp
<1> QED BY <1>4, <1>8, <1>9, <1>11, <1>14, <1>15

\* The places where a variable of the name begins.
Hits(b, x) == {p \in 1..Len(b) : At(b, p, x)}

\* What is found in b, which is buf with a variable: what was there, and the variable.
Finds(b, buf, nm, w, x) ==
  /\ \A p \in Hits(b, x) : \/ p \in Hits(buf, x) /\ WrittenAt(b, p) = WrittenAt(buf, p)
                           \/ SameWord(nm, <<x>>) /\ WrittenAt(b, p) = w
  /\ Hits(buf, x) # {} => Hits(b, x) # {}
  /\ SameWord(nm, <<x>>) => Hits(b, x) # {}

\* No variable is found inside a name or a value, or across two of them.
LEMMA AddedFinds ==
  ASSUME NEW buf \in Text, NEW nm, IsName(nm), NEW w \in Text, NoAmp(w), NEW x, LowerCase(x) # Amp
  PROVE  Added(buf, nm, w) \in Text /\ Finds(Added(buf, nm, w), buf, nm, w, x)
<1> DEFINE f == FieldText(nm, w)
           s == SameWord(nm, <<x>>)
<1>1. /\ f \in Text /\ Len(f) >= 2
      /\ \A p \in 1..Len(f) : At(f, p, x) => p = 1
      /\ At(f, 1, x) <=> s
      /\ s => WrittenAt(f, 1) = w
  BY FieldIs DEF NoAmp
<1>2. Added(buf, nm, w) = IF buf = <<>> THEN f ELSE Cat(buf, Cat(One(Amp), f))
  BY DEF Added
<1> HIDE DEF f, s
<1>3. Len(f) \in Nat /\ 1 \in 1..Len(f)
  BY <1>1 DEF Text
<1>4. CASE buf = <<>>
  <2>1. \A p \in Hits(f, x) : s /\ WrittenAt(f, p) = w
    BY <1>1 DEF Hits
  <2>2. Hits(buf, x) = {}
    BY <1>4 DEF Hits
  <2>3. s => Hits(f, x) # {}
    BY <1>1, <1>3 DEF Hits
  <2> QED BY <1>1, <1>2, <1>4, <2>1, <2>2, <2>3 DEF Finds, s
<1>5. CASE buf # <<>>
  <2> DEFINE a == One(Amp)
             y == Cat(a, f)
             b == Cat(buf, y)
             l == Len(buf)
             k == Len(f)
  <2>0. l \in Nat /\ k \in Nat /\ k >= 2
    BY <1>1 DEF Text
  <2>1. a \in Text /\ Len(a) = 1 /\ a[1] = Amp
    BY AmpIs, OneIs DEF Text
  <2> HIDE DEF a
  <2>2. y \in Text /\ Follows(y, a, f)
    BY <1>1, <2>1, CatIs DEF Text
  <2>21. y = Cat(a, f)
    OBVIOUS
  <2> HIDE DEF y
  <2>3. b \in Text /\ Follows(b, buf, y)
    BY <2>2, CatIs DEF Text
  <2>31. b = Cat(buf, y)
    OBVIOUS
  <2> HIDE DEF b
  <2>4. Len(y) = 1 + k /\ y[1] = Amp /\ \A j \in 1..k : y[j + 1] = f[j]
    <3>1. Len(y) = 1 + k /\ \A i \in 1..(1 + k) : y[i] = IF i <= 1 THEN a[i] ELSE f[i - 1]
      BY <2>1, <2>2 DEF Follows
    <3>2. \A j \in 1..k : j + 1 \in 1..(1 + k) /\ ~ (j + 1 <= 1) /\ (j + 1) - 1 = j
      BY <2>0
    <3>3. 1 \in 1..(1 + k)
      BY <2>0
    <3> QED BY <2>1, <3>1, <3>2, <3>3
  <2>5. /\ Len(b) = l + (1 + k) /\ \A i \in 1..l : b[i] = buf[i]
        /\ b[l + 1] = Amp /\ \A j \in 1..k : b[(l + 1) + j] = f[j]
    <3>1. /\ Len(b) = l + (1 + k)
          /\ \A i \in 1..(l + (1 + k)) : b[i] = IF i <= l THEN buf[i] ELSE y[i - l]
      BY <2>3, <2>4 DEF Follows
    <3>2. \A i \in 1..l : i \in 1..(l + (1 + k)) /\ i <= l
      BY <2>0
    <3>3. l + 1 \in 1..(l + (1 + k)) /\ ~ (l + 1 <= l) /\ (l + 1) - l = 1
      BY <2>0
    <3>4. \A j \in 1..k : /\ (l + 1) + j \in 1..(l + (1 + k)) /\ ~ ((l + 1) + j <= l)
                          /\ ((l + 1) + j) - l = j + 1
      BY <2>0
    <3> QED BY <2>4, <3>1, <3>2, <3>3, <3>4
  <2>6. ASSUME NEW p \in 1..l PROVE At(b, p, x) <=> At(buf, p, x)
    <3>1. b[p] = buf[p] /\ (p = 1 \/ b[p - 1] = Amp <=> p = 1 \/ buf[p - 1] = Amp)
      <4>1. p # 1 => p - 1 \in 1..l
        BY <2>0
      <4> QED BY <2>5, <4>1
    <3>2. CASE p = l
      <4>1. ~ (p + 1 <= Len(buf))
        BY <2>0, <3>2 DEF l
      <4>2. b[p + 1] # Equals
        BY <2>5, <3>2, AmpIs
      <4> QED BY <4>1, <4>2, AtIs
    <3>3. CASE p # l
      <4>1. p + 1 \in 1..l /\ p + 1 <= Len(buf) /\ p + 1 <= l + (1 + k)
        BY <2>0, <3>3 DEF l
      <4>2. b[p + 1] = buf[p + 1] /\ p + 1 <= Len(b)
        BY <2>5, <4>1
      <4> QED BY <3>1, <4>1, <4>2, AtIs
    <3> QED BY <3>2, <3>3
  <2>7. ~ At(b, l + 1, x)
    BY <2>5, AtIs, AmpIs
  <2>8. ASSUME NEW j \in 1..k PROVE At(b, (l + 1) + j, x) <=> At(f, j, x)
    <3> DEFINE p == (l + 1) + j
    <3>1. p # 1 /\ p - 1 = l + j /\ p + 1 = (l + 1) + (j + 1) /\ p \in Nat
      BY <2>0
    <3>2. b[p] = f[j]
      BY <2>5
    <3>3. j # 1 => j - 1 \in 1..k /\ l + j = (l + 1) + (j - 1)
      BY <2>0
    <3>4. (p = 1 \/ b[p - 1] = Amp) <=> (j = 1 \/ f[j - 1] = Amp)
      BY <2>5, <3>1, <3>3
    <3>5. p + 1 <= Len(b) <=> j + 1 <= Len(f)
      BY <2>0, <2>5 DEF k
    <3>6. j + 1 <= Len(f) => b[p + 1] = f[j + 1]
      <4>1. j + 1 <= Len(f) => j + 1 \in 1..k
        BY <2>0 DEF k
      <4> QED BY <2>5, <3>1, <4>1
    <3> HIDE DEF p
    <3>7. At(b, p, x) <=> At(f, j, x)
      BY <3>2, <3>4, <3>5, <3>6, AtIs
    <3> QED BY <3>7 DEF p
  <2>9. ASSUME NEW p \in Hits(b, x)
        PROVE  p \in Hits(buf, x) \/ (p = (l + 1) + 1 /\ s)
    <3>1. p \in 1..(l + (1 + k)) /\ At(b, p, x)
      BY <2>5 DEF Hits
    <3>2. CASE p <= l
      <4>1. p \in 1..l
        BY <2>0, <3>1, <3>2
      <4>2. p \in 1..Len(buf)
        BY <4>1 DEF l
      <4> QED BY <2>6, <3>1, <4>1, <4>2 DEF Hits
    <3>3. CASE p = l + 1
      BY <2>7, <3>1, <3>3
    <3>4. CASE ~ (p <= l) /\ p # l + 1
      <4> DEFINE j == p - (l + 1)
      <4>1. j \in 1..k /\ p = (l + 1) + j
        BY <2>0, <3>1, <3>4
      <4> HIDE DEF j
      <4>2. At(f, j, x)
        BY <2>8, <3>1, <4>1
      <4>3. j \in 1..Len(f)
        BY <4>1 DEF k
      <4>4. j = 1
        BY <1>1, <4>2, <4>3
      <4> QED BY <1>1, <4>1, <4>2, <4>4
    <3> QED BY <3>2, <3>3, <3>4
  <2>10. ASSUME NEW p \in Hits(buf, x)
         PROVE  p \in Hits(b, x) /\ WrittenAt(b, p) = WrittenAt(buf, p)
    <3>1. p \in 1..l /\ At(buf, p, x)
      BY DEF Hits, l
    <3>2. p + 1 <= Len(buf)
      BY <3>1, AtIs
    <3>3. p + 2 \in 1..(Len(buf) + 1) /\ p \in 1..Len(b)
      BY <2>0, <2>5, <3>1, <3>2 DEF l
    <3> DEFINE t == From(buf, p + 2)
    <3>4. t \in Text
      BY <3>3, FromIs DEF Text
    <3>5. From(Cat(buf, y), p + 2) = Cat(t, y)
      BY <2>2, <3>3, FromFirst DEF Text
    <3> HIDE DEF t
    <3>6. From(b, p + 2) = Cat(t, Cat(One(Amp), f))
      BY <2>21, <2>31, <3>5 DEF a
    <3>7. Cut(Cat(t, Cat(One(Amp), f))) = Cut(t)
      BY <1>1, <3>4, AmpIs, CutSame
    <3>8. WrittenAt(b, p) = WrittenAt(buf, p)
      BY <3>6, <3>7 DEF WrittenAt, t
    <3> QED BY <2>6, <3>1, <3>3, <3>8 DEF Hits
  <2>11. ASSUME s PROVE (l + 1) + 1 \in Hits(b, x) /\ WrittenAt(b, (l + 1) + 1) = w
    <3>1. At(b, (l + 1) + 1, x)
      <4>1. 1 \in 1..k
        BY <2>0
      <4> QED BY <1>1, <2>8, <2>11, <4>1
    <3>2. (l + 1) + 1 \in 1..Len(b)
      BY <2>0, <2>5
    <3> DEFINE c == Cat(buf, a)
    <3>3. c \in Text /\ Len(c) = l + 1 /\ b = Cat(c, f)
      <4>1. Cat(Cat(buf, a), f) = Cat(buf, Cat(a, f))
        BY <1>1, <2>1, CatAssoc DEF Text
      <4>2. c \in Text /\ Len(c) = Len(buf) + Len(a)
        BY <2>1, CatTyped, CatParts DEF Text
      <4> QED BY <2>1, <2>21, <2>31, <4>1, <4>2 DEF l
    <3> HIDE DEF c
    <3>4. 3 \in 1..(Len(f) + 1)
      BY <2>0 DEF k
    <3>5. From(Cat(c, f), Len(c) + 3) = From(f, 3)
      BY <1>1, <3>3, <3>4, FromSecond DEF Text
    <3>6. ((l + 1) + 1) + 2 = (l + 1) + 3 /\ 1 + 2 = 3
      BY <2>0
    <3>7. From(b, ((l + 1) + 1) + 2) = From(f, 1 + 2)
      BY <3>3, <3>5, <3>6
    <3> QED BY <1>1, <2>11, <3>1, <3>2, <3>7 DEF WrittenAt, Hits
  <2>12. Finds(b, buf, nm, w, x)
    BY <2>9, <2>10, <2>11 DEF Finds, s
  <2>13. Added(buf, nm, w) = b
    BY <1>2, <1>5, <2>21, <2>31 DEF a
  <2> QED BY <2>3, <2>12, <2>13
<1> QED BY <1>4, <1>5

(***************************************************************************)
(* The variables a form has, and what the server finds in it.              *)
(***************************************************************************)
\* The variables of a name in a place, among those the client wrote.
Named(fs, pl, x) == {i \in DOMAIN fs : fs[i].place = pl /\ SameWord(fs[i].name, <<x>>)}

\* There is at most one; the server finds it if and only if it is there, and reads its value.
Holds(fs, buf, pl, x) ==
  /\ \A i, j \in Named(fs, pl, x) : i = j
  /\ \A p \in Hits(buf, x) : \E i \in Named(fs, pl, x) : Decodes(WrittenAt(buf, p), fs[i].value)
  /\ Named(fs, pl, x) # {} => Hits(buf, x) # {}

\* A variable the client may write.
IsField(f) == IsName(f.name) /\ f.value \in Text

\* No variable of the place has the name.
NewName(fs, pl, nm) == \A i \in DOMAIN fs : ~ (fs[i].place = pl /\ SameWord(fs[i].name, nm))

\* One more element.
LEMMA AppendIs ==
  ASSUME NEW S, NEW fs \in Seq(S), NEW f \in S
  PROVE  /\ Append(fs, f) \in Seq(S) /\ DOMAIN Append(fs, f) = (DOMAIN fs) \cup {Len(fs) + 1}
         /\ Append(fs, f)[Len(fs) + 1] = f /\ \A i \in DOMAIN fs : Append(fs, f)[i] = fs[i]
<1> DEFINE n == Len(fs)
           g == Append(fs, f)
<1>1. /\ g \in Seq(S) /\ Len(g) = n + 1 /\ (\A i \in 1..n : g[i] = fs[i]) /\ g[n + 1] = f
  BY AppendProperties
<1>2. DOMAIN fs = 1..n /\ n \in Nat
  OBVIOUS
<1> HIDE DEF g
<1>3. DOMAIN g = 1..Len(g)
  BY <1>1
<1> HIDE DEF n
<1>4. 1..(n + 1) = (1..n) \cup {n + 1}
  BY <1>2
<1> QED BY <1>1, <1>2, <1>3, <1>4 DEF g, n

\* A variable is added to those the client wrote.
Joining(g, fs, f, n, pl, x) ==
  /\ f.place = pl /\ SameWord(f.name, <<x>>) => Named(g, pl, x) = Named(fs, pl, x) \cup {n}
  /\ ~ (f.place = pl /\ SameWord(f.name, <<x>>)) => Named(g, pl, x) = Named(fs, pl, x)
  /\ \A i \in Named(fs, pl, x) : g[i] = fs[i]
  /\ g[n] = f

\* The variables of a name after one is added.
LEMMA NamedAdds ==
  ASSUME NEW S, NEW fs \in Seq(S), NEW f \in S, NEW pl, NEW x
  PROVE  Joining(Append(fs, f), fs, f, Len(fs) + 1, pl, x)
<1> DEFINE g == Append(fs, f)
           n == Len(fs) + 1
<1>1. /\ DOMAIN g = (DOMAIN fs) \cup {n} /\ g[n] = f /\ \A i \in DOMAIN fs : g[i] = fs[i]
  BY AppendIs
<1>2. n \notin DOMAIN fs
  BY AppendProperties
<1> HIDE DEF g, n
<1>3. ASSUME f.place = pl, SameWord(f.name, <<x>>)
      PROVE  Named(g, pl, x) = Named(fs, pl, x) \cup {n}
  BY <1>1, <1>2, <1>3 DEF Named
<1>4. ASSUME ~ (f.place = pl /\ SameWord(f.name, <<x>>))
      PROVE  Named(g, pl, x) = Named(fs, pl, x)
  BY <1>1, <1>2, <1>4 DEF Named
<1>5. \A i \in Named(fs, pl, x) : g[i] = fs[i]
  BY <1>1 DEF Named
<1>6. Joining(g, fs, f, n, pl, x)
  BY <1>1, <1>3, <1>4, <1>5 DEF Joining
<1> QED BY <1>6 DEF g, n

\* The form the variable is added to,
LEMMA HoldsAdds ==
  ASSUME NEW S, NEW fs \in Seq(S), NEW f \in S, IsField(f), NEW buf \in Text, NEW w, Decodes(w, f.value),
         NEW x, LowerCase(x) # Amp, NewName(fs, f.place, f.name), Holds(fs, buf, f.place, x)
  PROVE  Holds(Append(fs, f), Added(buf, f.name, w), f.place, x)
<1> DEFINE g == Append(fs, f)
           pl == f.place
           nm == f.name
           b == Added(buf, nm, w)
           n == Len(fs) + 1
           s == SameWord(nm, <<x>>)
<1>1. /\ s => Named(g, pl, x) = Named(fs, pl, x) \cup {n}
      /\ ~ s => Named(g, pl, x) = Named(fs, pl, x)
      /\ \A i \in Named(fs, pl, x) : g[i] = fs[i]
      /\ g[n] = f
  <2>1. Joining(g, fs, f, n, pl, x)
    BY NamedAdds
  <2> HIDE DEF g, n, pl
  <2>2. f.place = pl
    BY DEF pl
  <2> QED BY <2>1, <2>2 DEF Joining
<1>2. Finds(b, buf, nm, w, x)
  <2>1. IsName(nm) /\ w \in Text /\ NoAmp(w)
    BY DEF IsField, Decodes, Kept, NoAmp
  <2> QED BY <2>1, AddedFinds
<1>3. s => Named(fs, pl, x) = {}
  <2> SUFFICES ASSUME s, NEW i \in Named(fs, pl, x) PROVE FALSE
    OBVIOUS
  <2>1. SameWord(fs[i].name, nm)
    BY DEF Named, SameWord
  <2> QED BY <2>1 DEF Named, NewName
<1>4. Decodes(w, f.value)
  OBVIOUS
<1> HIDE DEF g, b, n, s
<1>5. \A i, j \in Named(g, pl, x) : i = j
  BY <1>1, <1>3 DEF Holds
<1>6. ASSUME NEW p \in Hits(b, x) PROVE \E i \in Named(g, pl, x) : Decodes(WrittenAt(b, p), g[i].value)
  <2>1. CASE p \in Hits(buf, x) /\ WrittenAt(b, p) = WrittenAt(buf, p)
    <3>1. PICK i \in Named(fs, pl, x) : Decodes(WrittenAt(buf, p), fs[i].value)
      BY <2>1 DEF Holds
    <3>2. i \in Named(g, pl, x) /\ g[i] = fs[i]
      BY <1>1
    <3> QED BY <2>1, <3>1, <3>2
  <2>2. CASE s /\ WrittenAt(b, p) = w
    <3>1. n \in Named(g, pl, x) /\ g[n] = f
      BY <1>1, <2>2
    <3> QED BY <1>4, <2>2, <3>1
  <2> QED BY <1>2, <2>1, <2>2 DEF Finds, s
<1>7. Named(g, pl, x) # {} => Hits(b, x) # {}
  BY <1>1, <1>2 DEF Holds, Finds, s
<1>8. Holds(g, b, pl, x)
  BY <1>5, <1>6, <1>7 DEF Holds
<1> QED BY <1>8 DEF g, b

\* and the other one.
LEMMA HoldsKeeps ==
  ASSUME NEW S, NEW fs \in Seq(S), NEW f \in S, NEW pl, f.place # pl, NEW buf, NEW x,
         Holds(fs, buf, pl, x)
  PROVE  Holds(Append(fs, f), buf, pl, x)
<1> DEFINE g == Append(fs, f)
<1>1. Named(g, pl, x) = Named(fs, pl, x) /\ \A i \in Named(fs, pl, x) : g[i] = fs[i]
  <2>1. Joining(g, fs, f, Len(fs) + 1, pl, x)
    BY NamedAdds
  <2> HIDE DEF g
  <2> QED BY <2>1 DEF Joining
<1> HIDE DEF g
<1>2. Holds(g, buf, pl, x)
  BY <1>1 DEF Holds
<1> QED BY <1>2 DEF g

\* What the client said in a place.
Said(fs, pl, x) == IF Named(fs, pl, x) = {} THEN None
                   ELSE fs[CHOOSE i \in Named(fs, pl, x) : TRUE].value

\* mg_get_var reads what the client said, if its block is as long as the form.
LEMMA ReadsSaid ==
  ASSUME NEW fs, NEW buf \in Text, NEW pl, NEW x, Holds(fs, buf, pl, x), NEW size \in Nat,
         size >= Len(buf), size >= 1
  PROVE  MgGetVar(buf, <<x>>, size) = Said(fs, pl, x)
<1> DEFINE F == Found(buf, <<x>>)
           w == Written(buf, <<x>>)
           l == Len(buf)
<1>1. F = Hits(buf, x) /\ (F # {} => \E p \in F : w = WrittenAt(buf, p))
  BY FoundIs DEF Hits
<1>2. MgGetVar(buf, <<x>>, size) =
        IF F = {} \/ Len(w) >= size THEN None
        ELSE UrlDecode[[src |-> w, room |-> size - 1, form |-> TRUE]]
  BY DEF MgGetVar
<1>21. l \in Nat /\ size >= l
  BY DEF Text
<1> HIDE DEF F, w
<1>3. CASE F = {}
  <2>1. Named(fs, pl, x) = {}
    BY <1>1, <1>3 DEF Holds
  <2> QED BY <1>2, <1>3, <2>1 DEF Said
<1>4. CASE F # {}
  <2>1. PICK p \in F : w = WrittenAt(buf, p)
    BY <1>1, <1>4
  <2>2. PICK i \in Named(fs, pl, x) : Decodes(w, fs[i].value)
    BY <1>1, <2>1 DEF Holds
  <2>3. Said(fs, pl, x) = fs[i].value
    BY <2>2 DEF Holds, Said
  <2>4. p \in 1..l /\ p + 1 <= l
    BY <1>1 DEF Hits, At
  <2>5. p + 2 \in 1..(l + 1)
    BY <1>21, <2>4
  <2>6. From(buf, p + 2) \in Text /\ Len(From(buf, p + 2)) = l - (p + 2) + 1
    BY <2>5, FromIs DEF Text
  <2>7. w \in Text /\ Len(w) <= l - (p + 2) + 1
    BY <2>1, <2>6, CutTyped DEF WrittenAt
  <2> HIDE DEF l
  <2>8. Len(w) < size /\ size - 1 \in Nat /\ size - 1 >= Len(w)
    <3>1. Len(w) \in Nat
      BY <2>7 DEF Text
    <3> QED BY <1>21, <2>4, <2>7, <3>1
  <2> DEFINE r == size - 1
  <2>9. r \in Nat /\ r >= Len(w)
    BY <2>8
  <2>10. MgGetVar(buf, <<x>>, size) = UrlDecode[ToDecode(w, r)]
    <3>1. ~ (Len(w) >= size)
      <4>1. Len(w) \in Nat
        BY <2>7 DEF Text
      <4> QED BY <2>8, <4>1
    <3> QED BY <1>2, <1>4, <3>1 DEF ToDecode
  <2> HIDE DEF r
  <2> QED BY <2>2, <2>3, <2>9, <2>10 DEF Decodes
<1> QED BY <1>3, <1>4

\* The names the handler of /login asks for.
Asked == {"user", "pass"}

\* The names the handler asks for are no "&",
LEMMA WordsAre == \A x \in Asked : LowerCase(x) # Amp
<1> SUFFICES ASSUME NEW x \in Asked PROVE LowerCase(x) # Amp
  OBVIOUS
<1>1. x # Amp
  BY DEF Asked, Amp
<1>2. x \in DOMAIN Lower => Lower[x] # Amp
  BY HttpConstants DEF Delimiters, Amp
<1> QED BY <1>1, <1>2 DEF LowerCase

\* The values the client wrote are texts.
FieldSet  == [place : Places, name : {n \in Text : IsName(n)}, value : Text]
Typed(fs) == fs \in Seq(FieldSet)

\* Each value is a text.
LEMMA ValueTyped ==
  ASSUME NEW fs, Typed(fs)
  PROVE  (\A i \in DOMAIN fs : fs[i].value \in Text) /\ DOMAIN fs \in SUBSET Nat
<1> DEFINE S == FieldSet
<1>1. fs \in Seq(S) /\ \A f \in S : IsField(f)
  BY DEF Typed, FieldSet, IsField
<1> HIDE DEF S
<1>2. \A i \in DOMAIN fs : fs[i] \in S
  BY <1>1
<1>3. DOMAIN fs = 1..Len(fs) /\ Len(fs) \in Nat
  BY <1>1
<1> QED BY <1>1, <1>2, <1>3 DEF IsField

\* A value get_var takes.
Is(v) == v # None /\ v # <<>>

\* No text is NULL.
LEMMA NoneIs == None \notin Text
BY HttpConstants DEF Text

\* What the client said, if it is not empty, is what it means in that place.
LEMMA FilledIs ==
  ASSUME NEW pl, NEW x, NEW buf, Holds(fields, buf, pl, x), Typed(fields)
  PROVE  /\ Filled(pl, x) # {} <=> Is(Said(fields, pl, x))
         /\ Filled(pl, x) # {} => fields[Min(Filled(pl, x))].value = Said(fields, pl, x)
         /\ Said(fields, pl, x) # None => Said(fields, pl, x) \in Text
<1> DEFINE N == Named(fields, pl, x)
           F == Filled(pl, x)
           c == CHOOSE i \in N : TRUE
<1>1. \A i, j \in N : i = j
  BY DEF Holds
<1>2. F = {i \in N : fields[i].value # <<>>}
  BY DEF Filled, Named
<1>3. Said(fields, pl, x) = IF N = {} THEN None ELSE fields[c].value
  BY DEF Said
<1>4. N \subseteq DOMAIN fields
  BY DEF Named
<1>5. (\A i \in N : fields[i].value \in Text) /\ N \in SUBSET Nat
  BY <1>4, ValueTyped
<1> HIDE DEF N, F
<1>6. N # {} => c \in N
  OBVIOUS
<1> HIDE DEF c
<1>7. F # {} => Min(F) \in F
  <2>1. F \in SUBSET Nat
    BY <1>2, <1>5
  <2> QED BY <2>1, MinIs
<1>8. F # {} => Min(F) = c /\ c \in N /\ fields[c].value # <<>>
  BY <1>1, <1>2, <1>6, <1>7
<1>9. N # {} => fields[c].value # None
  BY <1>5, <1>6, NoneIs
<1>10. F # {} <=> Is(Said(fields, pl, x))
  BY <1>2, <1>3, <1>6, <1>8, <1>9 DEF Is
<1> QED BY <1>3, <1>5, <1>6, <1>8, <1>10 DEF F

\* The variable get_var finds is the one the client filled in.
LEMMA GetVarIs ==
  ASSUME NEW q \in Text, NEW b \in Text, NEW x, Typed(fields), NEW mark \in BOOLEAN,
         ~ mark => q = <<>>,
         Holds(fields, q, "query", x), Holds(fields, b, "body", x)
  PROVE  GetVar(Query(q, mark), b, <<x>>) = Filling(x) /\ (Filling(x) # None => Filling(x) \in Text)
<1> DEFINE pq == "query"
           pb == "body"
           size == RetSize(Query(q, mark), b)
           sq == Said(fields, pq, x)
           sb == Said(fields, pb, x)
           get == IF Query(q, mark) = None THEN None ELSE MgGetVar(Query(q, mark), <<x>>, size)
           post == IF b = <<>> THEN None ELSE MgGetVar(b, <<x>>, size)
           m == Len(q)
           n == Len(b)
<1>0. Holds(fields, q, pq, x) /\ Holds(fields, b, pb, x)
  OBVIOUS
<1>1. Filling(x) = IF Filled(pq, x) # {} THEN fields[Min(Filled(pq, x))].value
                 ELSE IF Filled(pb, x) # {} THEN fields[Min(Filled(pb, x))].value ELSE None
  BY DEF Filling
<1>2. GetVar(Query(q, mark), b, <<x>>) = IF Is(get) THEN get ELSE IF Is(post) THEN post ELSE None
  BY DEF GetVar, Is
<1>3. Query(q, mark) = (IF mark THEN q ELSE None) /\ (~ mark => q = <<>>)
  BY DEF Query
<1>4. m \in Nat /\ n \in Nat /\ (q # <<>> => m >= 1) /\ (b # <<>> => n >= 1) /\ (q = <<>> => m = 0)
  BY EmptySeq DEF Text
<1>5. size = m + n
  <2>1. q # None
    BY NoneIs
  <2>2. size = (IF Query(q, mark) = None THEN 0 ELSE Len(Query(q, mark))) + n
    BY DEF RetSize
  <2> HIDE DEF m, n, size
  <2>3. CASE ~ mark
    BY <1>3, <1>4, <2>2, <2>3
  <2>4. CASE mark
    <3>1. Query(q, mark) = q /\ Query(q, mark) # None
      BY <1>3, <2>1, <2>4
    <3> QED BY <1>4, <2>2, <3>1 DEF m
  <2> QED BY <2>3, <2>4
<1>50. ASSUME NEW pl, Holds(fields, <<>>, pl, x) PROVE Said(fields, pl, x) = None
  <2>1. Hits(<<>>, x) = {}
    BY DEF Hits
  <2>2. Named(fields, pl, x) = {}
    BY <1>50, <2>1 DEF Holds
  <2> QED BY <2>2 DEF Said
<1> HIDE DEF size, sq, sb, m, n, pq, pb
<1>6. get = sq
  <2>1. CASE q = <<>>
    <3>1. Said(fields, pq, x) = None
      BY <1>0, <1>50, <2>1
    <3>2. Found(q, <<x>>) = {}
      <4>1. Found(q, <<x>>) \subseteq 1..Len(q)
        BY FoundIs
      <4>2. Len(q) = 0
        BY <1>4, <2>1 DEF m
      <4> QED BY <4>1, <4>2
    <3>3. MgGetVar(q, <<x>>, size) = None
      BY <3>2 DEF MgGetVar
    <3> QED BY <1>3, <3>1, <3>3 DEF sq
  <2>2. CASE q # <<>>
    <3>1. Query(q, mark) = q /\ q # None
      BY <1>3, <2>2, NoneIs
    <3>2. size \in Nat /\ size >= m /\ size >= 1
      BY <1>4, <1>5, <2>2
    <3>3. MgGetVar(q, <<x>>, size) = Said(fields, pq, x)
      <4>1. size >= Len(q)
        BY <3>2 DEF m
      <4> QED BY <1>0, <3>2, <4>1, ReadsSaid
    <3> QED BY <3>1, <3>3 DEF sq
  <2> QED BY <2>1, <2>2
<1>7. post = sb
  <2>1. CASE b = <<>>
    <3>1. Said(fields, pb, x) = None
      BY <1>0, <1>50, <2>1
    <3> QED BY <2>1, <3>1 DEF sb
  <2>2. CASE b # <<>>
    <3>2. size \in Nat /\ size >= n /\ size >= 1
      BY <1>4, <1>5, <2>2
    <3>3. MgGetVar(b, <<x>>, size) = Said(fields, pb, x)
      <4>1. size >= Len(b)
        BY <3>2 DEF n
      <4> QED BY <1>0, <3>2, <4>1, ReadsSaid
    <3> QED BY <2>2, <3>3 DEF sb
  <2> QED BY <2>1, <2>2
<1>8. /\ Filled(pq, x) # {} <=> Is(sq)
      /\ Filled(pq, x) # {} => fields[Min(Filled(pq, x))].value = sq
      /\ sq # None => sq \in Text
  BY <1>0, FilledIs DEF sq
<1>9. /\ Filled(pb, x) # {} <=> Is(sb)
      /\ Filled(pb, x) # {} => fields[Min(Filled(pb, x))].value = sb
      /\ sb # None => sb \in Text
  BY <1>0, FilledIs DEF sb
<1> HIDE DEF get, post
<1>10. GetVar(Query(q, mark), b, <<x>>) = Filling(x)
  BY <1>1, <1>2, <1>6, <1>7, <1>8, <1>9
<1>11. Filling(x) # None => Filling(x) \in Text
  BY <1>1, <1>8, <1>9
<1> QED BY <1>10, <1>11

\* A C string is the text up to its first NUL.
LEMMA CStringTyped ==
  ASSUME NEW v, v # None => v \in Text
  PROVE  CString(v) # None => CString(v) \in Text
<1> SUFFICES ASSUME v # None PROVE CString(v) \in Text
  BY DEF CString
<1> DEFINE D == ToSet(v) \ {"nul"}
           n == Span(v, D)
<1>1. v \in Text
  OBVIOUS
<1>2. CString(v) = SubSeq(v, 1, n)
  BY DEF CString
<1> HIDE DEF D
<1>3. n \in 0..Len(v)
  BY <1>1, SpanIs DEF Text
<1> HIDE DEF n
<1> QED BY <1>1, <1>2, <1>3, UptoIs DEF Text

(***************************************************************************)
(* The inductive invariant.                                                *)
(***************************************************************************)
\* The form of a place has no space, and holds what the client said there.
FormOk(fs, pl, buf) ==
  buf \in Text /\ NoSpace(buf) /\ \A x \in Asked : Holds(fs, buf, pl, x)

\* So do both.
FormInv ==
  /\ Typed(fields) /\ DOMAIN form = Places
  /\ \A pl \in Places : FormOk(fields, pl, form[pl])

\* What login answers.
Answered(method) ==
  LET var(n) == CString(GetVar(ri.query, ri.post, <<n>>))
  IN IF method # "POST" THEN answer = 400 /\ got = None
     ELSE /\ got = [user |-> var("user"), pass |-> var("pass")]
          /\ answer = IF got.user # None /\ got.pass # None /\ UserChecks(got.user, got.pass)
                      THEN 200 ELSE 400

\* What was sent has the body in it, the request has what was sent, and the answer is the one
\* the request asks for.
WireInv ==
  /\ wire # None =>
       \E h \in Heads, mark \in BOOLEAN :
          /\ Len(form["body"]) <= PostLen /\ (~ mark => form["query"] = <<>>)
          /\ wire = Sent(h, mark, form["body"])
          /\ ri # None => ri = Request(h, mark, form["query"], form["body"])
          /\ answer # None => Answered(h.method)
  /\ ri # None => wire # None
  /\ answer # None => ri # None

\* The inductive invariant.
IInv == FormInv /\ WireInv

\* There are two forms.
LEMMA PlacesAre == "query" \in Places /\ "body" \in Places
BY LoginConstants

\* Empty forms hold no variable.
LEMMA EmptyForms ==
  ASSUME NEW fs, fs = <<>>, NEW f, f = [p \in Places |-> <<>>]
  PROVE  Typed(fs) /\ DOMAIN f = Places /\ \A pl \in Places : FormOk(fs, pl, f[pl])
<1>1. Typed(fs)
  BY EmptySeq DEF Typed
<1>2. \A pl \in Places : f[pl] = <<>>
  OBVIOUS
<1>3. <<>> \in Text /\ NoSpace(<<>>)
  BY DEF Text, NoSpace, Outside
<1>4. \A pl, x : Holds(fs, <<>>, pl, x)
  BY DEF Holds, Named, Hits
<1> QED BY <1>1, <1>2, <1>3, <1>4 DEF FormOk

\* What the client writes is a variable behind the others.
LEMMA WrittenIs ==
  ASSUME NEW buf \in Text, NEW nm \in Text, NEW w \in Text
  PROVE  buf \o (IF buf = <<>> THEN <<>> ELSE <<"&">>) \o nm \o <<"=">> \o w = Added(buf, nm, w)
<1> DEFINE s == IF buf = <<>> THEN <<>> ELSE One(Amp)
           e == One(Equals)
<1>1. buf \o (IF buf = <<>> THEN <<>> ELSE <<"&">>) \o nm \o <<"=">> \o w
      = Cat(Cat(Cat(Cat(buf, s), nm), e), w)
  BY DEF Cat, One, Amp, Equals
<1>2. One(Amp) \in Text /\ e \in Text /\ <<>> \in Text
  BY AmpIs, OneTyped, EmptySeq DEF Text
<1>3. s \in Text
  BY <1>2
<1>4. Added(buf, nm, w) = IF buf = <<>> THEN Cat(nm, Cat(e, w)) ELSE Cat(buf, Cat(One(Amp), Cat(nm, Cat(e, w))))
  BY DEF Added, FieldText
<1>41. s = IF buf = <<>> THEN <<>> ELSE One(Amp)
  OBVIOUS
<1> HIDE DEF s, e
<1> DEFINE c == Cat(buf, s)
           f == Cat(nm, Cat(e, w))
<1>5. c \in Text /\ f \in Text
  <2>1. Cat(e, w) \in Text
    BY <1>2, CatTyped DEF Text
  <2> QED BY <1>3, <2>1, CatTyped DEF Text
<1>6. Cat(Cat(Cat(c, nm), e), w) = Cat(c, f)
  <2> HIDE DEF c
  <2> DEFINE a == Cat(c, nm)
             r == Cat(e, w)
  <2>1. a \in Text /\ r \in Text
    BY <1>2, <1>5, CatTyped DEF Text
  <2>2. Cat(Cat(a, e), w) = Cat(a, r)
    <3> HIDE DEF a
    <3> QED BY <1>2, <2>1, CatAssoc DEF Text
  <2>3. Cat(a, r) = Cat(c, Cat(nm, r))
    <3> HIDE DEF r
    <3> QED BY <1>5, <2>1, CatAssoc DEF Text
  <2> QED BY <2>2, <2>3
<1> HIDE DEF f
<1>7. CASE buf = <<>>
  <2>1. c = <<>>
    BY <1>41, <1>7, CatEmpty DEF Text
  <2>2. Cat(c, f) = f
    BY <1>5, <2>1, CatEmpty DEF Text
  <2> QED BY <1>1, <1>4, <1>6, <1>7, <2>2 DEF f
<1>8. CASE buf # <<>>
  <2>1. s = One(Amp)
    BY <1>41, <1>8
  <2>2. Cat(c, f) = Cat(buf, Cat(s, f))
    BY <1>3, <1>5, CatAssoc DEF Text
  <2> QED BY <1>1, <1>4, <1>6, <1>8, <2>1, <2>2 DEF f
<1> QED BY <1>7, <1>8

\* A name ends neither itself nor the URI.
LEMMA NamesAre == \A n \in Names : IsName(n) /\ NoSpace(n)
<1> SUFFICES ASSUME NEW n \in Names PROVE IsName(n) /\ NoSpace(n)
  OBVIOUS
<1> DEFINE D == {" ", "&", "=", "nul"}
           a == {" "}
           b == {"&"}
           c == {"="}
<1>1. n \in Seq(Symbols \ D) /\ n # <<>>
  BY LoginConstants
<1>2. a \subseteq D /\ b \subseteq D /\ c \subseteq D
  OBVIOUS
<1>3. ASSUME Outside(n, a), Outside(n, b), Outside(n, c), n \in Text PROVE IsName(n) /\ NoSpace(n)
  BY <1>1, <1>3 DEF IsName, NoSpace
<1> HIDE DEF D, a, b, c
<1>4. n \in Text /\ \A E : E \subseteq D => Outside(n, E)
  BY <1>1, WithoutIs DEF Text
<1> QED BY <1>2, <1>3, <1>4

\* What is added to a form has no space.
LEMMA AddedKept ==
  ASSUME NEW buf \in Text, NoSpace(buf), NEW nm \in Text, NoSpace(nm), NEW w \in Text, NoSpace(w)
  PROVE  NoSpace(Added(buf, nm, w))
<1> DEFINE D == {" "}
           e == One(Equals)
           a == One(Amp)
<1>1. a \in Text /\ e \in Text
  BY AmpIs, OneTyped DEF Text
<1>2. Outside(buf, D) /\ Outside(nm, D) /\ Outside(w, D)
  BY DEF NoSpace
<1>3. Outside(a, D) /\ Outside(e, D)
  <2>1. Amp \notin D /\ Equals \notin D
    BY DEF Amp, Equals
  <2> HIDE DEF D
  <2> QED BY <2>1, AmpIs, OneIs
<1>4. Added(buf, nm, w) = IF buf = <<>> THEN Cat(nm, Cat(e, w)) ELSE Cat(buf, Cat(a, Cat(nm, Cat(e, w))))
  BY DEF Added, FieldText
<1>5. NoSpace(Added(buf, nm, w)) <=> Outside(Added(buf, nm, w), D)
  BY DEF NoSpace
<1> HIDE DEF D, a, e
<1>6. Cat(e, w) \in Text /\ Outside(Cat(e, w), D)
  BY <1>1, <1>2, <1>3, CatTyped, CatInside DEF Text
<1>7. Cat(nm, Cat(e, w)) \in Text /\ Outside(Cat(nm, Cat(e, w)), D)
  BY <1>2, <1>6, CatTyped, CatInside DEF Text
<1>8. Cat(a, Cat(nm, Cat(e, w))) \in Text /\ Outside(Cat(a, Cat(nm, Cat(e, w))), D)
  BY <1>1, <1>3, <1>7, CatTyped, CatInside DEF Text
<1>9. Outside(Cat(buf, Cat(a, Cat(nm, Cat(e, w)))), D)
  BY <1>2, <1>8, CatInside DEF Text
<1> QED BY <1>4, <1>5, <1>7, <1>9

\* What the client adds: the variable, and how its value is spelled.
Adding(p, n, v, how) ==
  /\ p \in Places /\ n \in Names /\ v \in Texts
  /\ \A i \in DOMAIN fields : ~ (fields[i].place = p /\ SameWord(fields[i].name, n))
  /\ fields' = Append(fields, [place |-> p, name |-> n, value |-> v])
  /\ \A i \in DOMAIN v : how[i] \in Spellings[v[i]]
  /\ form' = [form EXCEPT ![p] = @ \o (IF @ = <<>> THEN <<>> ELSE <<"&">>)
                                    \o n \o <<"=">> \o Spelled(v, how)]

\* Write adds a variable in a spelling,
LEMMA WriteAdds ==
  ASSUME Write
  PROVE  \E p, n, v, how : Adding(p, n, v, how)
<1>1. PICK p \in Places, n \in Names, v \in Texts :
       /\ \A i \in DOMAIN fields : ~ (fields[i].place = p /\ SameWord(fields[i].name, n))
       /\ fields' = Append(fields, [place |-> p, name |-> n, value |-> v])
       /\ \E how \in {h \in [DOMAIN v -> UNION {Spellings[c] : c \in ToSet(v)}] :
                        \A i \in DOMAIN v : h[i] \in Spellings[v[i]]} :
            form' = [form EXCEPT ![p] = @ \o (IF @ = <<>> THEN <<>> ELSE <<"&">>)
                                          \o n \o <<"=">> \o Spelled(v, how)]
  BY DEF Write
<1>2. PICK how \in {h \in [DOMAIN v -> UNION {Spellings[c] : c \in ToSet(v)}] :
                        \A i \in DOMAIN v : h[i] \in Spellings[v[i]]} :
            form' = [form EXCEPT ![p] = @ \o (IF @ = <<>> THEN <<>> ELSE <<"&">>)
                                          \o n \o <<"=">> \o Spelled(v, how)]
  BY <1>1
<1>3. \A i \in DOMAIN v : how[i] \in Spellings[v[i]]
  BY <1>2
<1> QED BY <1>1, <1>2, <1>3 DEF Adding

\* which reads back as its value.
LEMMA AddingIs ==
  ASSUME NEW p, NEW n, NEW v, NEW how, Adding(p, n, v, how), FormInv
  PROVE  \E f \in FieldSet, w \in Text :
           /\ f.place = p /\ f.name = n /\ f.value = v /\ fields' = Append(fields, f)
           /\ NewName(fields, p, n) /\ Decodes(w, v) /\ NoSpace(w) /\ IsName(n) /\ NoSpace(n)
           /\ form' = [form EXCEPT ![p] = Added(form[p], n, w)]
<1> DEFINE f == [place |-> p, name |-> n, value |-> v]
           w == Spelled(v, how)
<1>1. p \in Places /\ n \in Names /\ v \in Texts /\ fields' = Append(fields, f)
  BY DEF Adding
<1>2. NewName(fields, p, n)
  BY DEF Adding, NewName
<1>3. IsName(n) /\ NoSpace(n) /\ n \in Text
  BY <1>1, NamesAre DEF IsName
<1>4. v \in Text /\ \A i \in DOMAIN v : how[i] \in SpellingsOf(v[i])
  <2>1. /\ Texts \subseteq Seq(DOMAIN Spellings)
        /\ \A c \in DOMAIN Spellings : c \in Symbols /\ Spellings[c] \subseteq SpellingsOf(c)
    BY LoginConstants
  <2>2. v \in Seq(DOMAIN Spellings)
    BY <1>1, <2>1
  <2>3. \A i \in DOMAIN v : v[i] \in DOMAIN Spellings
    BY <2>2
  <2>4. v \in Seq(Symbols)
    <3>1. DOMAIN Spellings \subseteq Symbols
      BY <2>1
    <3> QED BY <2>2, <3>1, WithinIs
  <2> QED BY <2>1, <2>3, <2>4 DEF Text, Adding
<1>5. Decodes(w, v)
  BY <1>4, SpelledDecodes
<1>6. w \in Text /\ NoSpace(w)
  BY <1>5 DEF Decodes, Kept, NoSpace
<1>7. form[p] \in Text
  BY <1>1 DEF FormInv, FormOk
<1>8. form' = [form EXCEPT ![p] = form[p] \o (IF form[p] = <<>> THEN <<>> ELSE <<"&">>)
                                    \o n \o <<"=">> \o w]
  BY DEF Adding
<1>9. f \in FieldSet /\ f.place = p /\ f.name = n /\ f.value = v
  BY <1>1, <1>3, <1>4 DEF FieldSet
<1> HIDE DEF f, w
<1>10. form' = [form EXCEPT ![p] = Added(form[p], n, w)]
  BY <1>3, <1>6, <1>7, <1>8, WrittenIs
<1> QED BY <1>1, <1>2, <1>3, <1>5, <1>6, <1>9, <1>10

\* After Write the forms hold what the client wrote, with what it added.
LEMMA WriteKeeps ==
  ASSUME FormInv, Write
  PROVE  FormInv'
<1>1. PICK p, n, v, how : Adding(p, n, v, how)
  BY WriteAdds
<1>2. PICK f \in FieldSet, w \in Text :
           /\ f.place = p /\ f.name = n /\ f.value = v /\ fields' = Append(fields, f)
           /\ NewName(fields, p, n) /\ Decodes(w, v) /\ NoSpace(w) /\ IsName(n) /\ NoSpace(n)
           /\ form' = [form EXCEPT ![p] = Added(form[p], n, w)]
  BY <1>1, AddingIs
<1> DEFINE b == Added(form[p], n, w)
           g == Append(fields, f)
<1>3. p \in Places
  BY <1>1 DEF Adding
<1>4. fields \in Seq(FieldSet) /\ FormOk(fields, p, form[p]) /\ IsField(f)
  <2>1. v \in Text
    BY <1>2 DEF FieldSet
  <2> QED BY <1>2, <1>3, <2>1 DEF FormInv, Typed, IsField
<1>5. Typed(g)
  BY <1>4, AppendIs DEF Typed
<1>6. FormOk(g, p, b)
  <2>1. n \in Text
    BY <1>2 DEF IsName
  <2>2. form[p] \in Text /\ NoSpace(form[p]) /\ \A x \in Asked : Holds(fields, form[p], p, x)
    BY <1>4 DEF FormOk
  <2>3. NoSpace(b)
    BY <1>2, <2>1, <2>2, AddedKept
  <2>4. b \in Text
    <3>1. "user" \in Asked
      BY DEF Asked
    <3>2. NoAmp(w)
      BY <1>2 DEF Decodes, Kept, NoAmp
    <3> QED BY <1>2, <2>2, <3>1, <3>2, WordsAre, AddedFinds
  <2>5. ASSUME NEW x \in Asked PROVE Holds(g, b, p, x)
    <3>1. LowerCase(x) # Amp
      BY WordsAre
    <3>2. NewName(fields, f.place, f.name) /\ Holds(fields, form[p], f.place, x) /\ Decodes(w, f.value)
      BY <1>2, <2>2
    <3>3. Holds(Append(fields, f), Added(form[p], f.name, w), f.place, x)
      BY <1>4, <2>2, <3>1, <3>2, HoldsAdds
    <3> QED BY <1>2, <3>3
  <2> QED BY <2>3, <2>4, <2>5 DEF FormOk
<1>7. ASSUME NEW pl \in Places, pl # p PROVE FormOk(g, pl, form[pl])
  <2>1. FormOk(fields, pl, form[pl])
    BY DEF FormInv
  <2>2. f.place # pl
    BY <1>2, <1>7
  <2>3. \A x : Holds(fields, form[pl], pl, x) => Holds(g, form[pl], pl, x)
    BY <1>4, <2>2, HoldsKeeps
  <2> QED BY <2>1, <2>3 DEF FormOk
<1>8. fields' = g /\ form' = [form EXCEPT ![p] = b] /\ DOMAIN form = Places
  BY <1>2 DEF FormInv
<1> HIDE DEF g, b
<1>9. DOMAIN form' = Places /\ form'[p] = b /\ \A pl \in Places : pl # p => form'[pl] = form[pl]
  BY <1>3, <1>8
<1>10. \A pl \in Places : FormOk(g, pl, form'[pl])
  BY <1>6, <1>7, <1>9
<1>11. \A pl \in Places : FormOk(fields', pl, form'[pl])
  BY <1>8, <1>10
<1>12. Typed(fields')
  BY <1>5, <1>8
<1> QED BY <1>9, <1>11, <1>12 DEF FormInv, Typed, FormOk, Holds, Named

\* The sent request, as long as the form is the same.
LEMMA SentSame ==
  ASSUME form' = form, NEW h, NEW mark, NEW b
  PROVE  Sent(h, mark, b)' = Sent(h, mark, b)
BY DEF Sent, HeadText, Lines

\* The forms hold it as long as the client writes nothing.
LEMMA FormSame ==
  ASSUME FormInv, form' = form, fields' = fields
  PROVE  FormInv'
BY DEF FormInv, Typed, FormOk, Holds, Named

\* The initial state satisfies the inductive invariant.
LEMMA InitOk == Init => IInv
<1> SUFFICES ASSUME Init PROVE IInv
  OBVIOUS
<1>1. FormInv
  BY EmptyForms DEF Init, FormInv
<1>2. WireInv
  BY DEF Init, WireInv
<1> QED BY <1>1, <1>2 DEF IInv

\* Send sends the forms as they are.
LEMMA SendKeeps ==
  ASSUME IInv, Send
  PROVE  IInv'
<1>1. wire = None /\ Len(form["body"]) <= PostLen /\ fields' = fields /\ form' = form
      /\ ri' = ri /\ got' = got /\ answer' = answer
  BY DEF Send
<1>2. ri = None /\ answer = None
  BY <1>1 DEF IInv, WireInv
<1>3. FormInv'
  BY <1>1, FormSame DEF IInv
<1>4. PICK h \in Heads, mark \in BOOLEAN : wire' = Sent(h, mark, form["body"]) /\ (~ mark => form["query"] = <<>>)
  <2>1. PICK h \in Heads, mark \in {form["query"] # <<>>, TRUE} :
          wire' = [head |-> HeadText(h, mark, Len(form["body"])), body |-> form["body"],
                   method |-> h.method]
    BY DEF Send
  <2>2. mark \in BOOLEAN /\ (~ mark => form["query"] = <<>>)
    OBVIOUS
  <2>3. wire' = Sent(h, mark, form["body"])
    BY <2>1 DEF Sent
  <2> QED BY <2>2, <2>3
<1>5. Sent(h, mark, form["body"])' = Sent(h, mark, form["body"])
  BY <1>1, SentSame
<1>51. form'["body"] = form["body"]
  BY <1>1
<1>6. wire' = Sent(h, mark, form["body"])'
  BY <1>4, <1>5
<1>7. ~ mark => form'["query"] = <<>>
  BY <1>1, <1>4
<1>8. WireInv'
  BY <1>1, <1>2, <1>6, <1>7 DEF WireInv
<1> QED BY <1>3, <1>8 DEF IInv

\* The forms are texts, and the one that becomes the query has no space.
LEMMA FormsAre ==
  ASSUME FormInv
  PROVE  form["query"] \in Text /\ NoSpace(form["query"]) /\ form["body"] \in Text
BY PlacesAre DEF FormInv, FormOk

\* HandleRequest reads back what was sent.
LEMMA HandleKeeps ==
  ASSUME IInv, HandleRequest
  PROVE  IInv'
<1>1. wire # None /\ ri = None /\ fields' = fields /\ form' = form /\ wire' = wire
      /\ got' = got /\ answer' = answer
  BY DEF HandleRequest
<1>2. answer = None
  BY <1>1 DEF IInv, WireInv
<1>3. FormInv'
  BY <1>1, FormSame DEF IInv
<1>4. PICK h \in Heads, mark \in BOOLEAN :
        Len(form["body"]) <= PostLen /\ (~ mark => form["query"] = <<>>) /\ wire = Sent(h, mark, form["body"])
  BY <1>1 DEF IInv, WireInv
<1>5. ri' = Request(h, mark, form["query"], form["body"])
  <2> DEFINE q == form["query"]
             b == form["body"]
  <2>1. q \in Text /\ NoSpace(q) /\ b \in Text /\ IsQuery(q)
    BY FormsAre DEF IInv, IsQuery
  <2>2. Len(b) <= PostLen /\ wire = Sent(h, mark, b) /\ (~ mark => q = <<>>)
    BY <1>4
  <2> HIDE DEF q, b
  <2>3. ri' = Request(h, mark, q, b)
    BY <2>1, <2>2, RequestMade
  <2> QED BY <2>3 DEF q, b
<1>6. Sent(h, mark, form["body"])' = Sent(h, mark, form["body"])
  BY <1>1, SentSame
<1>7. wire' = Sent(h, mark, form["body"])' /\ ri' = Request(h, mark, form["query"], form["body"])'
  BY <1>1, <1>4, <1>5, <1>6 DEF Request
<1>8. WireInv'
  BY <1>1, <1>2, <1>4, <1>7 DEF WireInv
<1> QED BY <1>3, <1>8 DEF IInv

\* Login finds the variables the client wrote, and answers by them.
LEMMA LoginKeeps ==
  ASSUME IInv, Login
  PROVE  IInv'
<1>1. ri # None /\ answer = None /\ fields' = fields /\ form' = form /\ wire' = wire /\ ri' = ri
  BY DEF Login
<1>2. wire # None
  BY <1>1 DEF IInv, WireInv
<1>3. FormInv'
  BY <1>1, FormSame DEF IInv
<1>4. PICK h \in Heads, mark \in BOOLEAN : 
       /\ Len(form["body"]) <= PostLen /\ (~ mark => form["query"] = <<>>)
       /\ wire = Sent(h, mark, form["body"])
       /\ ri = Request(h, mark, form["query"], form["body"])
  BY <1>1, <1>2 DEF IInv, WireInv
<1>5. ri.ok /\ ri.uri = <<"/login">> /\ ri.method = <<h.method>>
  BY <1>4 DEF Request
<1>6. ri.method = <<"POST">> <=> h.method = "POST"
  BY <1>5
<1>7. Answered(h.method)'
  <2> DEFINE u == CString(GetVar(ri.query, ri.post, <<"user">>))
             p == CString(GetVar(ri.query, ri.post, <<"pass">>))
  <2>1. IF h.method # "POST" THEN answer' = 400 /\ got' = None
        ELSE /\ got' = [user |-> u, pass |-> p]
             /\ answer' = IF got'.user # None /\ got'.pass # None
                             /\ UserChecks(got'.user, got'.pass)
                          THEN 200 ELSE 400
    BY <1>5, <1>6 DEF Login
  <2> QED BY <1>1, <2>1 DEF Answered
<1>8. Sent(h, mark, form["body"])' = Sent(h, mark, form["body"])
  BY <1>1, SentSame
<1>9. wire' = Sent(h, mark, form["body"])' /\ ri' = Request(h, mark, form["query"], form["body"])'
  BY <1>1, <1>4, <1>8 DEF Request
<1>10. WireInv'
  BY <1>1, <1>2, <1>4, <1>7, <1>9 DEF WireInv
<1> QED BY <1>3, <1>10 DEF IInv

\* Again starts with empty forms.
LEMMA AgainKeeps ==
  ASSUME Again
  PROVE  IInv'
<1>1. FormInv'
  <2>1. fields' = <<>> /\ form' = [p \in Places |-> <<>>]
    BY DEF Again
  <2>2. Typed(fields') /\ DOMAIN form' = Places /\ \A pl \in Places : FormOk(fields', pl, form'[pl])
    BY <2>1, EmptyForms
  <2> QED BY <2>2 DEF FormInv, Typed, FormOk, Holds, Named
<1>2. WireInv'
  BY DEF Again, WireInv
<1> QED BY <1>1, <1>2 DEF IInv

\* A step of somebody else changes nothing.
LEMMA StutterKeeps ==
  ASSUME IInv, UNCHANGED vars
  PROVE  IInv'
<1>1. fields' = fields /\ form' = form /\ wire' = wire /\ ri' = ri /\ got' = got /\ answer' = answer
  BY DEF vars
<1>2. FormInv'
  BY <1>1, FormSame DEF IInv
<1>3. \A h, mark, b : Sent(h, mark, b)' = Sent(h, mark, b)
  BY <1>1, SentSame
<1>4. \A m : Answered(m) => Answered(m)'
  BY <1>1 DEF Answered
<1>5. WireInv'
  <2>1. CASE wire = None
    BY <1>1, <2>1 DEF IInv, WireInv
  <2>2. CASE wire # None
    <3>1. PICK h \in Heads, mark \in BOOLEAN :
                             /\ Len(form["body"]) <= PostLen /\ (~ mark => form["query"] = <<>>)
                             /\ wire = Sent(h, mark, form["body"])
                             /\ ri # None => ri = Request(h, mark, form["query"], form["body"])
                             /\ answer # None => Answered(h.method)
      BY <2>2 DEF IInv, WireInv
    <3>2. wire' = Sent(h, mark, form["body"])'
      BY <1>1, <1>3, <3>1
    <3>3. ri' # None => ri' = Request(h, mark, form["query"], form["body"])'
      BY <1>1, <3>1 DEF Request
    <3>4. answer' # None => Answered(h.method)'
      BY <1>1, <1>4, <3>1
    <3>5. (ri' # None => wire' # None) /\ (answer' # None => ri' # None)
      BY <1>1 DEF IInv, WireInv
    <3> QED BY <1>1, <3>1, <3>2, <3>3, <3>4, <3>5 DEF WireInv
  <2> QED BY <2>1, <2>2
<1> QED BY <1>2, <1>5 DEF IInv

\* The inductive invariant is inductive.
LEMMA NextKeeps == IInv /\ [Next]_vars => IInv'
<1> SUFFICES ASSUME IInv, [Next]_vars PROVE IInv'
  OBVIOUS
<1>1. CASE Write
  <2>1. FormInv'
    BY <1>1, WriteKeeps DEF IInv
  <2>2. WireInv'
    BY <1>1 DEF Write, IInv, WireInv
  <2> QED BY <2>1, <2>2 DEF IInv
<1>2. CASE Send
  BY <1>2, SendKeeps
<1>3. CASE HandleRequest
  BY <1>3, HandleKeeps
<1>4. CASE Login
  BY <1>4, LoginKeeps
<1>5. CASE Again
  BY <1>5, AgainKeeps
<1>6. CASE UNCHANGED vars
  BY <1>6, StutterKeeps
<1> QED BY <1>1, <1>2, <1>3, <1>4, <1>5, <1>6 DEF Next

\* In every reachable state the forms hold what the client wrote, and the request,
\* the variables and the answer are the ones these forms make.
THEOREM Invariant == Spec => []IInv
BY InitOk, NextKeeps, PTL DEF Spec

(***************************************************************************)
(* The properties.                                                         *)
(***************************************************************************)
\* The two names the handler asks for.
LEMMA AskedAre == "user" \in Asked /\ "pass" \in Asked /\ Asked = {"user", "pass"}
BY DEF Asked

\* The variables the handler gets are the ones the client means.
LEMMA MeantIs ==
  ASSUME FormInv, NEW x \in Asked, NEW h, NEW mark \in BOOLEAN,
         ~ mark => form["query"] = <<>>, ri = Request(h, mark, form["query"], form["body"])
  PROVE  CString(GetVar(ri.query, ri.post, <<x>>)) = Meant(x) /\ (Meant(x) # None => Meant(x) \in Text)
<1> DEFINE q == form["query"]
           b == form["body"]
<1>1. q \in Text /\ b \in Text /\ Typed(fields)
  BY FormsAre DEF FormInv
<1>2. Holds(fields, q, "query", x) /\ Holds(fields, b, "body", x)
  BY PlacesAre DEF FormInv, FormOk
<1>3. ri.query = Query(q, mark) /\ ri.post = b /\ (~ mark => q = <<>>)
  BY DEF Request
<1> HIDE DEF q, b
<1>4. GetVar(ri.query, ri.post, <<x>>) = Filling(x) /\ (Filling(x) # None => Filling(x) \in Text)
  BY <1>1, <1>2, <1>3, GetVarIs
<1>5. Meant(x) # None => Meant(x) \in Text
  BY <1>4, CStringTyped DEF Meant
<1> QED BY <1>4, <1>5 DEF Meant

\* However the client spells the form and the head, and whatever other variables there
\* are, the handler of a POST gets the user and the password the client means: what is
\* before the first NUL of the values it filled in. By LoginConstants the length is among
\* the first MaxHeaders headers, and no header is called 'Content-Lenght'.
THEOREM VarsAreReadBack == Spec => []VarsReadBack
<1>1. IInv => VarsReadBack
  <2> SUFFICES ASSUME IInv PROVE VarsReadBack
    OBVIOUS
  <2>1. ASSUME ri # None
        PROVE  ri.ok /\ ri.uri = <<"/login">> /\ ri.method = <<wire.method>> /\ ri.post = wire.body
    <3>1. PICK h \in Heads, mark \in BOOLEAN :
            wire = Sent(h, mark, form["body"]) /\ ri = Request(h, mark, form["query"], form["body"])
      BY <2>1 DEF IInv, WireInv
    <3>2. wire.method = h.method /\ wire.body = form["body"]
      BY <3>1 DEF Sent
    <3> QED BY <3>1, <3>2 DEF Request
  <2>2. ASSUME answer # None, wire.method = "POST"
        PROVE  got # None /\ got.user = Meant("user") /\ got.pass = Meant("pass")
    <3>1. PICK h \in Heads, mark \in BOOLEAN :
                             /\ wire = Sent(h, mark, form["body"]) /\ (~ mark => form["query"] = <<>>)
                             /\ ri = Request(h, mark, form["query"], form["body"]) /\ Answered(h.method)
      BY <2>2 DEF IInv, WireInv
    <3>2. h.method = "POST"
      BY <2>2, <3>1 DEF Sent
    <3> DEFINE u == CString(GetVar(ri.query, ri.post, <<"user">>))
               p == CString(GetVar(ri.query, ri.post, <<"pass">>))
    <3>3. got = [user |-> u, pass |-> p]
      BY <3>1, <3>2 DEF Answered
    <3>4. u = Meant("user") /\ (Meant("user") # None => Meant("user") \in Text)
      BY <3>1, MeantIs, AskedAre DEF IInv
    <3>5. p = Meant("pass") /\ (Meant("pass") # None => Meant("pass") \in Text)
      BY <3>1, MeantIs, AskedAre DEF IInv
    <3> HIDE DEF u, p
    <3>6. got \in [user : Seq(Symbols) \cup {None}, pass : Seq(Symbols) \cup {None}]
      BY <3>3, <3>4, <3>5 DEF Text
    <3>7. got # None
      BY <3>6, LoginConstants
    <3>8. got.user = u /\ got.pass = p
      BY <3>3
    <3> QED BY <3>4, <3>5, <3>7, <3>8
  <2> QED BY <2>1, <2>2 DEF VarsReadBack
<1> QED BY <1>1, Invariant, PTL

\* What get_var decodes, and the end of the string, fit the block it allocated, whatever
\* the client sent; but for a query without characters and no body, when the block has no
\* bytes and one is written.
THEOREM GetVarFits == Spec => []FitsBlock
<1>1. IInv => FitsBlock
  <2> SUFFICES ASSUME IInv, ri # None, NEW n \in {"user", "pass"}
               PROVE  LET size == RetSize(ri.query, ri.post)
                          wrote(text) == LET v == MgGetVar(text, <<n>>, size)
                                         IN IF v = None THEN 1 ELSE Len(v) + 1
                      IN IF ri.query = <<>> /\ ri.post = <<>> THEN wrote(ri.query) = size + 1
                         ELSE /\ ri.query # None => wrote(ri.query) <= size
                              /\ ri.post # <<>>  => wrote(ri.post) <= size
    BY DEF FitsBlock
  <2>1. PICK h \in Heads, mark \in BOOLEAN : ri = Request(h, mark, form["query"], form["body"])
    BY DEF IInv, WireInv
  <2> DEFINE q == ri.query
             b == ri.post
             size == RetSize(q, b)
             wrote(text) == LET v == MgGetVar(text, <<n>>, size) IN IF v = None THEN 1 ELSE Len(v) + 1
  <2>2. b \in Text /\ (q # None => q \in Text)
    BY <2>1, FormsAre DEF IInv, Request, Query
  <2>3. size = (IF q = None THEN 0 ELSE Len(q)) + Len(b)
    BY DEF RetSize
  <2> HIDE DEF q, b, size
  <2>4. Len(b) \in Nat /\ (b # <<>> => Len(b) >= 1) /\ (q # None => Len(q) \in Nat /\ (q # <<>> => Len(q) >= 1))
    BY <2>2, EmptySeq DEF Text
  <2>5. size \in Nat /\ ((q # None /\ q # <<>>) \/ b # <<>> => size >= 1)
    BY <2>3, <2>4
  <2>6. ASSUME NEW t \in Text, size \in Nat, size >= 1
        PROVE  wrote(t) <= size
    <3> DEFINE w == Written(t, <<n>>)
               F == Found(t, <<n>>)
               v == MgGetVar(t, <<n>>, size)
    <3>1. v = IF F = {} \/ Len(w) >= size THEN None
              ELSE UrlDecode[[src |-> w, room |-> size - 1, form |-> TRUE]]
      BY DEF MgGetVar
    <3>2. F \subseteq 1..Len(t) /\ (F # {} => \E p \in F : At(t, p, n) /\ w = WrittenAt(t, p))
      BY FoundIs
    <3>20. wrote(t) = IF v = None THEN 1 ELSE Len(v) + 1
      OBVIOUS
    <3> HIDE DEF w, F, v, wrote
    <3>3. CASE F = {} \/ Len(w) >= size
      BY <2>6, <3>1, <3>3, <3>20
    <3>4. CASE ~ (F = {} \/ Len(w) >= size)
      <4>1. PICK p \in F : At(t, p, n) /\ w = WrittenAt(t, p)
        BY <3>2, <3>4
      <4>2. p \in 1..Len(t) /\ p + 1 <= Len(t)
        BY <3>2, <4>1 DEF At
      <4>3. p + 2 \in 1..(Len(t) + 1)
        BY <4>2
      <4>4. From(t, p + 2) \in Text
        BY <4>3, FromIs DEF Text
      <4>5. w \in Text
        BY <4>1, <4>4, CutTyped DEF WrittenAt
      <4> DEFINE r == size - 1
      <4>6. r \in Nat /\ size = r + 1
        BY <2>6
      <4>7. v = UrlDecode[ToDecode(w, r)]
        BY <3>1, <3>4 DEF ToDecode
      <4> HIDE DEF r
      <4>8. ToDecode(w, r) \in Encoded /\ ToDecode(w, r).room = r
        BY <4>5, <4>6, ToDecodeTyped
      <4>9. Len(v) <= r /\ v \in Text
        BY <4>7, <4>8, DecodedFits, UrlDecodeIs
      <4>10. Len(v) \in Nat
        BY <4>9 DEF Text
      <4>11. Len(v) + 1 <= size
        BY <4>6, <4>9, <4>10
      <4> QED BY <2>6, <3>20, <4>11
    <3> QED BY <3>3, <3>4
  <2>7. ASSUME ~ (q = <<>> /\ b = <<>>)
        PROVE  (q # None => wrote(q) <= size) /\ (b # <<>> => wrote(b) <= size)
    <3> HIDE DEF wrote
    <3> QED BY <2>2, <2>5, <2>6, <2>7
  <2>8. ASSUME q = <<>>, b = <<>> PROVE wrote(q) = size + 1
    <3>1. q # None /\ q \in Text /\ Len(q) = 0 /\ Len(b) = 0
      BY <2>2, <2>8, EmptySeq, NoneIs DEF Text
    <3>2. size = 0
      BY <2>3, <3>1
    <3>3. Found(q, <<n>>) = {}
      BY <3>1, FoundIs
    <3>4. MgGetVar(q, <<n>>, size) = None
      BY <3>3 DEF MgGetVar
    <3> QED BY <3>2, <3>4
  <2>9. IF q = <<>> /\ b = <<>> THEN wrote(q) = size + 1
        ELSE (q # None => wrote(q) <= size) /\ (b # <<>> => wrote(b) <= size)
    <3> HIDE DEF wrote
    <3> QED BY <2>7, <2>8
  <2> QED BY <2>9 DEF q, b, size
<1> QED BY <1>1, Invariant, PTL

\* What is compared is the digest of the secret key and the password,
LEMMA PasswordMd5Is ==
  ASSUME NEW p \in Text
  PROVE  PasswordMd5(p) = Reference(SecretKey \o p)
<1> DEFINE S == Symbols \cup 0..255
           i == Md5Append(Md5Init, SecretKey)
           a == Md5Append(i, p)
           k == SecretKey
<1>1. p \in Seq(S) /\ k \in Seq(S) /\ <<>> \in Seq(S)
  <2>1. p \in Seq(Symbols) /\ k \in Seq(0..255)
    BY LoginConstants DEF Text
  <2>2. Symbols \subseteq S /\ 0..255 \subseteq S
    OBVIOUS
  <2> HIDE DEF S
  <2> QED BY <2>1, <2>2, SeqMonotonic, EmptySeq
<1>2. PasswordMd5(p) = Md5Finish(a)
  BY DEF PasswordMd5
<1>3. Represents(i, <<>> \o k)
  <2> HIDE DEF S
  <2> QED BY <1>1, InitRepresents, AppendRepresents
<1>4. <<>> \o k = k
  <2> HIDE DEF S, k
  <2> QED BY <1>1, ConcatEmptySeq
<1>5. Represents(a, k \o p) /\ k \o p \in Seq(S)
  <2> HIDE DEF S, i, k
  <2> QED BY <1>1, <1>3, <1>4, AppendRepresents, ConcatProperties DEF a
<1> HIDE DEF S, a, k
<1>6. Md5Finish(a) = Reference(k \o p)
  BY <1>5, FinishIsReference
<1> QED BY <1>2, <1>6 DEF k

\* and it tells two passwords apart: md5_append and md5_finish cut no two into the same blocks.
LEMMA DigestsTell ==
  ASSUME NEW p \in Text, NEW r \in Text, PasswordMd5(p) = PasswordMd5(r)
  PROVE  p = r
<1> DEFINE S == Symbols \cup 0..255
           k == SecretKey
<1>1. p \in Seq(S) /\ r \in Seq(S) /\ k \in Seq(S)
  <2>1. p \in Seq(Symbols) /\ r \in Seq(Symbols) /\ k \in Seq(0..255)
    BY LoginConstants DEF Text
  <2>2. Symbols \subseteq S /\ 0..255 \subseteq S
    OBVIOUS
  <2> HIDE DEF S
  <2> QED BY <2>1, <2>2, SeqMonotonic
<1>2. Reference(k \o p) = Reference(k \o r)
  BY PasswordMd5Is
<1> HIDE DEF S, k
<1>3. k \o p \in Seq(S) /\ k \o r \in Seq(S)
  BY <1>1, ConcatProperties
<1>4. k \o p = k \o r
  BY <1>2, <1>3, ReferenceInjective
<1>5. From(k \o p, Len(k) + 1) = p /\ From(k \o r, Len(k) + 1) = r
  BY <1>1, Parts
<1> QED BY <1>4, <1>5

\* A login is accepted if and only if it is a POST of a user of the database and of the
\* password of that user; and what is compared is the MD5 of secret_key and password.
THEOREM LoginsAreRight == Spec => []LoginIsRight
<1>1. IInv => LoginIsRight
  <2> SUFFICES ASSUME IInv, answer # None PROVE LoginIsRight
    BY DEF LoginIsRight
  <2>1. PICK h \in Heads, mark \in BOOLEAN :
                           /\ wire = Sent(h, mark, form["body"]) /\ (~ mark => form["query"] = <<>>)
                           /\ ri = Request(h, mark, form["query"], form["body"]) /\ Answered(h.method)
    BY DEF IInv, WireInv
  <2>2. wire.method = h.method
    BY <2>1 DEF Sent
  <2> DEFINE u == CString(GetVar(ri.query, ri.post, <<"user">>))
             p == CString(GetVar(ri.query, ri.post, <<"pass">>))
             both == [code |-> Meant("user"), password |-> Meant("pass")]
             post == wire.method = "POST"
  <2>3. u = Meant("user") /\ (Meant("user") # None => Meant("user") \in Text)
    BY <2>1, MeantIs, AskedAre DEF IInv
  <2>4. p = Meant("pass") /\ (Meant("pass") # None => Meant("pass") \in Text)
    BY <2>1, MeantIs, AskedAre DEF IInv
  <2>5. IF post THEN answer = IF u # None /\ p # None /\ UserChecks(u, p) THEN 200 ELSE 400
        ELSE answer = 400
    <3>1. CASE post
      <4>1. /\ got = [user |-> u, pass |-> p]
            /\ answer = IF got.user # None /\ got.pass # None /\ UserChecks(got.user, got.pass)
                        THEN 200 ELSE 400
        BY <2>1, <2>2, <3>1 DEF Answered
      <4> HIDE DEF u, p
      <4>2. got.user = u /\ got.pass = p
        BY <4>1
      <4> QED BY <3>1, <4>1, <4>2
    <3>2. CASE ~ post
      BY <2>1, <2>2, <3>2 DEF Answered
    <3> QED BY <3>1, <3>2
  <2> HIDE DEF u, p
  <2>6. (answer = 200) <=> post /\ u # None /\ p # None /\ UserChecks(u, p)
    <3> HIDE DEF post
    <3> QED BY <2>5
  <2>7. ASSUME NEW c, NEW w
        PROVE  [code |-> c, password |-> w] \in Users =>
                 c \in Text /\ w \in Text
    <3> SUFFICES ASSUME [code |-> c, password |-> w] \in Users PROVE c \in Text /\ w \in Text
      OBVIOUS
    <3> DEFINE v == [code |-> c, password |-> w]
    <3>1. v.code \in Seq(Symbols) /\ v.password \in Seq(Symbols)
      BY LoginConstants
    <3>2. v.code = c /\ v.password = w
      OBVIOUS
    <3> QED BY <3>1, <3>2 DEF Text
  <2>8. ASSUME u \in Text, p \in Text
        PROVE  UserChecks(u, p) <=> [code |-> u, password |-> p] \in Users
    <3>1. ASSUME UserChecks(u, p) PROVE [code |-> u, password |-> p] \in Users
      <4>1. PICK v \in Users : v.code = u /\ PasswordMd5(v.password) = PasswordMd5(p)
        BY <3>1 DEF UserChecks
      <4>2. v = [code |-> v.code, password |-> v.password] /\ v.password \in Text
        BY LoginConstants DEF Text
      <4>3. v.password = p
        BY <2>8, <4>1, <4>2, DigestsTell
      <4> QED BY <4>1, <4>2, <4>3
    <3>2. ASSUME [code |-> u, password |-> p] \in Users PROVE UserChecks(u, p)
      <4> DEFINE v == [code |-> u, password |-> p]
      <4>1. v \in Users /\ v.code = u /\ v.password = p
        BY <3>2
      <4> HIDE DEF v
      <4> QED BY <4>1 DEF UserChecks
    <3> QED BY <3>1, <3>2
  <2>9. u # None /\ p # None /\ UserChecks(u, p) <=> both \in Users
    <3>1. both = [code |-> u, password |-> p]
      BY <2>3, <2>4
    <3>2. both \in Users => u \in Text /\ p \in Text
      BY <2>7, <3>1
    <3>3. (u # None => u \in Text) /\ (p # None => p \in Text)
      BY <2>3, <2>4
    <3> HIDE DEF both
    <3> QED BY <2>8, <3>1, <3>2, <3>3, NoneIs
  <2>10. (answer = 200) <=> post /\ both \in Users
    <3> HIDE DEF post, both
    <3> QED BY <2>6, <2>9
  <2>11. ASSUME NEW n \in {"user", "pass"}, Meant(n) # None
         PROVE  PasswordMd5(Meant(n)) = Reference(SecretKey \o Meant(n))
    <3>1. Meant(n) \in Text
      BY <2>1, <2>11, MeantIs, AskedAre DEF IInv
    <3> QED BY <3>1, PasswordMd5Is
  <2> QED BY <2>10, <2>11 DEF LoginIsRight
<1> QED BY <1>1, Invariant, PTL

=============================================================================
