---------------------------- MODULE Packer_proofs ----------------------------
(***************************************************************************)
(* Theorems about Packer, for every format, every argument and every       *)
(* ALLOC_SIZE: the writes stay inside the allocation, and what is packed   *)
(* comes back.                                                             *)
(***************************************************************************)
EXTENDS Packer, TLAPS

\* The arguments belong to the format, and the reader starts like the format.
ArgsOK ==
  /\ args \in Seq(Seq(Byte))
  /\ Len(args) <= Len(fmt)
  /\ \A j \in 1..Len(args) : args[j] \in Values[fmt[j]]

ReaderOK ==
  /\ reader \in Seq(DOMAIN Values)
  /\ phase = "pack" => reader = <<>> /\ out = <<>> /\ pos = 0 /\ resto = 0
  /\ phase # "pack" =>
       /\ Len(args) = Len(fmt)
       /\ \A j \in 1..Len(reader) : j <= Len(fmt) => reader[j] = fmt[j]

PInv ==
  /\ phase \in {"pack", "unpack", "done"}
  /\ fmt \in Formats
  /\ ArgsOK /\ ReaderOK
  /\ buf \in Seq(Byte) /\ alloc \in Nat
  /\ out \in Seq(Seq(Byte) \cup {Null})
  /\ pos \in Nat /\ pos <= Len(buf) + 1
  /\ resto \in Nat /\ resto <= Len(out) /\ Len(out) <= Len(reader)

\* What an argument adds to the record is a sequence of bytes.
LEMMA PieceType ==
  ASSUME NEW kind \in DOMAIN Values, NEW v \in Values[kind]
  PROVE  /\ v \in Seq(Byte)
         /\ Header(kind, v) \in Seq(Byte)
         /\ Body(kind, v) \in Seq(Byte)
<1>1. v \in Seq(Byte) /\ ArgOK(kind, v) /\ kind \in {"c", "h", "i", "l", "s", "b"}
  BY PackerConstantsOK DEF ArgOK
<1>2. Header(kind, v) \in Seq(Byte)
  <2>1. \A n \in Nat : Len32(n) \in Seq(Byte)
    <3> SUFFICES ASSUME NEW n \in Nat PROVE Len32(n) \in Seq(Byte)
      OBVIOUS
    <3>1. \A m \in Nat : m % 256 \in Byte
      BY SMT DEF Byte
    <3>2. n \div 256 \in Nat /\ n \div (256 * 256) \in Nat /\ n \div (256 * 256 * 256) \in Nat
      BY SMT
    <3> QED BY <3>1, <3>2, SMT DEF Len32
  <2> QED BY <1>1, <2>1 DEF Header
<1>3. Body(kind, v) \in Seq(Byte)
  <2>1. CASE kind \in DOMAIN Width
    <3>1. PICK n \in 1..8 : n = Width[kind] /\ n <= Len(v)
      <4>1. CASE kind = "c"
        BY <1>1, <4>1 DEF Width, ArgOK
      <4>2. CASE kind = "h"
        BY <1>1, <4>2 DEF Width, ArgOK
      <4>3. CASE kind = "i"
        BY <1>1, <4>3 DEF Width, ArgOK
      <4>4. CASE kind = "l"
        <5>1. Width[kind] = 8
          BY <4>4 DEF Width
        <5>2. Len(v) = 8
          BY <1>1, <4>4 DEF ArgOK
        <5> QED BY <5>1, <5>2
      <4> QED BY <2>1, <4>1, <4>2, <4>3, <4>4 DEF Width
    <3>2. SubSeq(v, 1, Width[kind]) \in Seq(Byte)
      BY <1>1, <3>1
    <3> QED BY <2>1, <3>2 DEF Body
  <2>2. CASE kind = "s"
    <3>1. 0 \in Byte
      BY DEF Byte
    <3>2. kind \notin DOMAIN Width
      BY <2>2 DEF Width
    <3> QED BY <1>1, <2>2, <3>1, <3>2 DEF Body
  <2>3. CASE kind = "b"
    <3>1. kind \notin DOMAIN Width
      BY <2>3 DEF Width
    <3> QED BY <1>1, <2>3, <3>1 DEF Body
  <2>4. kind \in DOMAIN Width \/ kind = "s" \/ kind = "b"
    BY <1>1 DEF Width
  <2> QED BY <2>1, <2>2, <2>3, <2>4
<1> QED BY <1>1, <1>2, <1>3

\* The allocation grown for n bytes has room for them, whatever ALLOC_SIZE is.
LEMMA GrownHasRoom ==
  ASSUME NEW a \in Nat, NEW len \in Nat, NEW n \in Nat, len <= a
  PROVE  Grown(a, len, n) \in Nat /\ len + n <= Grown(a, len, n)
BY PackerConstantsOK DEF Grown

\* The first state.
LEMMA PInvInit == Init => PInv
<1> SUFFICES ASSUME Init PROVE PInv
  OBVIOUS
<1>1. <<>> \in Seq(Byte) /\ <<>> \in Seq(Seq(Byte)) /\ <<>> \in Seq(Seq(Byte) \cup {Null})
      /\ <<>> \in Seq(DOMAIN Values) /\ Len(<<>>) = 0
  OBVIOUS
<1>2. fmt \in Seq(DOMAIN Values) /\ Len(fmt) \in Nat /\ alloc \in Nat
  BY PackerConstantsOK DEF Init
<1> QED BY <1>1, <1>2 DEF Init, PInv, ArgsOK, ReaderOK

\* A step of binary_pack.
LEMMA PackStep ==
  ASSUME PInv, Pack
  PROVE  PInv' /\ (Fits => Fits')
<1> DEFINE kind == fmt[Len(args) + 1]
<1>1. /\ fmt \in Seq(DOMAIN Values) /\ Len(args) \in Nat /\ Len(args) + 1 \in 1..Len(fmt)
      /\ kind \in DOMAIN Values
  BY PackerConstantsOK DEF PInv, ArgsOK, Pack
<1>2. PICK v \in Values[kind] :
        /\ args' = Append(args, v)
        /\ buf' = buf \o Header(kind, v) \o Body(kind, v)
        /\ alloc' = Grown(Grown(alloc, Len(buf), Len(Header(kind, v))),
                          Len(buf) + Len(Header(kind, v)), Len(Body(kind, v)))
  BY DEF Pack
<1> DEFINE head == Header(kind, v)
           body == Body(kind, v)
<1>3. v \in Seq(Byte) /\ head \in Seq(Byte) /\ body \in Seq(Byte)
  BY <1>1, PieceType
<1> HIDE DEF kind, head, body
<1>4. UNCHANGED <<phase, fmt, reader, pos, out, resto>>
  BY DEF Pack, unpacking
<1>5. ArgsOK'
  <2>1. args \in Seq(Seq(Byte)) /\ \A j \in 1..Len(args) : args[j] \in Values[fmt[j]]
    BY DEF PInv, ArgsOK
  <2>2. /\ Append(args, v) \in Seq(Seq(Byte)) /\ Len(Append(args, v)) = Len(args) + 1
        /\ Append(args, v)[Len(args) + 1] = v
        /\ \A j \in 1..Len(args) : Append(args, v)[j] = args[j]
    BY <2>1, <1>3
  <2> QED BY <1>1, <1>2, <1>4, <2>1, <2>2 DEF ArgsOK, kind
<1>6. /\ buf' \in Seq(Byte)
      /\ Len(buf') = Len(buf) + Len(head) + Len(body)
      /\ Len(buf) \in Nat /\ Len(head) \in Nat /\ Len(body) \in Nat
  BY <1>2, <1>3 DEF PInv, head, body
<1>7. alloc' \in Nat
  BY <1>2, <1>6, PackerConstantsOK DEF Grown, PInv, head, body
<1>8. Fits => Fits'
  <2> SUFFICES ASSUME Len(buf) <= alloc PROVE Len(buf') <= alloc'
    BY DEF Fits
  <2> DEFINE a == Grown(alloc, Len(buf), Len(head))
  <2>1. a \in Nat /\ Len(buf) + Len(head) <= a
    BY <1>6, GrownHasRoom DEF PInv
  <2> HIDE DEF a
  <2>2. Len(buf) + Len(head) + Len(body) <= Grown(a, Len(buf) + Len(head), Len(body))
    BY <1>6, <2>1, GrownHasRoom
  <2> QED BY <1>2, <1>6, <2>2 DEF a, head, body
<1>9. phase = "pack"
  BY DEF Pack
<1> QED BY <1>4, <1>5, <1>6, <1>7, <1>8, <1>9 DEF PInv, ReaderOK

\* The record is handed to its reader.
LEMMA StoreStep ==
  ASSUME PInv, Store
  PROVE  PInv'
<1>1. /\ UNCHANGED <<fmt, args, buf, alloc, pos, out, resto>>
      /\ phase' = "unpack" /\ phase = "pack" /\ Len(args) = Len(fmt)
  BY DEF Store, packing
<1>2. fmt \in Seq(DOMAIN Values) /\ Len(fmt) \in Nat
  BY PackerConstantsOK DEF PInv
<1>3. /\ reader' \in Seq(DOMAIN Values)
      /\ \A j \in 1..Len(reader') : j <= Len(fmt) => reader'[j] = fmt[j]
  <2>1. CASE \E more \in Added : reader' = fmt \o more
    <3>1. PICK more \in Added : reader' = fmt \o more
      BY <2>1
    <3>2. more \in Seq(DOMAIN Values)
      BY PackerConstantsOK
    <3> QED BY <1>2, <3>1, <3>2
  <2>2. CASE fmt = TypeFormat /\ reader' = NameFormat
    <3>1. /\ Len(TypeFormat) = 3 /\ TypeFormat[1] = "i" /\ TypeFormat[2] = "s"
          /\ Len(NameFormat) = 2 /\ NameFormat[1] = "i" /\ NameFormat[2] = "s"
      BY DEF TypeFormat, NameFormat
    <3>2. "i" \in DOMAIN Values /\ "s" \in DOMAIN Values
      <4>1. TypeFormat \in Seq(DOMAIN Values)
        BY <1>2, <2>2
      <4>2. TypeFormat[1] \in DOMAIN Values /\ TypeFormat[2] \in DOMAIN Values
        BY <3>1, <4>1
      <4> QED BY <3>1, <4>2
    <3>3. reader' \in Seq(DOMAIN Values)
      BY <2>2, <3>2 DEF NameFormat
    <3> QED BY <2>2, <3>1, <3>3
  <2> QED BY <2>1, <2>2 DEF Store
<1>4. ArgsOK'
  BY <1>1 DEF PInv, ArgsOK
<1>5. out = <<>> /\ resto = 0 /\ pos = 0 /\ Len(out) = 0 /\ Len(reader') \in Nat
  BY <1>1, <1>3 DEF PInv, ReaderOK
<1> QED BY <1>1, <1>3, <1>4, <1>5 DEF PInv, ReaderOK

\* binary_unpack sets one more value and stays in the record.
LEMMA ReadOne ==
  ASSUME PInv, NEW v \in Seq(Byte) \cup {Null}, NEW n \in Nat, pos + n <= Len(buf) + 1,
         phase = "unpack", Len(out) < Len(reader), Took(v, n) \/ Missed(v, n)
  PROVE  PInv'
<1>1. /\ UNCHANGED <<phase, fmt, args, buf, alloc, reader>>
      /\ out' = Append(out, v) /\ pos' = pos + n
      /\ resto' = resto \/ resto' = resto + 1
  BY DEF Took, Missed, packing
<1>2. /\ out' \in Seq(Seq(Byte) \cup {Null}) /\ Len(out') = Len(out) + 1
      /\ Len(out) \in Nat /\ Len(reader) \in Nat /\ Len(buf) \in Nat
  BY <1>1 DEF PInv, ReaderOK
<1>3. ArgsOK'
  BY <1>1 DEF PInv, ArgsOK
<1>4. ReaderOK'
  BY <1>1 DEF PInv, ReaderOK
<1>5. pos' \in Nat /\ pos' <= Len(buf') + 1
  BY <1>1 DEF PInv
<1>6. resto' \in Nat /\ resto' <= Len(out') /\ Len(out') <= Len(reader')
  BY <1>1, <1>2 DEF PInv
<1> QED BY <1>1, <1>2, <1>3, <1>4, <1>5, <1>6 DEF PInv

\* The defaults are bytes or NULL.
LEMMA ZeroType == \A kind : Zero(kind) \in Seq(Byte) \cup {Null}
<1>1. 0 \in Byte
  BY SMT DEF Byte
<1>2. \A kind : Zero(kind) \in {<<0>>, <<0, 0, 0, 0>>, <<0, 0, 0, 0, 0, 0, 0, 0>>, Null}
  BY DEF Zero
<1>3. <<0>> \in Seq(Byte) /\ <<0, 0, 0, 0>> \in Seq(Byte)
  BY <1>1
<1>4. <<0, 0, 0, 0, 0, 0, 0, 0>> \in Seq(Byte)
  BY <1>1
<1> QED BY <1>2, <1>3, <1>4

\* A part of the record is a sequence of bytes.
LEMMA PartOfRecord ==
  ASSUME buf \in Seq(Byte), NEW a \in Nat, NEW b \in Nat, a >= 1, b <= Len(buf)
  PROVE  SubSeq(buf, a, b) \in Seq(Byte)
OBVIOUS

\* The steps of binary_unpack.
LEMMA NumberStep ==
  ASSUME PInv, NEW kind \in DOMAIN Width, Number(kind)
  PROVE  PInv'
<1> DEFINE n == Width[kind]
<1>1. /\ phase = "unpack" /\ Len(out) < Len(reader)
      /\ pos \in Nat /\ pos <= Len(buf) + 1 /\ buf \in Seq(Byte) /\ Len(buf) \in Nat
  BY DEF Number, Reads, PInv
<1>2. n \in Nat
  BY DEF Width
<1> HIDE DEF n
<1>3. CASE Missed(Zero(kind), 0)
  <2>1. Zero(kind) \in Seq(Byte) \cup {Null} /\ pos + 0 <= Len(buf) + 1
    BY <1>1, ZeroType
  <2> QED BY <1>1, <1>3, <2>1, ReadOne
<1>4. CASE HasRoom(n) /\ Took(Widened(kind, SubSeq(buf, pos + 1, pos + n)), n)
  <2>1. pos + n <= Len(buf)
    BY <1>1, <1>2, <1>4 DEF HasRoom, Left
  <2>2. SubSeq(buf, pos + 1, pos + n) \in Seq(Byte)
    BY <1>1, <1>2, <2>1, PartOfRecord
  <2>3. Widened(kind, SubSeq(buf, pos + 1, pos + n)) \in Seq(Byte)
    <3>1. 0 \in Byte
      BY SMT DEF Byte
    <3>2. <<0, 0>> \in Seq(Byte)
      BY <3>1
    <3> QED BY <2>2, <3>2 DEF Widened
  <2> QED BY <1>1, <1>2, <1>4, <2>1, <2>3, ReadOne
<1> QED BY <1>3, <1>4 DEF Number, n

LEMMA StringStep ==
  ASSUME PInv, String
  PROVE  PInv'
<1>1. /\ phase = "unpack" /\ Len(out) < Len(reader)
      /\ pos \in Nat /\ pos <= Len(buf) + 1 /\ buf \in Seq(Byte) /\ Len(buf) \in Nat
  BY DEF String, Reads, PInv
<1>2. CASE Missed(Null, 0)
  BY <1>1, <1>2, ReadOne
<1>3. CASE \E n \in Strlens(pos) : Took(SubSeq(buf, pos + 1, pos + n), n + 1)
  <2>1. PICK n \in Strlens(pos) : Took(SubSeq(buf, pos + 1, pos + n), n + 1)
    BY <1>3
  <2>2. n \in Nat /\ n + 1 \in Nat /\ pos + n + 1 <= Len(buf)
    BY <1>1, <2>1 DEF Strlens
  <2>3. SubSeq(buf, pos + 1, pos + n) \in Seq(Byte)
    BY <1>1, <2>2, PartOfRecord
  <2>4. pos + (n + 1) <= Len(buf) + 1
    BY <1>1, <2>2
  <2> QED BY <1>1, <2>1, <2>2, <2>3, <2>4, ReadOne
<1>4. CASE Left >= 0 /\ Took(SubSeq(buf, pos + 1, Len(buf)), Left + 1)
  <2> DEFINE n == Left + 1
  <2>1. n \in Nat /\ pos + n <= Len(buf) + 1
    BY <1>1, <1>4 DEF Left
  <2>2. SubSeq(buf, pos + 1, Len(buf)) \in Seq(Byte)
    BY <1>1, PartOfRecord
  <2>3. Took(SubSeq(buf, pos + 1, Len(buf)), n)
    BY <1>4
  <2> HIDE DEF n
  <2> QED BY <1>1, <2>1, <2>2, <2>3, ReadOne
<1> QED BY <1>2, <1>3, <1>4 DEF String

LEMMA BlobStep ==
  ASSUME PInv, Blob
  PROVE  PInv'
<1> DEFINE n == Int32(pos)
<1>1. /\ phase = "unpack" /\ Len(out) < Len(reader)
      /\ pos \in Nat /\ pos <= Len(buf) + 1 /\ buf \in Seq(Byte) /\ Len(buf) \in Nat
  BY DEF Blob, Reads, PInv
<1>2. CASE Missed(Null, 0) \/ Took(Null, 0)
  BY <1>1, <1>2, ReadOne
<1>3. ASSUME HasRoom(4) PROVE n \in Nat
  <2>1. pos + 4 <= Len(buf)
    BY <1>1, <1>3 DEF HasRoom, Left
  <2>2. \A b \in Byte : b \in Nat
    BY SMT DEF Byte
  <2>3. \A j \in 1..4 : buf[pos + j] \in Nat
    BY <1>1, <2>1, <2>2
  <2> QED BY <2>3, SMT DEF Int32
<1> HIDE DEF n
<1>4. CASE HasRoom(4) /\ Missed(Null, 4)
  BY <1>1, <1>4, ReadOne DEF HasRoom, Left
<1>5. CASE HasRoom(4) /\ HasRoom(4 + n) /\ Took(SubSeq(buf, pos + 5, pos + 4 + n), 4 + n)
  <2>1. n \in Nat /\ 4 + n \in Nat /\ pos + 4 + n <= Len(buf)
    BY <1>1, <1>3, <1>5 DEF HasRoom, Left
  <2>2. SubSeq(buf, pos + 5, pos + 4 + n) \in Seq(Byte)
    BY <1>1, <2>1, PartOfRecord
  <2>3. pos + (4 + n) <= Len(buf) + 1
    BY <1>1, <2>1
  <2> QED BY <1>1, <1>5, <2>1, <2>2, <2>3, ReadOne
<1> QED BY <1>2, <1>4, <1>5 DEF Blob, n

LEMMA ReturnStep ==
  ASSUME PInv, Return
  PROVE  PInv'
BY DEF Return, packing, unpacking, PInv, ArgsOK, ReaderOK

\* No step of binary_unpack writes.
LEMMA ReadersDoNotWrite ==
  Store \/ String \/ Blob \/ Return \/ (\E kind \in DOMAIN Width : Number(kind))
    => UNCHANGED packing
BY DEF Store, String, Blob, Return, Number, Took, Missed

LEMMA PInvStep ==
  ASSUME PInv, [Next]_vars
  PROVE  PInv'
<1>1. CASE UNCHANGED vars
  BY <1>1 DEF vars, packing, unpacking, PInv, ArgsOK, ReaderOK
<1>2. CASE \E kind \in DOMAIN Width : Number(kind)
  BY <1>2, NumberStep
<1> QED BY <1>1, <1>2, PackStep, StoreStep, StringStep, BlobStep, ReturnStep DEF Next

LEMMA PackerInvariant == Spec => []PInv
<1>1. Init => PInv
  BY PInvInit
<1>2. PInv /\ [Next]_vars => PInv'
  BY PInvStep
<1> QED BY <1>1, <1>2, PTL DEF Spec

\* The type invariant of Packer: the pointer of binary_unpack never moves more
\* than one byte past the record, and no more fields are missing than were asked.
THEOREM PackerTypes == Spec => []TypeOK
<1>1. PInv => TypeOK
  <2> SUFFICES ASSUME PInv PROVE TypeOK
    OBVIOUS
  <2>1. fmt \in Seq(DOMAIN Values) /\ Len(buf) \in Nat /\ Len(reader) \in Nat /\ Len(out) \in Nat
    BY PackerConstantsOK DEF PInv, ReaderOK
  <2> QED BY <2>1 DEF PInv, ArgsOK, TypeOK
<1> QED BY <1>1, PackerInvariant, PTL

\* binary_pack never writes past its allocation, whatever is packed and whatever
\* ALLOC_SIZE is: ADDDATA and ADDBIN grow it enough before they write.
THEOREM NeverOverflows == Spec => []Fits
<1>1. Init => Fits
  <2>1. Len(<<>>) = 0
    OBVIOUS
  <2> QED BY <2>1, PackerConstantsOK DEF Init, Fits
<1>2. PInv /\ Fits /\ [Next]_vars => Fits'
  <2> SUFFICES ASSUME PInv, Fits, [Next]_vars PROVE Fits'
    OBVIOUS
  <2>1. CASE UNCHANGED packing
    BY <2>1 DEF packing, Fits
  <2>2. UNCHANGED vars => UNCHANGED packing
    BY DEF vars
  <2> QED BY <2>1, <2>2, PackStep, ReadersDoNotWrite DEF Next
<1> QED BY <1>1, <1>2, PackerInvariant, PTL DEF Spec

(***************************************************************************)
(* What is packed comes back.  The argument: there is a list of offsets at *)
(* which the pieces of the arguments lie in the record, and the pointer of *)
(* binary_unpack is at the offset of the field it reads next.              *)
(***************************************************************************)
Piece(j) == Header(fmt[j], args[j]) \o Body(fmt[j], args[j])

Layout(off) ==
  /\ off \in [0..Len(args) -> Nat]
  /\ off[0] = 0 /\ off[Len(args)] = Len(buf)
  /\ \A j \in 1..Len(args) :
       /\ off[j] = off[j - 1] + Len(Piece(j)) /\ off[j] <= Len(buf)
       /\ \A i \in 1..Len(Piece(j)) : buf[off[j - 1] + i] = Piece(j)[i]

Reading(off) ==
  /\ Len(out) <= Len(args) => pos = off[Len(out)] /\ resto = 0
  /\ \A j \in 1..Len(out) : j <= Len(args) => out[j] = Given(fmt[j], args[j])

RInv ==
  /\ \E off : Layout(off) /\ Reading(off)
  /\ phase = "done" => Len(out) = Len(reader)

\* The four bytes of a length give the length.
LEMMA Digits ==
  ASSUME NEW n \in Nat, n <= INT_MAX
  PROVE  (n % 256) + 256 * (((n \div 256) % 256)
           + 256 * (((n \div (256 * 256)) % 256)
           + 256 * ((n \div (256 * 256 * 256)) % 256))) = n
BY SMT DEF INT_MAX

\* A part of a sequence that has the elements of s is s.
LEMMA SubSeqIs ==
  ASSUME NEW b \in Seq(Byte), NEW s \in Seq(Byte), NEW p \in Nat, p + Len(s) <= Len(b),
         \A i \in 1..Len(s) : b[p + i] = s[i]
  PROVE  SubSeq(b, p + 1, p + Len(s)) = s
<1>1. p + 1 \in Nat /\ p + Len(s) \in Nat /\ Len(s) \in Nat
  OBVIOUS
<1>2. SubSeq(b, p + 1, p + Len(s)) \in Seq(Byte) /\ Len(SubSeq(b, p + 1, p + Len(s))) = Len(s)
  BY <1>1
<1>3. \A i \in 1..Len(s) : SubSeq(b, p + 1, p + Len(s))[i] = s[i]
  BY <1>1
<1> QED BY <1>2, <1>3

\* Where the elements of a concatenation are.
LEMMA Concatenation ==
  ASSUME NEW b \in Seq(Byte), NEW h \in Seq(Byte), NEW c \in Seq(Byte)
  PROVE  /\ h \o c \in Seq(Byte)
         /\ Len(b \o h \o c) = Len(b) + Len(h \o c)
         /\ \A i \in 1..Len(b) : (b \o h \o c)[i] = b[i]
         /\ \A i \in 1..Len(h \o c) : (b \o h \o c)[Len(b) + i] = (h \o c)[i]
OBVIOUS

\* The pieces of the arguments are bytes.
LEMMA PiecesAreBytes ==
  ASSUME PInv, NEW j \in 1..Len(args)
  PROVE  /\ fmt[j] \in DOMAIN Values /\ args[j] \in Values[fmt[j]]
         /\ args[j] \in Seq(Byte) /\ Piece(j) \in Seq(Byte)
<1>1. fmt \in Seq(DOMAIN Values) /\ j \in 1..Len(fmt)
  BY PackerConstantsOK DEF PInv, ArgsOK
<1>2. fmt[j] \in DOMAIN Values /\ args[j] \in Values[fmt[j]]
  BY <1>1 DEF PInv, ArgsOK
<1>3. /\ args[j] \in Seq(Byte)
      /\ Header(fmt[j], args[j]) \in Seq(Byte) /\ Body(fmt[j], args[j]) \in Seq(Byte)
  BY <1>2, PieceType
<1> QED BY <1>2, <1>3 DEF Piece

\* binary_pack puts the piece of its argument behind the others.
LEMMA PackKeepsLayout ==
  ASSUME PInv, RInv, Pack
  PROVE  RInv'
<1>0. PICK k : k = Len(args) + 1
  OBVIOUS
<1> DEFINE kind == fmt[k]
<1>1. PICK off : Layout(off) /\ Reading(off)
  BY DEF RInv
<1>2. /\ fmt \in Seq(DOMAIN Values) /\ Len(args) \in Nat /\ k \in 1..Len(fmt)
      /\ kind \in DOMAIN Values /\ args \in Seq(Seq(Byte)) /\ Len(buf) \in Nat
  BY <1>0, PackerConstantsOK DEF PInv, ArgsOK, Pack
<1>3. PICK v \in Values[kind] :
        /\ args' = Append(args, v)
        /\ buf' = buf \o Header(kind, v) \o Body(kind, v)
  BY <1>0 DEF Pack
<1> DEFINE piece == Header(kind, v) \o Body(kind, v)
<1>next. PICK next : next = [j \in 0..k |-> IF j < k THEN off[j] ELSE Len(buf')]
  OBVIOUS
<1>4. /\ v \in Seq(Byte) /\ Header(kind, v) \in Seq(Byte) /\ Body(kind, v) \in Seq(Byte)
      /\ buf \in Seq(Byte)
  BY <1>2, PieceType DEF PInv
<1>5. /\ piece \in Seq(Byte) /\ Len(piece) \in Nat
      /\ Len(buf') = Len(buf) + Len(piece)
      /\ \A i \in 1..Len(buf) : buf'[i] = buf[i]
      /\ \A i \in 1..Len(piece) : buf'[Len(buf) + i] = piece[i]
  BY <1>3, <1>4, Concatenation
<1>6. /\ UNCHANGED <<phase, fmt, reader, pos, out, resto>>
      /\ out = <<>> /\ pos = 0 /\ resto = 0 /\ phase = "pack" /\ Len(out) = 0
  BY DEF Pack, unpacking, PInv, ReaderOK
<1>7. /\ Len(args') = k /\ args'[k] = v
      /\ \A j \in 1..Len(args) : args'[j] = args[j]
  BY <1>0, <1>2, <1>3, <1>4
<1>8. Piece(k)' = piece
  BY <1>6, <1>7 DEF Piece
<1>9. \A j \in 1..Len(args) : Piece(j)' = Piece(j) /\ Piece(j) \in Seq(Byte)
  BY <1>6, <1>7, PiecesAreBytes DEF Piece
<1> HIDE DEF piece
<1>10. Layout(next)'
  <2>1. next \in [0..Len(args') -> Nat] /\ next[0] = 0 /\ next[Len(args')] = Len(buf')
    BY <1>0, <1>1, <1>2, <1>5, <1>7, <1>next DEF Layout
  <2>2. ASSUME NEW j \in 1..Len(args)
        PROVE  /\ next[j] = next[j - 1] + Len(Piece(j)') /\ next[j] <= Len(buf')
               /\ \A i \in 1..Len(Piece(j)') : buf'[next[j - 1] + i] = Piece(j)'[i]
    <3>1. next[j] = off[j] /\ next[j - 1] = off[j - 1] /\ off[j] \in Nat /\ off[j - 1] \in Nat
      <4>1. j \in 0..k /\ j - 1 \in 0..k /\ j < k /\ j - 1 < k
        BY <1>0, <1>2
      <4>2. j \in 0..Len(args) /\ j - 1 \in 0..Len(args)
        BY <1>2
      <4>3. off \in [0..Len(args) -> Nat]
        BY <1>1 DEF Layout
      <4>4. next[j] = off[j] /\ next[j - 1] = off[j - 1]
        BY <1>next, <4>1
      <4> QED BY <4>2, <4>3, <4>4
    <3>2. /\ off[j] = off[j - 1] + Len(Piece(j)) /\ off[j] <= Len(buf)
          /\ \A i \in 1..Len(Piece(j)) : buf[off[j - 1] + i] = Piece(j)[i]
      BY <1>1 DEF Layout
    <3>3. \A i \in 1..Len(Piece(j)) : off[j - 1] + i \in 1..Len(buf)
      BY <1>0, <1>2, <1>9, <3>1, <3>2
    <3>4. Piece(j)' = Piece(j) /\ Len(Piece(j)) \in Nat
      BY <1>9
    <3>5. \A i \in 1..Len(Piece(j)) : buf'[off[j - 1] + i] = buf[off[j - 1] + i]
      BY <1>5, <3>3
    <3>6. off[j] <= Len(buf')
      BY <1>2, <1>5, <3>1, <3>2
    <3> QED BY <3>1, <3>2, <3>4, <3>5, <3>6
  <2>3. /\ next[k] = next[k - 1] + Len(piece) /\ next[k] <= Len(buf')
        /\ \A i \in 1..Len(piece) : buf'[next[k - 1] + i] = piece[i]
    <3>1. next[k] = Len(buf') /\ next[k - 1] = Len(buf)
      BY <1>0, <1>1, <1>2, <1>next DEF Layout
    <3> QED BY <1>2, <1>5, <3>1
  <2>4. \A j \in 1..Len(args') : j \in 1..Len(args) \/ j = k
    BY <1>0, <1>2, <1>7
  <2> QED BY <1>8, <2>1, <2>2, <2>3, <2>4 DEF Layout
<1>11. Reading(next)'
  <2>1. next[0] = 0
    BY <1>0, <1>1, <1>2, <1>next DEF Layout
  <2> QED BY <1>2, <1>6, <2>1 DEF Reading
<1> QED BY <1>6, <1>10, <1>11 DEF RInv

\* The pointer is at a piece: what the reader finds there.
LEMMA AtPiece ==
  ASSUME PInv, NEW off, Layout(off), Reading(off),
         phase = "unpack", Len(out) < Len(reader), Len(out) < Len(args),
         NEW k, k = Len(out) + 1
  PROVE  /\ k \in 1..Len(args) /\ reader[k] = fmt[k] /\ resto = 0
         /\ off[k] = pos + Len(Piece(k)) /\ pos + Len(Piece(k)) <= Len(buf)
         /\ \A i \in 1..Len(Piece(k)) : buf[pos + i] = Piece(k)[i]
<1>1. /\ Len(out) \in Nat /\ Len(args) \in Nat /\ Len(reader) \in Nat
      /\ Len(args) = Len(fmt) /\ k \in 1..Len(args) /\ k \in 1..Len(reader) /\ k <= Len(fmt)
  BY DEF PInv, ArgsOK, ReaderOK
<1>2. reader[k] = fmt[k]
  BY <1>1 DEF PInv, ReaderOK
<1>3. pos = off[Len(out)] /\ resto = 0 /\ k - 1 = Len(out)
  BY <1>1 DEF Reading
<1> QED BY <1>1, <1>2, <1>3 DEF Layout

\* The value of the argument was read and the pointer moved over its piece.
LEMMA ReadPiece ==
  ASSUME PInv, NEW off, Layout(off), Reading(off),
         phase = "unpack", Len(out) < Len(reader), Len(out) < Len(args),
         NEW k, k = Len(out) + 1,
         Took(Given(fmt[k], args[k]), Len(Piece(k)))
  PROVE  RInv'
<1>1. /\ UNCHANGED <<phase, fmt, args, buf, alloc, reader, resto>>
      /\ out' = Append(out, Given(fmt[k], args[k])) /\ pos' = pos + Len(Piece(k))
  BY DEF Took, packing
<1>2. /\ k \in 1..Len(args) /\ resto = 0 /\ off[k] = pos + Len(Piece(k))
  BY AtPiece
<1>3. /\ Len(out) \in Nat /\ Len(out') = k /\ out'[k] = Given(fmt[k], args[k])
      /\ \A j \in 1..Len(out) : out'[j] = out[j]
  BY <1>1 DEF PInv
<1>4. Layout(off)'
  BY <1>1 DEF Layout, Piece
<1>5. Reading(off)'
  <2>1. \A j \in 1..Len(out') : j \in 1..Len(out) \/ j = k
    BY <1>3
  <2>2. \A j \in 1..Len(out') : j <= Len(args) => out'[j] = Given(fmt[j], args[j])
    BY <1>3, <2>1 DEF Reading
  <2> QED BY <1>1, <1>2, <1>3, <2>2 DEF Reading
<1> QED BY <1>1, <1>4, <1>5 DEF RInv

\* Beyond the fields of the record nothing is said.
LEMMA ReadBeyond ==
  ASSUME PInv, RInv, NEW v, NEW n, phase = "unpack", ~(Len(out) < Len(args)),
         Took(v, n) \/ Missed(v, n)
  PROVE  RInv'
<1>1. PICK off : Layout(off) /\ Reading(off)
  BY DEF RInv
<1>2. /\ UNCHANGED <<phase, fmt, args, buf, alloc, reader>>
      /\ out' = Append(out, v)
  BY DEF Took, Missed, packing
<1>3. /\ Len(out) \in Nat /\ Len(args) \in Nat /\ Len(out') = Len(out) + 1
      /\ \A j \in 1..Len(out) : out'[j] = out[j]
  BY <1>2 DEF PInv, ArgsOK
<1>4. Layout(off)'
  BY <1>1, <1>2 DEF Layout, Piece
<1>5. Reading(off)'
  BY <1>1, <1>2, <1>3 DEF Reading
<1> QED BY <1>2, <1>4, <1>5 DEF RInv

\* An int or a long has the bytes that are stored of it.
LEMMA WidthFits ==
  ASSUME NEW kind \in {"c", "h", "i", "l"}, NEW v, ArgOK(kind, v)
  PROVE  /\ Width[kind] \in Nat /\ 1 <= Width[kind] /\ Width[kind] <= Len(v)
<1>1. CASE kind \in {"c", "h", "i"}
  <2>1. Width[kind] \in {1, 2, 4}
    BY <1>1 DEF Width
  <2>2. Len(v) = 4
    BY <1>1 DEF ArgOK
  <2> QED BY <2>1, <2>2
<1>4. CASE kind = "l"
  <2>1. Width[kind] = 8
    BY <1>4 DEF Width
  <2>2. Len(v) = 8
    BY <1>4 DEF ArgOK
  <2> QED BY <2>1, <2>2
<1> QED BY <1>1, <1>4

\* What is stored of a number gives the number.
LEMMA WidenedBack ==
  ASSUME Representable, NEW kind \in {"c", "h", "i", "l"}, kind \in DOMAIN Values,
         NEW v \in Values[kind], v \in Seq(Byte), ArgOK(kind, v)
  PROVE  Widened(kind, SubSeq(v, 1, Width[kind])) = Given(kind, v)
<1>1. CASE kind = "c"
  BY <1>1 DEF Width, Widened, Given
<1>2. CASE kind = "h"
  <2>1. Len(v) = 4 /\ v[3] = 0 /\ v[4] = 0 /\ Width[kind] = 2
    BY <1>2 DEF Width, ArgOK, Representable
  <2> DEFINE low == SubSeq(v, 1, 2)
             high == <<0, 0>>
  <2>2. low \in Seq(Byte) /\ Len(low) = 2 /\ low[1] = v[1] /\ low[2] = v[2]
    BY <2>1
  <2>3. high \in Seq(Byte) /\ Len(high) = 2 /\ high[1] = 0 /\ high[2] = 0
    <3>1. 0 \in Byte
      BY SMT DEF Byte
    <3> QED BY <3>1
  <2> HIDE DEF low, high
  <2>4. /\ low \o high \in Seq(Byte) /\ Len(low \o high) = 4
        /\ \A i \in 1..2 : (low \o high)[i] = low[i]
        /\ \A i \in 1..2 : (low \o high)[2 + i] = high[i]
    <3>1. /\ low \o high \in Seq(Byte) /\ Len(low \o high) = Len(low) + Len(high)
          /\ \A i \in 1..Len(low) : (low \o high)[i] = low[i]
          /\ \A i \in 1..Len(high) : (low \o high)[Len(low) + i] = high[i]
      <4>1. low \in Seq(Byte) /\ high \in Seq(Byte)
        BY <2>2, <2>3
      <4> QED BY <4>1
    <3> QED BY <2>2, <2>3, <3>1
  <2>5. \A i \in 1..4 : (low \o high)[i] = v[i]
    BY <2>1, <2>2, <2>3, <2>4
  <2>6. low \o high = v
    BY <2>1, <2>4, <2>5
  <2> QED BY <1>2, <2>1, <2>6 DEF Widened, Given, low, high
<1>3. CASE kind = "i"
  <2>1. Len(v) = 4 /\ Width[kind] = 4
    BY <1>3 DEF Width, ArgOK
  <2>2. SubSeq(v, 1, 4) = v
    BY <2>1
  <2> QED BY <1>3, <2>1, <2>2 DEF Widened, Given
<1>4. CASE kind = "l"
  <2>1. Width[kind] = 8
    BY <1>4 DEF Width
  <2>2. Len(v) = 8
    BY <1>4 DEF ArgOK
  <2>3. SubSeq(v, 1, 8) = v
    BY <2>2
  <2> QED BY <1>4, <2>1, <2>3 DEF Widened, Given
<1> QED BY <1>1, <1>2, <1>3, <1>4

\* A number comes back.
LEMMA NumberReads ==
  ASSUME Representable, PInv, RInv, NEW kind \in DOMAIN Width, Number(kind)
  PROVE  RInv'
<1>1. PICK off : Layout(off) /\ Reading(off)
  BY DEF RInv
<1>2. phase = "unpack" /\ Len(out) < Len(reader) /\ reader[Len(out) + 1] = kind
  BY DEF Number, Reads
<1>3. CASE ~(Len(out) < Len(args))
  BY <1>2, <1>3, ReadBeyond DEF Number
<1>4. CASE Len(out) < Len(args)
  <2>0. PICK k : k = Len(out) + 1
    OBVIOUS
  <2>1. /\ k \in 1..Len(args) /\ fmt[k] = kind /\ resto = 0
        /\ pos + Len(Piece(k)) <= Len(buf)
        /\ \A i \in 1..Len(Piece(k)) : buf[pos + i] = Piece(k)[i]
    BY <1>1, <1>2, <1>4, <2>0, AtPiece
  <2>2. PICK v : v = args[k]
    OBVIOUS
  <2>3. v \in Values[kind] /\ kind \in DOMAIN Values /\ Piece(k) \in Seq(Byte)
    BY <2>1, <2>2, PiecesAreBytes
  <2>4. v \in Seq(Byte) /\ ArgOK(kind, v)
    BY <2>3, PackerConstantsOK DEF ArgOK
  <2>5. kind \in {"c", "h", "i", "l"}
    BY DEF Width
  <2>6. PICK n \in Nat : n = Width[kind] /\ 1 <= n /\ n <= Len(v)
    BY <2>4, <2>5, WidthFits
  <2>7. Piece(k) = SubSeq(v, 1, n)
    <3>1. Header(fmt[k], args[k]) = <<>> /\ Body(fmt[k], args[k]) = SubSeq(v, 1, n)
      BY <2>1, <2>2, <2>5, <2>6 DEF Header, Body
    <3>2. SubSeq(v, 1, n) \in Seq(Byte)
      BY <2>4, <2>6
    <3> QED BY <3>1, <3>2 DEF Piece
  <2>8. Len(Piece(k)) = n
    BY <2>4, <2>6, <2>7
  <2>9. pos \in Nat /\ buf \in Seq(Byte)
    BY DEF PInv
  <2>10. SubSeq(buf, pos + 1, pos + n) = SubSeq(v, 1, n)
    BY <2>1, <2>3, <2>7, <2>8, <2>9, SubSeqIs
  <2>11. HasRoom(n)
    BY <2>1, <2>8, <2>9, <2>6 DEF HasRoom, Left
  <2>12. Took(Widened(kind, SubSeq(v, 1, n)), n)
    <3>1. ~(resto > 0)
      BY <2>1
    <3>2. Took(Widened(kind, SubSeq(buf, pos + 1, pos + n)), n)
      BY <2>6, <2>11, <3>1, Zenon DEF Number
    <3> QED BY <2>10, <3>2
  <2>13. Widened(kind, SubSeq(v, 1, n)) = Given(kind, v)
    BY <2>3, <2>4, <2>5, <2>6, WidenedBack
  <2>14. Took(Given(fmt[k], args[k]), Len(Piece(k)))
    BY <2>1, <2>2, <2>8, <2>12, <2>13
  <2> QED BY <1>1, <1>2, <1>4, <2>0, <2>14, ReadPiece
<1> QED BY <1>3, <1>4

\* A string comes back: its terminator is the first 0 of its piece.
LEMMA StringReads ==
  ASSUME PInv, RInv, String
  PROVE  RInv'
<1>1. PICK off : Layout(off) /\ Reading(off)
  BY DEF RInv
<1>2. phase = "unpack" /\ Len(out) < Len(reader) /\ reader[Len(out) + 1] = "s"
  BY DEF String, Reads
<1>3. CASE ~(Len(out) < Len(args))
  BY <1>2, <1>3, ReadBeyond DEF String
<1>4. CASE Len(out) < Len(args)
  <2>0. PICK k : k = Len(out) + 1
    OBVIOUS
  <2>1. /\ k \in 1..Len(args) /\ fmt[k] = "s" /\ resto = 0
        /\ pos + Len(Piece(k)) <= Len(buf)
        /\ \A i \in 1..Len(Piece(k)) : buf[pos + i] = Piece(k)[i]
    BY <1>1, <1>2, <1>4, <2>0, AtPiece
  <2>2. PICK v : v = args[k]
    OBVIOUS
  <2>3. v \in Values["s"] /\ "s" \in DOMAIN Values
    BY <2>1, <2>2, PiecesAreBytes
  <2>4. v \in Seq(Byte) /\ \A j \in 1..Len(v) : v[j] # 0
    BY <2>3, PackerConstantsOK DEF ArgOK
  <2>5. Piece(k) = Append(v, 0)
    <3>1. "s" \notin DOMAIN Width
      BY DEF Width
    <3>2. Header(fmt[k], args[k]) = <<>> /\ Body(fmt[k], args[k]) = Append(v, 0)
      BY <2>1, <2>2, <3>1 DEF Header, Body
    <3>3. Append(v, 0) \in Seq(Byte)
      <4>1. 0 \in Byte
        BY SMT DEF Byte
      <4> QED BY <2>4, <4>1
    <3> QED BY <3>2, <3>3 DEF Piece
  <2>6. /\ Len(v) \in Nat /\ Len(Piece(k)) = Len(v) + 1 /\ pos \in Nat
        /\ buf \in Seq(Byte) /\ Len(buf) \in Nat
    BY <2>4, <2>5 DEF PInv
  <2>7. /\ \A i \in 1..Len(v) : buf[pos + i] = v[i]
        /\ buf[pos + Len(v) + 1] = 0
    <3>1. /\ \A i \in 1..Len(v) : Append(v, 0)[i] = v[i]
          /\ Append(v, 0)[Len(v) + 1] = 0
      BY <2>4
    <3>2. \A i \in 1..(Len(v) + 1) : buf[pos + i] = Append(v, 0)[i]
      BY <2>1, <2>5, <2>6
    <3>3. buf[pos + (Len(v) + 1)] = 0
      BY <2>6, <3>1, <3>2
    <3>4. pos + (Len(v) + 1) = pos + Len(v) + 1
      BY <2>6
    <3> QED BY <2>6, <3>1, <3>2, <3>3, <3>4
  <2>8. Len(v) \in Strlens(pos)
    <3>1. Len(v) \in 0..(Len(buf) - pos - 1)
      BY <2>1, <2>6
    <3> QED BY <2>4, <2>7, <3>1 DEF Strlens
  <2>9. ASSUME NEW n \in Strlens(pos) PROVE n = Len(v)
    <3>1. n \in Nat /\ buf[pos + n + 1] = 0 /\ \A j \in 1..n : buf[pos + j] # 0
      BY <2>6 DEF Strlens
    <3>2. ~(n < Len(v))
      <4> SUFFICES ASSUME n < Len(v) PROVE FALSE
        OBVIOUS
      <4>1. n + 1 \in 1..Len(v) /\ pos + (n + 1) = pos + n + 1
        BY <2>6, <3>1
      <4> QED BY <2>4, <2>7, <3>1, <4>1
    <3>3. ~(n > Len(v))
      <4> SUFFICES ASSUME n > Len(v) PROVE FALSE
        OBVIOUS
      <4>1. Len(v) + 1 \in 1..n /\ pos + (Len(v) + 1) = pos + Len(v) + 1
        BY <2>6, <3>1
      <4> QED BY <2>7, <3>1, <4>1
    <3> QED BY <2>6, <3>1, <3>2, <3>3
  <2>10. Took(SubSeq(buf, pos + 1, pos + Len(v)), Len(v) + 1)
    BY <2>1, <2>8, <2>9 DEF String
  <2>11. SubSeq(buf, pos + 1, pos + Len(v)) = v
    <3>1. pos + Len(v) <= Len(buf)
      BY <2>1, <2>6
    <3> QED BY <2>4, <2>6, <2>7, <3>1, SubSeqIs
  <2>12. Given(fmt[k], args[k]) = v
    BY <2>1, <2>2 DEF Given
  <2> QED BY <1>1, <1>2, <1>4, <2>0, <2>6, <2>10, <2>11, <2>12, ReadPiece
<1> QED BY <1>3, <1>4

\* The length before a blob is that of the blob.
LEMMA LengthBack ==
  ASSUME NEW n \in Nat, n <= INT_MAX, NEW p \in Nat, \A i \in 1..4 : buf[p + i] = Len32(n)[i]
  PROVE  Int32(p) = n
<1>1. /\ buf[p + 1] = n % 256 /\ buf[p + 2] = (n \div 256) % 256
      /\ buf[p + 3] = (n \div (256 * 256)) % 256
      /\ buf[p + 4] = (n \div (256 * 256 * 256)) % 256
  BY DEF Len32
<1> QED BY <1>1, Digits DEF Int32

\* A blob comes back.
LEMMA BlobReads ==
  ASSUME Representable, PInv, RInv, Blob
  PROVE  RInv'
<1>1. PICK off : Layout(off) /\ Reading(off)
  BY DEF RInv
<1>2. phase = "unpack" /\ Len(out) < Len(reader) /\ reader[Len(out) + 1] = "b"
  BY DEF Blob, Reads
<1>3. CASE ~(Len(out) < Len(args))
  BY <1>2, <1>3, ReadBeyond DEF Blob
<1>4. CASE Len(out) < Len(args)
  <2>0. PICK k : k = Len(out) + 1
    OBVIOUS
  <2>1. /\ k \in 1..Len(args) /\ fmt[k] = "b" /\ resto = 0
        /\ pos + Len(Piece(k)) <= Len(buf)
        /\ \A i \in 1..Len(Piece(k)) : buf[pos + i] = Piece(k)[i]
    BY <1>1, <1>2, <1>4, <2>0, AtPiece
  <2>2. PICK v : v = args[k]
    OBVIOUS
  <2>3. v \in Values["b"] /\ "b" \in DOMAIN Values
    BY <2>1, <2>2, PiecesAreBytes
  <2>4. v \in Seq(Byte) /\ v # <<>> /\ Len(v) <= INT_MAX
    BY <2>3, PackerConstantsOK DEF ArgOK, Representable
  <2>5. Len(v) \in Nat /\ Len(v) > 0
    BY <2>4
  <2> DEFINE head == Len32(Len(v))
  <2>6. head \in Seq(Byte) /\ Len(head) = 4
    <3>1. Header("b", v) = head
      BY DEF Header
    <3>2. head \in Seq(Byte)
      BY <2>3, <3>1, PieceType
    <3>3. \A n : Len(Len32(n)) = 4
      BY SMT DEF Len32
    <3> QED BY <3>2, <3>3
  <2>7. Piece(k) = head \o v
    <3>1. "b" \notin DOMAIN Width
      BY DEF Width
    <3> QED BY <2>1, <2>2, <3>1 DEF Piece, Header, Body
  <2> HIDE DEF head
  <2>8. /\ head \o v \in Seq(Byte) /\ Len(head \o v) = 4 + Len(v)
        /\ \A i \in 1..4 : (head \o v)[i] = head[i]
        /\ \A i \in 1..Len(v) : (head \o v)[4 + i] = v[i]
    <3>1. /\ head \o v \in Seq(Byte) /\ Len(head \o v) = Len(head) + Len(v)
          /\ \A i \in 1..Len(head) : (head \o v)[i] = head[i]
          /\ \A i \in 1..Len(v) : (head \o v)[Len(head) + i] = v[i]
      <4>1. head \in Seq(Byte)
        BY <2>6
      <4> QED BY <2>4, <4>1
    <3> QED BY <2>6, <3>1
  <2>9. pos \in Nat /\ buf \in Seq(Byte) /\ Len(buf) \in Nat
    BY DEF PInv
  <2>10. /\ \A i \in 1..4 : buf[pos + i] = head[i]
         /\ \A i \in 1..Len(v) : buf[(pos + 4) + i] = v[i]
    <3>1. \A i \in 1..(4 + Len(v)) : buf[pos + i] = (head \o v)[i]
      BY <2>1, <2>7, <2>8
    <3>2. \A i \in 1..4 : i \in 1..(4 + Len(v))
      BY <2>5
    <3>3. \A i \in 1..Len(v) : 4 + i \in 1..(4 + Len(v)) /\ (pos + 4) + i = pos + (4 + i)
      BY <2>5, <2>9
    <3> QED BY <2>8, <3>1, <3>2, <3>3
  <2>11. Int32(pos) = Len(v)
    BY <2>4, <2>5, <2>9, <2>10, LengthBack DEF head
  <2>12. HasRoom(4) /\ HasRoom(4 + Len(v)) /\ pos + 4 + Len(v) <= Len(buf)
    BY <2>1, <2>5, <2>7, <2>8, <2>9 DEF HasRoom, Left
  <2>13. Took(SubSeq(buf, pos + 5, pos + 4 + Len(v)), 4 + Len(v))
    <3>1. ~(resto > 0) /\ Len(v) # 0
      BY <2>1, <2>5
    <3> QED BY <2>11, <2>12, <3>1, Zenon DEF Blob
  <2>14. SubSeq(buf, pos + 5, pos + 4 + Len(v)) = v
    <3>1. SubSeq(buf, (pos + 4) + 1, (pos + 4) + Len(v)) = v
      BY <2>4, <2>9, <2>10, <2>12, SubSeqIs
    <3>2. (pos + 4) + 1 = pos + 5
      BY <2>9
    <3> QED BY <3>1, <3>2
  <2>15. Given(fmt[k], args[k]) = v
    BY <2>1, <2>2, <2>4 DEF Given
  <2>16. Took(Given(fmt[k], args[k]), Len(Piece(k)))
    BY <2>7, <2>8, <2>13, <2>14, <2>15
  <2> QED BY <1>1, <1>2, <1>4, <2>0, <2>16, ReadPiece
<1> QED BY <1>3, <1>4

\* An empty record has an empty layout.
LEMMA RInvInit == Init => RInv
<1> SUFFICES ASSUME Init PROVE RInv
  OBVIOUS
<1>1. PICK off : off = [j \in 0..0 |-> 0]
  OBVIOUS
<1>2. Len(args) = 0 /\ Len(buf) = 0 /\ Len(out) = 0 /\ pos = 0 /\ resto = 0 /\ phase # "done"
  BY DEF Init
<1>3. Layout(off)
  BY <1>1, <1>2 DEF Layout
<1>4. Reading(off)
  BY <1>1, <1>2 DEF Reading
<1> QED BY <1>2, <1>3, <1>4 DEF RInv

\* A step that leaves the record and the reader's pointer alone.
LEMMA RInvKept ==
  ASSUME RInv, UNCHANGED <<packing, pos, out, resto>>, phase' = "done" => Len(out') = Len(reader')
  PROVE  RInv'
<1>1. PICK off : Layout(off) /\ Reading(off)
  BY DEF RInv
<1>2. Layout(off)'
  BY <1>1 DEF Layout, Piece, packing
<1>3. Reading(off)'
  BY <1>1 DEF Reading, packing
<1> QED BY <1>2, <1>3 DEF RInv

LEMMA RInvStep ==
  ASSUME Representable, PInv, RInv, [Next]_vars
  PROVE  RInv'
<1>1. CASE UNCHANGED vars
  BY <1>1, RInvKept DEF vars, packing, unpacking, RInv
<1>2. CASE Pack
  BY <1>2, PackKeepsLayout
<1>3. CASE Store
  BY <1>3, RInvKept DEF Store
<1>4. CASE Return
  BY <1>4, RInvKept DEF Return, unpacking
<1>5. CASE \E kind \in DOMAIN Width : Number(kind)
  BY <1>5, NumberReads
<1> QED BY <1>1, <1>2, <1>3, <1>4, <1>5, StringReads, BlobReads DEF Next

\* Whatever a record holds, with any number of fields of any length, each field
\* comes back as it was packed, and a reader that knows no newer fields is told
\* that nothing is missing: provided no blob is empty (binary_unpack does not
\* skip the length of one) and no int of more than 16 bits was packed with h.
THEOREM RecordsComeBack ==
  ASSUME Representable
  PROVE  Spec => []RoundTrip
<1>1. Init => RInv
  BY RInvInit
<1>2. PInv /\ RInv /\ [Next]_vars => RInv'
  BY RInvStep
<1>3. PInv /\ RInv => RoundTrip
  <2> SUFFICES ASSUME PInv, RInv, phase = "done" PROVE RoundTrip
    BY DEF RoundTrip
  <2>1. PICK off : Layout(off) /\ Reading(off)
    BY DEF RInv
  <2>2. /\ Len(out) = Len(reader) /\ Len(args) = Len(fmt)
        /\ Len(out) \in Nat /\ Len(args) \in Nat
    BY DEF PInv, RInv, ArgsOK, ReaderOK
  <2>3. \A j \in 1..Shorter(Len(args), Len(out)) : out[j] = Given(fmt[j], args[j])
    BY <2>1, <2>2 DEF Reading, Shorter
  <2>4. Len(reader) <= Len(fmt) => Result = 1
    BY <2>1, <2>2 DEF Reading, Result
  <2> QED BY <2>3, <2>4 DEF RoundTrip
<1> QED BY <1>1, <1>2, <1>3, PackerInvariant, PTL DEF Spec

(***************************************************************************)
(* Fields the record does not have.                                        *)
(***************************************************************************)
\* A string that is the first of them was read from the 0 behind the record.
Lucky == reader[Len(fmt) + 1] = "s" /\ out[Len(fmt) + 1] = <<>>

\* Every field behind the record is missing and counted, but for the lucky one, which
\* leaves the pointer where nothing can be read.
NInv ==
  phase # "pack" /\ Len(out) > Len(fmt) =>
    /\ \A j \in (Len(fmt) + 1)..Len(out) :
         out[j] = Zero(reader[j]) \/ (j = Len(fmt) + 1 /\ Lucky)
    /\ Lucky  => resto = Len(out) - Len(fmt) - 1 /\ pos = Len(buf) + 1
    /\ ~Lucky => resto = Len(out) - Len(fmt)

\* The reader has all the fields of the record: its pointer is at the end.
LEMMA AtEnd ==
  ASSUME PInv, RInv, phase # "pack", Len(out) = Len(fmt)
  PROVE  pos = Len(buf) /\ resto = 0
<1>1. PICK off : Layout(off) /\ Reading(off)
  BY DEF RInv
<1>2. Len(out) = Len(args) /\ Len(args) \in Nat
  BY DEF PInv, ReaderOK, ArgsOK
<1> QED BY <1>1, <1>2 DEF Layout, Reading

\* The types of what a field is read from.
LEMMA Readable ==
  ASSUME PInv
  PROVE  /\ Len(fmt) \in Nat /\ Len(out) \in Nat /\ Len(reader) \in Nat /\ Len(buf) \in Nat
         /\ pos \in Nat /\ resto \in Nat /\ <<>> # Null
         /\ \A v : LET o == Append(out, v)
                   IN Len(o) = Len(out) + 1 /\ o[Len(out) + 1] = v
                      /\ \A j \in 1..Len(out) : o[j] = out[j]
<1>1. fmt \in Seq(DOMAIN Values) /\ out \in Seq(Seq(Byte) \cup {Null})
      /\ reader \in Seq(DOMAIN Values) /\ buf \in Seq(Byte)
  BY PackerConstantsOK DEF PInv, ReaderOK
<1>2. <<>> # Null
  <2>1. Null \notin Seq(Byte)
    BY PackerConstantsOK
  <2>2. <<>> \in Seq(Byte)
    OBVIOUS
  <2> QED BY <2>1, <2>2
<1> QED BY <1>1, <1>2 DEF PInv

\* One more field is missing.
LEMMA MissedOneMore ==
  ASSUME PInv, RInv, NInv, phase = "unpack", Len(out) >= Len(fmt), Len(out) < Len(reader),
         Missed(Zero(reader[Len(out) + 1]), 0)
  PROVE  NInv'
<1> DEFINE v == Zero(reader[Len(out) + 1])
<1>1. /\ Len(fmt) \in Nat /\ Len(out) \in Nat /\ Len(buf) \in Nat /\ resto \in Nat /\ pos \in Nat
      /\ UNCHANGED <<phase, fmt, buf, reader>>
      /\ pos' = pos /\ resto' = resto + 1 /\ Len(out') = Len(out) + 1 /\ out'[Len(out) + 1] = v
      /\ \A j \in 1..Len(out) : out'[j] = out[j]
  BY Readable DEF Missed, packing
<1> HIDE DEF v
<1>2. CASE Len(out) = Len(fmt)
  <2>1. resto = 0
    BY <1>2, AtEnd
  <2>2. ~ Lucky'
    <3>1. reader[Len(out) + 1] = "s" => v = Null
      BY DEF v, Zero
    <3> QED BY <1>1, <1>2, <3>1, Readable DEF Lucky
  <2>3. \A j \in (Len(fmt') + 1)..Len(out') : j = Len(out) + 1
    BY <1>1, <1>2
  <2> QED BY <1>1, <1>2, <2>1, <2>2, <2>3 DEF NInv, v
<1>3. CASE Len(out) > Len(fmt)
  <2>1. Lucky' = Lucky
    <3>1. Len(fmt) + 1 \in 1..Len(out)
      BY <1>1, <1>3
    <3> QED BY <1>1, <3>1 DEF Lucky
  <2>2. ASSUME NEW j \in (Len(fmt') + 1)..Len(out')
        PROVE  out'[j] = Zero(reader'[j]) \/ (j = Len(fmt') + 1 /\ Lucky')
    <3>1. CASE j = Len(out) + 1
      BY <1>1, <3>1 DEF v
    <3>2. CASE j # Len(out) + 1
      <4>1. j \in (Len(fmt) + 1)..Len(out) /\ j \in 1..Len(out)
        BY <1>1, <3>2
      <4> QED BY <1>1, <1>3, <2>1, <4>1 DEF NInv
    <3> QED BY <3>1, <3>2
  <2>3. /\ Lucky  => resto = Len(out) - Len(fmt) - 1 /\ pos = Len(buf) + 1
        /\ ~Lucky => resto = Len(out) - Len(fmt)
    BY <1>3 DEF NInv
  <2> QED BY <1>1, <1>3, <2>1, <2>2, <2>3 DEF NInv
<1> QED BY <1>1, <1>2, <1>3

\* Nothing can be read behind the record.
LEMMA NothingLeft ==
  ASSUME PInv, RInv, NInv, phase = "unpack", Len(out) >= Len(fmt), resto = 0
  PROVE  /\ \A n \in Nat : n > 0 => ~ HasRoom(n)
         /\ Strlens(pos) = {}
         /\ Left >= 0 => Len(out) = Len(fmt) /\ pos = Len(buf)
<1>1. Len(fmt) \in Nat /\ Len(out) \in Nat /\ Len(buf) \in Nat
  BY Readable
<1>2. CASE Len(out) = Len(fmt)
  <2>1. pos = Len(buf)
    BY <1>2, AtEnd
  <2> QED BY <1>1, <1>2, <2>1 DEF HasRoom, Left, Strlens
<1>3. CASE Len(out) > Len(fmt)
  <2>1. pos = Len(buf) + 1
    BY <1>1, <1>3 DEF NInv
  <2> QED BY <1>1, <2>1 DEF HasRoom, Left, Strlens
<1> QED BY <1>1, <1>2, <1>3

\* A step inside the record is not about new fields.
LEMMA NotYet ==
  ASSUME PInv, NEW v, NEW n, Len(out) < Len(fmt), Took(v, n) \/ Missed(v, n)
  PROVE  NInv'
<1>1. Len(out') = Len(out) + 1 /\ Len(out) \in Nat /\ Len(fmt) \in Nat /\ UNCHANGED fmt
  BY Readable DEF Took, Missed, packing
<1> QED BY <1>1 DEF NInv

LEMMA NInvNumber ==
  ASSUME PInv, RInv, NInv, NEW kind \in DOMAIN Width, Number(kind)
  PROVE  NInv'
<1>1. /\ phase = "unpack" /\ Len(out) < Len(reader) /\ reader[Len(out) + 1] = kind
      /\ Len(fmt) \in Nat /\ Len(out) \in Nat /\ resto \in Nat
  BY Readable DEF Number, Reads
<1>2. CASE Len(out) < Len(fmt)
  BY <1>2, NotYet DEF Number
<1>3. CASE Len(out) >= Len(fmt)
  <2>1. Width[kind] \in {1, 2, 4, 8}
    BY DEF Width
  <2>2. resto > 0 \/ ~HasRoom(Width[kind])
    BY <1>1, <1>3, <2>1, NothingLeft
  <2>3. resto > 0 => resto # 0
    BY <1>1
  <2>4. Missed(Zero(kind), 0)
    BY <2>2, <2>3, Zenon DEF Number
  <2> QED BY <1>1, <1>3, <2>4, MissedOneMore
<1> QED BY <1>1, <1>2, <1>3

LEMMA NInvString ==
  ASSUME PInv, RInv, NInv, String
  PROVE  NInv'
<1>1. /\ phase = "unpack" /\ Len(out) < Len(reader) /\ reader[Len(out) + 1] = "s"
      /\ Len(fmt) \in Nat /\ Len(out) \in Nat /\ resto \in Nat /\ Len(buf) \in Nat
  BY Readable DEF String, Reads
<1>2. CASE Len(out) < Len(fmt)
  BY <1>2, NotYet DEF String
<1>3. CASE Len(out) >= Len(fmt) /\ Missed(Null, 0)
  <2>1. Zero("s") = Null
    BY DEF Zero
  <2> QED BY <1>1, <1>3, <2>1, MissedOneMore
<1>4. CASE Len(out) >= Len(fmt) /\ ~ Missed(Null, 0)
  <2>1. resto = 0
    BY <1>4 DEF String
  <2>2. Strlens(pos) = {}
    BY <1>1, <1>4, <2>1, NothingLeft
  <2>3. Took(SubSeq(buf, pos + 1, Len(buf)), Left + 1) /\ Left >= 0
    BY <1>4, <2>2 DEF String
  <2>4. Len(out) = Len(fmt) /\ pos = Len(buf)
    BY <1>1, <1>4, <2>1, <2>3, NothingLeft
  <2>5. SubSeq(buf, pos + 1, Len(buf)) = <<>> /\ Left = 0
    BY <1>1, <2>4 DEF Left, PInv
  <2>6. /\ UNCHANGED <<phase, fmt, buf, reader, resto>> /\ pos' = Len(buf) + 1
        /\ Len(out') = Len(out) + 1 /\ out'[Len(out) + 1] = <<>>
    BY <1>1, <2>3, <2>4, <2>5, Readable DEF Took, packing
  <2>7. Lucky'
    BY <1>1, <2>4, <2>6 DEF Lucky
  <2>8. \A j \in (Len(fmt') + 1)..Len(out') : j = Len(fmt') + 1
    BY <1>1, <2>4, <2>6
  <2> QED BY <1>1, <2>1, <2>4, <2>6, <2>7, <2>8 DEF NInv
<1> QED BY <1>1, <1>2, <1>3, <1>4

LEMMA NInvBlob ==
  ASSUME PInv, RInv, NInv, Blob
  PROVE  NInv'
<1>1. /\ phase = "unpack" /\ Len(out) < Len(reader) /\ reader[Len(out) + 1] = "b"
      /\ Len(fmt) \in Nat /\ Len(out) \in Nat /\ resto \in Nat
  BY Readable DEF Blob, Reads
<1>2. CASE Len(out) < Len(fmt)
  BY <1>2, NotYet DEF Blob
<1>3. CASE Len(out) >= Len(fmt)
  <2>1. resto > 0 \/ ~HasRoom(4)
    BY <1>1, <1>3, NothingLeft
  <2>2. resto > 0 => resto # 0
    BY <1>1
  <2>3. Missed(Null, 0)
    BY <2>1, <2>2, Zenon DEF Blob
  <2>4. Zero("b") = Null
    BY DEF Zero
  <2> QED BY <1>1, <1>3, <2>3, <2>4, MissedOneMore
<1> QED BY <1>1, <1>2, <1>3

LEMMA NInvStep ==
  ASSUME PInv, RInv, NInv, [Next]_vars
  PROVE  NInv'
<1>1. CASE UNCHANGED vars
  BY <1>1 DEF NInv, Lucky, vars, packing, unpacking
<1>2. CASE Pack
  BY <1>2 DEF Pack, NInv
<1>3. CASE Store
  <2>1. out' = <<>> /\ UNCHANGED fmt
    BY <1>3 DEF Store, PInv, ReaderOK, packing
  <2>2. Len(fmt) \in Nat
    BY Readable
  <2> QED BY <2>1, <2>2 DEF NInv
<1>4. CASE Return
  BY <1>4 DEF Return, NInv, Lucky, packing, unpacking
<1>5. CASE \E kind \in DOMAIN Width : Number(kind)
  BY <1>5, NInvNumber
<1> QED BY <1>1, <1>2, <1>3, <1>4, <1>5, NInvString, NInvBlob DEF Next

\* A newer reader of an older record finds its new fields zero and is told how many they
\* are, for any fields added: binary_unpack stops at the end of the record for good, but
\* for one string that may be read, empty, from the byte behind it.
THEOREM NewFieldsAreMissing ==
  ASSUME Representable
  PROVE  Spec => []NewFields
<1>1. Init => RInv /\ NInv
  BY RInvInit DEF Init, NInv
<1>2. PInv /\ RInv /\ NInv /\ [Next]_vars => RInv' /\ NInv'
  BY RInvStep, NInvStep
<1>3. PInv /\ RInv /\ NInv => NewFields
  <2> SUFFICES ASSUME PInv, RInv, NInv, phase = "done", Len(reader) > Len(fmt) PROVE NewFields
    BY DEF NewFields
  <2>1. /\ Len(out) = Len(reader) /\ Len(fmt) \in Nat /\ Len(reader) \in Nat /\ resto \in Nat
    BY Readable DEF RInv
  <2>2. /\ \A j \in (Len(fmt) + 1)..Len(out) :
             out[j] = Zero(reader[j]) \/ (j = Len(fmt) + 1 /\ Lucky)
        /\ Lucky  => resto = Len(out) - Len(fmt) - 1
        /\ ~Lucky => resto = Len(out) - Len(fmt)
    BY <2>1 DEF NInv
  <2>3. Result = IF Lucky /\ Len(reader) = Len(fmt) + 1 THEN 1
                 ELSE Len(fmt) - Len(reader) + (IF Lucky THEN 1 ELSE 0)
    BY <2>1, <2>2 DEF Result
  <2> QED BY <2>1, <2>2, <2>3 DEF NewFields, Lucky
<1> QED BY <1>1, <1>2, <1>3, PackerInvariant, PTL DEF Spec

(***************************************************************************)
(* The index of users reads the record without unpacking it.               *)
(***************************************************************************)
LInv == \E off : Layout(off)

\* What the reader does not touch keeps its layout, and binary_pack extends it.
LEMMA LInvStep ==
  ASSUME PInv, LInv, [Next]_vars
  PROVE  LInv'
<1>1. PICK off : Layout(off)
  BY DEF LInv
<1>2. CASE UNCHANGED packing
  <2>1. Layout(off)'
    BY <1>1, <1>2 DEF Layout, Piece, packing
  <2> QED BY <2>1 DEF LInv
<1>3. CASE Pack
  <2>1. /\ phase = "pack" /\ out = <<>> /\ pos = 0 /\ resto = 0
    BY <1>3 DEF Pack, PInv, ReaderOK
  <2>2. RInv
    BY <1>1, <2>1 DEF RInv, Reading, Layout
  <2>3. RInv'
    BY <1>3, <2>2, PackKeepsLayout
  <2> QED BY <2>3 DEF RInv, LInv
<1>4. UNCHANGED vars => UNCHANGED packing
  BY DEF vars
<1> QED BY <1>2, <1>3, <1>4, ReadersDoNotWrite DEF Next

LEMMA NumberPiece ==
  ASSUME PInv, NEW j \in 1..Len(args), fmt[j] \in {"c", "i"}
  PROVE  Len(Piece(j)) = Width[fmt[j]] /\ Width[fmt[j]] \in Nat
<1>1. /\ fmt[j] \in DOMAIN Values /\ args[j] \in Values[fmt[j]] /\ args[j] \in Seq(Byte)
  BY PiecesAreBytes
<1>2. Len(args[j]) = 4
  BY <1>1, PackerConstantsOK DEF ArgOK
<1>3. /\ fmt[j] \in DOMAIN Width /\ Width[fmt[j]] \in {1, 4}
  BY DEF Width
<1>4. SubSeq(args[j], 1, Width[fmt[j]]) \in Seq(Byte)
      /\ Len(SubSeq(args[j], 1, Width[fmt[j]])) = Width[fmt[j]]
  BY <1>1, <1>2, <1>3
<1>5. Header(fmt[j], args[j]) = <<>> /\ Body(fmt[j], args[j]) = SubSeq(args[j], 1, Width[fmt[j]])
  BY <1>3 DEF Header, Body
<1> QED BY <1>3, <1>4, <1>5 DEF Piece

\* The code of a user of any length is found in the record at its fixed offset, up to its
\* terminator: the key of the index by code (userbin_get_code) is the code.
THEOREM CodesAreIndexed == Spec => []CodeIsIndexed
<1>1. Init => LInv
  BY RInvInit DEF RInv, LInv
<1>2. PInv /\ LInv /\ [Next]_vars => LInv'
  BY LInvStep
<1>3. PInv /\ LInv => CodeIsIndexed
  <2> SUFFICES ASSUME PInv, LInv, phase # "pack", fmt = UserFormat
               PROVE  \E n \in Strlens(CodeOffset) :
                        SubSeq(buf, CodeOffset + 1, CodeOffset + n) = args[3]
    BY DEF CodeIsIndexed
  <2>1. PICK off : Layout(off)
    BY DEF LInv
  <2>2. /\ Len(args) = 5 /\ fmt[1] = "i" /\ fmt[2] = "c" /\ fmt[3] = "s"
        /\ 1 \in 1..Len(args) /\ 2 \in 1..Len(args) /\ 3 \in 1..Len(args)
    <3>1. Len(args) = Len(fmt)
      BY DEF PInv, ReaderOK
    <3>2. Len(UserFormat) = 5 /\ UserFormat[1] = "i" /\ UserFormat[2] = "c" /\ UserFormat[3] = "s"
      BY DEF UserFormat
    <3> QED BY <3>1, <3>2
  <2>3. Len(Piece(1)) = 4 /\ Len(Piece(2)) = 1 /\ CodeOffset = 5
    <3>1. Width["i"] = 4 /\ Width["c"] = 1
      BY DEF Width
    <3>2. Len(Piece(1)) = Width["i"] /\ Len(Piece(2)) = Width["c"]
      BY <2>2, NumberPiece
    <3> QED BY <3>1, <3>2 DEF CodeOffset
  <2>4. off[2] = 5
    <3>1. off[0] = 0 /\ off[1] = off[1 - 1] + Len(Piece(1)) /\ off[2] = off[2 - 1] + Len(Piece(2))
      BY <2>1, <2>2 DEF Layout
    <3>2. off[1 - 1] = off[0] /\ off[2 - 1] = off[1] /\ 0 + 4 = 4 /\ 4 + 1 = 5
      OBVIOUS
    <3>3. off[1] = 4
      BY <2>3, <3>1, <3>2
    <3> QED BY <2>3, <3>1, <3>2, <3>3
  <2>5. PICK v : v = args[3]
    OBVIOUS
  <2>6. v \in Seq(Byte) /\ \A j \in 1..Len(v) : v[j] # 0
    <3>1. "s" \in DOMAIN Values /\ v \in Values["s"]
      BY <2>2, <2>5, PiecesAreBytes
    <3> QED BY <3>1, PackerConstantsOK DEF ArgOK
  <2>7. Piece(3) = Append(v, 0)
    <3>1. "s" \notin DOMAIN Width
      BY DEF Width
    <3>2. Header(fmt[3], args[3]) = <<>> /\ Body(fmt[3], args[3]) = Append(v, 0)
      BY <2>2, <2>5, <3>1 DEF Header, Body
    <3>3. Append(v, 0) \in Seq(Byte)
      <4>1. 0 \in Byte
        BY SMT DEF Byte
      <4> QED BY <2>6, <4>1
    <3> QED BY <3>2, <3>3 DEF Piece
  <2>8. /\ Len(v) \in Nat /\ Len(Piece(3)) = Len(v) + 1 /\ buf \in Seq(Byte) /\ Len(buf) \in Nat
    BY <2>6, <2>7 DEF PInv
  <2>9. /\ 5 + (Len(v) + 1) <= Len(buf)
        /\ \A i \in 1..(Len(v) + 1) : buf[5 + i] = Append(v, 0)[i]
    <3>1. /\ off[3] = off[3 - 1] + Len(Piece(3)) /\ off[3] <= Len(buf)
          /\ \A i \in 1..Len(Piece(3)) : buf[off[3 - 1] + i] = Piece(3)[i]
      BY <2>1, <2>2 DEF Layout
    <3>2. off[3 - 1] = 5
      BY <2>4
    <3> QED BY <2>7, <2>8, <3>1, <3>2
  <2>10. /\ \A i \in 1..Len(v) : buf[5 + i] = v[i]
         /\ buf[5 + Len(v) + 1] = 0
    <3>1. /\ \A i \in 1..Len(v) : Append(v, 0)[i] = v[i]
          /\ Append(v, 0)[Len(v) + 1] = 0
      BY <2>6
    <3>2. buf[5 + (Len(v) + 1)] = 0
      BY <2>8, <2>9, <3>1
    <3>3. 5 + (Len(v) + 1) = 5 + Len(v) + 1
      BY <2>8
    <3> QED BY <2>8, <2>9, <3>1, <3>2, <3>3
  <2>11. Len(v) \in Strlens(5)
    BY <2>6, <2>8, <2>9, <2>10 DEF Strlens
  <2>12. SubSeq(buf, 5 + 1, 5 + Len(v)) = v
    BY <2>6, <2>8, <2>9, <2>10, SubSeqIs
  <2> QED BY <2>3, <2>5, <2>11, <2>12
<1> QED BY <1>1, <1>2, <1>3, PackerInvariant, PTL DEF Spec
=============================================================================
