------------------------------- MODULE Packer -------------------------------
(***************************************************************************)
(* binary_pack and binary_unpack (common/packer.c): how every record of    *)
(* the database becomes bytes and comes back.  One behaviour packs one     *)
(* record, argument by argument, and unpacks it with the format of its     *)
(* reader.  A C value is the sequence of its bytes, the lowest one first.  *)
(***************************************************************************)
EXTENDS Integers, Sequences

CONSTANTS Values,       \* the arguments callers pass, by format character
          Formats,      \* the formats that are packed
          Added,        \* what newer readers expect after the stored fields
          AllocSize,    \* ALLOC_SIZE
          Null

VARIABLES phase,        \* "pack", "unpack" or "done"
          fmt, args,    \* the format, and the arguments packed so far
          buf, alloc,   \* the bytes written, the bytes allocated
          reader,       \* the format of the reader
          pos, out,     \* its pointer into buf, the values it has set
          resto         \* how many it could not set

packing   == <<fmt, args, buf, alloc>>
unpacking == <<reader, pos, out, resto>>
vars      == <<phase, packing, unpacking>>

Byte    == 0..255
INT_MAX == 2147483647

\* The bytes a number takes in the record.
Width == [c |-> 1, h |-> 2, i |-> 4, l |-> 8]

\* The formats of the server: game, session, user, game type, and the reader
\* of the index of game types by name.
GameFormat    == <<"s", "i", "i", "b", "s", "s", "s", "s", "c", "c", "i", "l", "l">>
SessionFormat == <<"b", "i", "l", "l", "l">>
UserFormat    == <<"i", "c", "s", "s", "b">>
TypeFormat    == <<"i", "s", "l">>
NameFormat    == <<"i", "s">>

\* An int has 4 bytes and a long 8; a char and a short are passed as int.  A 0
\* ends a string; the length of a blob is an int.
ArgOK(kind, v) ==
  /\ v \in Seq(Byte)
  /\ kind \in {"c", "h", "i"} => Len(v) = 4
  /\ kind = "l" => Len(v) = 8
  /\ kind = "s" => \A j \in DOMAIN v : v[j] # 0
  /\ kind = "b" => Len(v) <= INT_MAX

ASSUME PackerConstantsOK ==
  /\ AllocSize \in Nat
  /\ \A f \in Formats : f \in Seq(DOMAIN Values)
  /\ \A f \in Added : f \in Seq(DOMAIN Values)
  /\ DOMAIN Values \subseteq {"c", "h", "i", "l", "s", "b"}
  /\ \A kind \in DOMAIN Values : \A v \in Values[kind] : ArgOK(kind, v)
  /\ Null \notin Seq(Byte)

Init ==
  /\ phase = "pack"
  /\ fmt \in Formats
  /\ args = <<>> /\ buf = <<>> /\ alloc = AllocSize
  /\ reader = <<>> /\ pos = 0 /\ out = <<>> /\ resto = 0

(***************************************************************************)
(* binary_pack                                                             *)
(***************************************************************************)
\* Mutant of Grown: a datum longer than the step is forgotten.
GrownM(a, len, n) == IF len + n > a THEN a + AllocSize ELSE a

\* ADDDATA, ADDBIN: the allocation when n bytes are added to len.
Grown(a, len, n) ==
  IF len + n <= a THEN a
  ELSE IF len + n > a + AllocSize THEN a + n + AllocSize
  ELSE a + AllocSize

\* The 32 bits before a blob.
Len32(n) == <<n % 256, (n \div 256) % 256,
              (n \div (256 * 256)) % 256, (n \div (256 * 256 * 256)) % 256>>

Header(kind, v) == IF kind = "b" THEN Len32(Len(v)) ELSE <<>>

Body(kind, v) ==
  IF kind \in DOMAIN Width THEN SubSeq(v, 1, Width[kind])
  ELSE IF kind = "s" THEN Append(v, 0)
  ELSE v

\* One turn of the loop of binary_pack.
Pack ==
  /\ phase = "pack" /\ Len(args) < Len(fmt)
  /\ LET kind == fmt[Len(args) + 1]
     IN \E v \in Values[kind] :
          LET head == Header(kind, v)
              body == Body(kind, v)
          IN /\ args' = Append(args, v)
             /\ buf' = buf \o head \o body
             /\ alloc' = Grown(Grown(alloc, Len(buf), Len(head)), Len(buf) + Len(head), Len(body))
  /\ UNCHANGED <<phase, fmt, unpacking>>

\* The record is stored, and read with the same format, a newer one that adds
\* fields, or, for the key of an index, a shorter one.
Store ==
  /\ phase = "pack" /\ Len(args) = Len(fmt)
  /\ phase' = "unpack"
  /\ \/ \E more \in Added : reader' = fmt \o more
     \/ fmt = TypeFormat /\ reader' = NameFormat
  /\ UNCHANGED <<packing, pos, out, resto>>

(***************************************************************************)
(* binary_unpack                                                           *)
(***************************************************************************)
Left == Len(buf) - pos

\* Mutant of HasRoom: the comparison with last_byte is not strict.
HasRoomM(n) == Left > n

HasRoom(n) == Left >= n

\* The format character at hand.
Reads(kind) == phase = "unpack" /\ Len(out) < Len(reader) /\ reader[Len(out) + 1] = kind

\* A value was found and the pointer moves n bytes.
Took(v, n) ==
  /\ out' = Append(out, v)
  /\ pos' = pos + n
  /\ UNCHANGED <<phase, packing, reader, resto>>

\* Mutants of Missed: the pointer moves over what is not there; fields that
\* could not be set are not counted.
MissedMoves(v, n) ==
  /\ out' = Append(out, v)
  /\ pos' = pos + n + 2 /\ resto' = resto + 1
  /\ UNCHANGED <<phase, packing, reader>>
MissedOnce(v, n) ==
  /\ out' = Append(out, v)
  /\ pos' = pos + n /\ resto' = 1
  /\ UNCHANGED <<phase, packing, reader>>

\* No value: a default is set, and every later field is missing as well.
Missed(v, n) ==
  /\ out' = Append(out, v)
  /\ pos' = pos + n /\ resto' = resto + 1
  /\ UNCHANGED <<phase, packing, reader>>

Zero(kind) == CASE kind = "c" -> <<0>>
                [] kind \in {"h", "i"} -> <<0, 0, 0, 0>>
                [] kind = "l" -> <<0, 0, 0, 0, 0, 0, 0, 0>>
                [] OTHER -> Null

\* What the target of a number receives; 16 bits become an int without sign.
Widened(kind, bytes) == IF kind = "h" THEN bytes \o <<0, 0>> ELSE bytes

Number(kind) ==
  /\ Reads(kind)
  /\ LET n == Width[kind] IN
       \/ /\ resto = 0 /\ HasRoom(n)
          /\ Took(Widened(kind, SubSeq(buf, pos + 1, pos + n)), n)
       \/ /\ resto > 0 \/ ~HasRoom(n)
          /\ Missed(Zero(kind), 0)

\* strlen at offset p finds its terminator inside the record.
Strlens(p) == {n \in 0..(Len(buf) - p - 1) :
                 /\ buf[p + n + 1] = 0
                 /\ \A j \in 1..n : buf[p + j] # 0}

\* A string.  Without a terminator strlen leaves the record: if the next byte in
\* memory happens to be 0 the string is accepted, else it is missing.
String ==
  /\ Reads("s")
  /\ \/ /\ resto = 0
        /\ \E n \in Strlens(pos) : Took(SubSeq(buf, pos + 1, pos + n), n + 1)
     \/ /\ resto = 0 /\ Strlens(pos) = {} /\ Left >= 0
        /\ Took(SubSeq(buf, pos + 1, Len(buf)), Left + 1)
     \/ /\ resto > 0 \/ Strlens(pos) = {}
        /\ Missed(Null, 0)

Int32(p) ==
  buf[p + 1] + 256 * (buf[p + 2] + 256 * (buf[p + 3] + 256 * buf[p + 4]))

\* A blob.  Of an empty one the length is not skipped.
Blob ==
  /\ Reads("b")
  /\ \/ /\ resto > 0 \/ ~HasRoom(4)
        /\ Missed(Null, 0)
     \/ /\ resto = 0 /\ HasRoom(4)
        /\ LET n == Int32(pos) IN
             \/ n = 0 /\ Took(Null, 0)
             \/ n > 0 /\ ~HasRoom(4 + n) /\ Missed(Null, 4)
             \/ n > 0 /\ HasRoom(4 + n) /\ Took(SubSeq(buf, pos + 5, pos + 4 + n), 4 + n)

\* The loop ends.
Return ==
  /\ phase = "unpack" /\ Len(out) = Len(reader)
  /\ phase' = "done"
  /\ UNCHANGED <<packing, unpacking>>

\* What binary_unpack returns.
Result == IF resto > 0 THEN 0 - resto ELSE 1

Next == \/ Pack \/ Store \/ String \/ Blob \/ Return
        \/ \E kind \in DOMAIN Width : Number(kind)

Spec == Init /\ [][Next]_vars

\* Mutant of CodeOffset: the type of the user is forgotten.
CodeOffsetM == Width["i"]

\* userbin_get_code: where the code starts in the record of a user.
CodeOffset == Width["i"] + Width["c"]

(***************************************************************************)
(* Properties.                                                             *)
(***************************************************************************)
TypeOK ==
  /\ phase \in {"pack", "unpack", "done"}
  /\ fmt \in Formats
  /\ buf \in Seq(Byte) /\ alloc \in Nat
  /\ Len(args) <= Len(fmt)
  /\ Len(out) <= Len(reader) /\ resto \in 0..Len(reader)
  /\ pos \in 0..(Len(buf) + 1)

\* The bytes written fit in the bytes allocated (realloc of ADDDATA and ADDBIN).
Fits == Len(buf) <= alloc

\* What the reader's variable must hold for an argument.
Given(kind, v) ==
  IF kind = "c" THEN SubSeq(v, 1, 1)
  ELSE IF kind = "b" /\ v = <<>> THEN Null
  ELSE v

Shorter(m, n) == IF m < n THEN m ELSE n

\* No blob before the field j is empty.
NoneEmpty(j) == \A i \in 1..(j - 1) : ~(fmt[i] = "b" /\ args[i] = <<>>)

\* Every field that was packed comes back as it was, up to the first empty blob,
\* whose length is not skipped: binary_unpack "pone en cada puntero pasado como
\* parametro el valor que corresoponda" (packer.c:134); and a reader that asks for
\* no more than was packed gets 1 if there is none.
RoundTrip ==
  phase = "done" =>
    /\ \A j \in 1..Shorter(Len(args), Len(out)) :
         NoneEmpty(j) => out[j] = Given(fmt[j], args[j])
    /\ Len(reader) <= Len(fmt) /\ NoneEmpty(Len(fmt) + 1) => Result = 1

\* What the format characters can carry: no empty blob, no int of more than 16
\* bits where the format says h.
Representable ==
  \A kind \in DOMAIN Values : \A v \in Values[kind] :
    /\ kind = "b" => v # <<>>
    /\ kind = "h" => v[3] = 0 /\ v[4] = 0

\* Fields the record does not have are set to zero and counted in the result
\* ("Los ultimos n elementos no fueron seteados", packer.c:153).  A string as
\* first of them may be read, empty, past the end of the record.  An empty blob in
\* the record would give them what is left of the others.
NewFields ==
  (phase = "done" /\ Len(reader) > Len(fmt) /\ NoneEmpty(Len(fmt) + 1)) =>
    LET first == Len(fmt) + 1
        lucky == reader[first] = "s" /\ out[first] = <<>>
    IN /\ \A j \in first..Len(reader) :
            out[j] = Zero(reader[j]) \/ (j = first /\ lucky)
       /\ Result = IF lucky /\ Len(reader) = first THEN 1
                   ELSE Len(fmt) - Len(reader) + (IF lucky THEN 1 ELSE 0)

\* The key of the index of users by code, taken from the bytes of the record
\* without unpacking it, is the code that was packed.
CodeIsIndexed ==
  (phase # "pack" /\ fmt = UserFormat) =>
    \E n \in Strlens(CodeOffset) :
      SubSeq(buf, CodeOffset + 1, CodeOffset + n) = args[3]
=============================================================================
