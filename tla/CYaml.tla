------------------------------- MODULE CYaml -------------------------------
(***************************************************************************)
(* common/cJSON/cYAML.c: the same trees printed as YAML.                   *)
(***************************************************************************)
EXTENDS CJson

CONSTANT BinLine        \* characters of a line of base64: 50

ASSUME YamlConstants ==
  /\ BinLine \in Nat \ {0}
  /\ {"-", "!", "i", "a", "y", "|"} \subseteq Symbols

\* Mutant of Quoted: a line that ends inside of a string is taken for a plain one.
QuotedM(s) == \E i \in DOMAIN s : s[i] \in (Escapable \ {Newline}) \cup {"ctl"}

\* print_string_ptr: quotes only around a string with a character that is escaped.
Quoted(s)     == \E i \in DOMAIN s : s[i] \in Escapable \cup {"ctl"}
YamlString(s) == IF Quoted(s) THEN PrintString(s) ELSE s

YamlArray(entries, depth) ==
  IF entries = <<>> THEN <<"[", "]">>
  ELSE FlattenSeq([i \in DOMAIN entries |->
         <<Newline>> \o Repeat(2 * depth, Blank) \o <<"-", Blank>> \o entries[i]])

\* print_object; depth + 1 is its depth once it is incremented.
YamlObject(names, entries, depth) ==
  IF entries = <<>> THEN Repeat(2 * (depth - 1), Blank)
  ELSE (IF depth > 0 THEN <<Newline>> ELSE <<>>)
       \o FlattenSeq([i \in DOMAIN entries |->
            Repeat(2 * depth, Blank) \o <<names[i], ":", Blank>> \o entries[i]
            \o (IF i = Len(entries) THEN <<>> ELSE <<Newline>>)])

BinaryTag == <<"!", "!", "b", "i", "n", "a", "r", "y", Blank, "|", Newline>>

YamlBinary(data, depth) ==
  LET b64   == Encode(data)
      lines == (Len(b64) + BinLine - 1) \div BinLine
      line(i) == SubSeq(b64, BinLine * (i - 1) + 1,
                        IF BinLine * i < Len(b64) THEN BinLine * i ELSE Len(b64))
  IN BinaryTag \o FlattenSeq([i \in 1..lines |->
                    Repeat(2 * depth + 2, Blank) \o line(i) \o <<Newline>>])

YamlOf(item, entries, depth) ==
  CASE item.type = "string" -> YamlString(item.text)
    [] item.type = "number" -> item.text
    [] item.type = "binary" -> YamlBinary(item.data, depth)
    [] item.type = "array"  -> YamlArray(entries, depth)
    [] item.type = "object" -> YamlObject(NamesOf(item), entries, depth)
    [] item.type = "null"   -> <<>>
    [] OTHER                -> Keyword[item.type]

\* print_value
Yaml[item \in Trees] ==
  [depth \in Nat |->
     YamlOf(item, [i \in DOMAIN item.child |-> Yaml[item.child[i]][depth + 1]], depth)]

\* cJSON_Print_YAML
PrintYaml(item) == Yaml[item][0]

\* The bytes each of them allocates.
YamlArrayRoom(item, depth) ==
  IF item.child = <<>> THEN 3
  ELSE 5 + Total[[i \in DOMAIN item.child |->
                  Len(Yaml[item.child[i]][depth + 1]) + 2 + 3 * depth]]

YamlObjectRoom(item, depth) ==
  IF item.child = <<>> THEN 3 * depth + 4
  ELSE 7 + depth + 1
       + Total[[i \in DOMAIN item.child |->
                Len(Yaml[item.child[i]][depth + 1]) + Len(<<item.child[i].name>>)
                + 2 + 3 * (depth + 1)]]

\* Mutant of BinaryRoom: the last line, which is not full, is not counted.
BinaryRoomM(size, depth) == (size \div BinLine) * (2 * depth + 6 + BinLine + 1) + 11

BinaryRoom(size, depth) == (size \div BinLine + 1) * (2 * depth + 6 + BinLine + 1) + 11

YamlRoom(item, depth) ==
  CASE item.type = "string" -> StringRoom(item.text)
    [] item.type = "number" -> 21
    [] item.type = "binary" -> BinaryRoom(EncodedLength(Len(item.data)), depth)
    [] item.type = "array"  -> YamlArrayRoom(item, depth)
    [] item.type = "object" -> YamlObjectRoom(item, depth)
    [] item.type = "null"   -> 1
    [] OTHER                -> Len(Keyword[item.type]) + 1
=============================================================================
