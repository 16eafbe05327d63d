------------------------------- MODULE CJson -------------------------------
(***************************************************************************)
(* The trees of common/cJSON/cJSON.c, how they are printed as JSON, into   *)
(* how much memory, and how a JSON text is parsed.                         *)
(*                                                                         *)
(* A text is a sequence of symbols: the characters the code tells apart,   *)
(* and words and numerals, each of which stands for any run of other       *)
(* characters: the code only copies them and adds up their lengths.        *)
(* "bs" is \b, "ctl" any other control character.                          *)
(***************************************************************************)
EXTENDS Base64, FiniteSets, SequencesExt, TLC

CONSTANTS Numerals,     \* the symbols that are numbers
          MaxDepth      \* levels below the root of the deepest tree

NoName    == ""
Blank     == " "
Newline   == "\n"
Tab       == "\t"
Quote     == "\""
Backslash == "\\"
Separator == ","
Spaces    == {Blank, Newline, Tab, "\r"}
Brackets  == {"[", "]", "{", "}"}

\* The characters that are escaped by a letter.
Escapable == {Quote, Backslash, "bs", "\f", Newline, "\r", Tab}

\* What the escape of a character has behind the backslash.
Escapes == [c \in Escapable |->
  CASE c = "bs"    -> "b"
    [] c = "\f"    -> "f"
    [] c = Newline -> "n"
    [] c = "\r"    -> "r"
    [] c = Tab     -> "t"
    [] OTHER       -> c]

Keyword == [true |-> <<"true">>, false |-> <<"false">>, null |-> <<"null">>]

ASSUME JsonConstants ==
  /\ MaxDepth \in Nat
  /\ Numerals \subseteq Symbols
  /\ Numerals \cap (Spaces \cup Brackets \cup DOMAIN Keyword \cup {Quote}) = {}
  /\ Spaces \cup Brackets \cup Escapable \cup DOMAIN Keyword \subseteq Symbols
  /\ {NoName, Separator, ":", "b", "f", "n", "r", "t", "u", "0", "1", "ctl"} \subseteq Symbols

(***************************************************************************)
(* Trees.  Every item has a name, which is empty outside objects.          *)
(***************************************************************************)
Item(type) ==
  [type |-> type, name |-> NoName, text |-> <<>>, data |-> <<>>, child |-> <<>>]

CreateString(s)    == [Item("string") EXCEPT !.text = s]
CreateNumber(n)    == [Item("number") EXCEPT !.text = <<n>>]
CreateBool(b)      == IF b THEN Item("true") ELSE Item("false")
CreateBinary(d)    == [Item("binary") EXCEPT !.data = d]
CreateArray(items) == [Item("array") EXCEPT !.child = items]

\* cJSON_Add...ToObject, one after the other: items get their names.
Named(name, item)     == [item EXCEPT !.name = name]
CreateObject(members) == [Item("object") EXCEPT !.child = members]

AddString(name, s) == Named(name, CreateString(s))
AddNumber(name, n) == Named(name, CreateNumber(n))
AddBool(name, b)   == Named(name, CreateBool(b))
AddBinary(name, d) == Named(name, CreateBinary(d))

\* cJSON_GetObjectItem: the first member with the name, if there is one.
GetObjectItem(object, name) ==
  LET at == {i \in DOMAIN object.child : object.child[i].name = name}
  IN IF at = {} THEN <<>>
     ELSE << object.child[CHOOSE i \in at : \A j \in at : i <= j] >>

\* What the functions above build: an array holds items without a name.
Nodes(type, text, data, child) ==
  [type : type, name : Symbols, text : text, data : data, child : child]

Unnamed(trees) == {t \in trees : t.name = NoName}

Grown(below) ==
  Nodes({"string"}, Texts, {<<>>}, {<<>>})
  \cup Nodes({"number"}, {<<n>> : n \in Numerals}, {<<>>}, {<<>>})
  \cup Nodes({"true", "false"}, {<<>>}, {<<>>}, {<<>>})
  \cup Nodes({"binary"}, {<<>>}, Seq(Byte), {<<>>})
  \cup Nodes({"array"}, {<<>>}, {<<>>}, Seq(Unnamed(below)))
  \cup Nodes({"object"}, {<<>>}, {<<>>}, Seq(below))

\* The trees with so many levels below the root.
Tree[n \in Nat] == IF n = 0 THEN Grown({}) ELSE Grown(Tree[n - 1])

Trees == Tree[MaxDepth]

(***************************************************************************)
(* Printing.                                                               *)
(***************************************************************************)
Repeat(n, s) == [i \in 1..(IF n > 0 THEN n ELSE 0) |-> s]

\* A character as it is written in a string.
Escape(c) ==
  CASE c \in Escapable -> <<Backslash, Escapes[c]>>
    [] c = "ctl"       -> <<Backslash, "u", "0", "0", "0", "1">>
    [] OTHER           -> <<c>>

Escaped(s) == FlattenSeq([i \in DOMAIN s |-> Escape(s[i])])

\* The bytes print_string_ptr allocates.
StringRoom(s) ==
  LET some(S) == Cardinality({i \in DOMAIN s : s[i] \in S})
  IN Len(s) + some(Escapable) + 5 * some({"ctl"}) + 3

PrintString(s) == <<Quote>> \o Escaped(s) \o <<Quote>>

\* Mutant of Comma: it is written behind the last member, too.
CommaM(i, n) == <<Separator>>

Comma(i, n) == IF i = n THEN <<>> ELSE <<Separator>>

\* print_array and print_object, formatted, given the printed children.
JsonArray(entries) ==
  <<"[">> \o FlattenSeq([i \in DOMAIN entries |->
               entries[i] \o (IF i = Len(entries) THEN <<>> ELSE <<Separator, Blank>>)]) \o <<"]">>

JsonMember(name, entry, depth) ==
  Repeat(depth + 1, Tab) \o PrintString(<<name>>) \o <<":", Tab>> \o entry

JsonObject(names, entries, depth) ==
  <<"{", Newline>>
  \o FlattenSeq([i \in DOMAIN entries |->
       JsonMember(names[i], entries[i], depth) \o Comma(i, Len(entries)) \o <<Newline>>])
  \o Repeat(IF entries = <<>> THEN depth - 1 ELSE depth, Tab) \o <<"}">>

NamesOf(item) == [i \in DOMAIN item.child |-> item.child[i].name]

JsonOf(item, entries, depth) ==
  CASE item.type = "string" -> PrintString(item.text)
    [] item.type = "number" -> item.text
    [] item.type = "binary" -> PrintString(Encode(item.data))
    [] item.type = "array"  -> JsonArray(entries)
    [] item.type = "object" -> JsonObject(NamesOf(item), entries, depth)
    [] OTHER                -> Keyword[item.type]

\* print_value
Json[item \in Trees] ==
  [depth \in Nat |->
     JsonOf(item, [i \in DOMAIN item.child |-> Json[item.child[i]][depth + 1]], depth)]

\* cJSON_Print
PrintJson(item) == Json[item][0]

\* The sum of the lengths of the printed children, and of what is added for each.
Total[lengths \in Seq(Nat)] ==
  IF lengths = <<>> THEN 0 ELSE Head(lengths) + Total[Tail(lengths)]

\* The bytes print_object and print_array allocate.
JsonObjectRoom(item, depth) ==
  IF item.child = <<>> THEN depth + 4
  ELSE 7 + depth + 1
       + Total[[i \in DOMAIN item.child |->
                Len(Json[item.child[i]][depth + 1]) + Len(PrintString(<<item.child[i].name>>))
                + 2 + 2 + depth + 1]]

JsonArrayRoom(item, depth) ==
  IF item.child = <<>> THEN 3
  ELSE 5 + Total[[i \in DOMAIN item.child |-> Len(Json[item.child[i]][depth + 1]) + 2 + 1]]

JsonRoom(item, depth) ==
  CASE item.type = "string" -> StringRoom(item.text)
    [] item.type = "number" -> 21
    [] item.type = "binary" -> StringRoom(Encode(item.data))
    [] item.type = "array"  -> JsonArrayRoom(item, depth)
    [] item.type = "object" -> JsonObjectRoom(item, depth)
    [] OTHER                -> Len(Keyword[item.type]) + 1

\* Every item of a tree, with its depth.
Within[item \in Trees] ==
  [depth \in Nat |->
     {<<item, depth>>} \cup UNION {Within[item.child[i]][depth + 1] : i \in DOMAIN item.child}]

(***************************************************************************)
(* Parsing.  A parse function gives the item it read and the text behind   *)
(* it, or Failure.                                                         *)
(***************************************************************************)
Failure == [ok |-> FALSE, item |-> Item("null"), rest |-> <<>>]
Success(item, rest) == [ok |-> TRUE, item |-> item, rest |-> rest]

From(s, i) == SubSeq(s, i, Len(s))
StartsWith(s, c) == s # <<>> /\ s[1] = c

\* skip
Skip(s) == From(s, CHOOSE i \in 1..(Len(s) + 1) :
                     /\ \A j \in 1..(i - 1) : s[j] \in Spaces
                     /\ i <= Len(s) => s[i] \notin Spaces)

\* What the first character of s stands for, and how long it is written.  A backslash at the
\* end escapes the end of the text.
Unescaped(s) ==
  CASE s[1] # Backslash               -> [is |-> s[1], len |-> 1]
    [] s[1] = Backslash /\ Len(s) = 1 -> [is |-> "ctl", len |-> 1]
    [] OTHER ->
         IF s[2] = "u" THEN [is |-> "ctl", len |-> 6]
         ELSE LET c == {x \in Escapable : Escapes[x] = s[2]}
              IN [is |-> IF c = {} THEN s[2] ELSE CHOOSE x \in c : TRUE, len |-> 2]

\* parse_string behind the quote.
StringBody[s \in Texts] ==
  IF s = <<>> \/ StartsWith(s, Quote) THEN [text |-> <<>>, rest |-> From(s, 2)]
  ELSE LET more == StringBody[From(s, Unescaped(s).len + 1)]
       IN [text |-> <<Unescaped(s).is>> \o more.text, rest |-> more.rest]

ParseString(s) ==
  IF StartsWith(s, Quote)
  THEN Success(CreateString(StringBody[Tail(s)].text), StringBody[Tail(s)].rest)
  ELSE Failure

\* parse_number; a number is one symbol.
ParseNumber(s) == Success(CreateNumber(s[1]), Tail(s))

\* An array or an object with the items of another one behind its own.
WithMore(one, more) == Success([one EXCEPT !.child = @ \o more.item.child], more.rest)

\* The name of a member is one symbol.
NameIn(text) == IF text = <<>> THEN NoName ELSE text[1]

(***************************************************************************)
(* "parsed" is the function that parses what is inside: "value" is a value, *)
(* "items" and "members" are those of an array or an object to its end.     *)
(***************************************************************************)
\* parse_value
ParseValue(parsed, s) ==
  LET inner == Skip(Tail(s)) IN
  CASE s = <<>>               -> Failure
    [] s # <<>> /\ s[1] \in DOMAIN Keyword -> Success(Item(s[1]), Tail(s))
    [] StartsWith(s, Quote)   -> ParseString(s)
    [] s # <<>> /\ s[1] \in Numerals -> ParseNumber(s)
    [] StartsWith(s, "[")     -> IF StartsWith(inner, "]")
                                 THEN Success(CreateArray(<<>>), Tail(inner))
                                 ELSE parsed[<<"items", Tail(s)>>]
    [] StartsWith(s, "{")     -> IF StartsWith(inner, "}")
                                 THEN Success(CreateObject(<<>>), Tail(inner))
                                 ELSE parsed[<<"members", Tail(s)>>]
    [] OTHER                  -> Failure

\* What parse_array and parse_object do behind an item: "one" is the item in an array or an
\* object of its own.
ParseMore(parsed, what, close, one, value) ==
  LET rest == Skip(value.rest)
      more == parsed[<<what, Tail(rest)>>]
  IN IF ~ value.ok THEN Failure
     ELSE IF StartsWith(rest, Separator) THEN (IF more.ok THEN WithMore(one, more) ELSE Failure)
     ELSE IF StartsWith(rest, close) THEN Success(one, Tail(rest))
     ELSE Failure

\* parse_array
ParseItems(parsed, s) ==
  LET value == parsed[<<"value", Skip(s)>>]
  IN ParseMore(parsed, "items", "]", CreateArray(<<value.item>>), value)

\* parse_object
ParseMembers(parsed, s) ==
  LET name  == ParseString(Skip(s))
      colon == Skip(name.rest)
      value == parsed[<<"value", Skip(Tail(colon))>>]
      item  == Named(NameIn(name.item.text), value.item)
  IN IF ~ name.ok \/ ~ StartsWith(colon, ":") THEN Failure
     ELSE ParseMore(parsed, "members", "}", CreateObject(<<item>>), value)

Parsed[x \in {"value", "items", "members"} \X Texts] ==
  CASE x[1] = "value"   -> ParseValue(Parsed, x[2])
    [] x[1] = "items"   -> ParseItems(Parsed, x[2])
    [] x[1] = "members" -> ParseMembers(Parsed, x[2])

\* cJSON_Parse
Parse(s) == Parsed[<<"value", Skip(s)>>]
=============================================================================
