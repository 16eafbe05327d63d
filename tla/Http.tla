-------------------------------- MODULE Http --------------------------------
(***************************************************************************)
(* How webservice/mongoose.c reads the head of a request and a variable of *)
(* a form, and how webservice/webserver.c asks for one.                    *)
(*                                                                         *)
(* A text is a sequence of symbols: the characters the code tells apart,   *)
(* and words, each of which stands for a run of other characters.          *)
(***************************************************************************)
EXTENDS Integers, Sequences, SequencesExt, FiniteSetsExt

CONSTANTS Symbols,      \* the symbols of a text
          Lower,        \* the words in capitals, in small letters
          Ascii,        \* the number of a character
          MaxHeaders,   \* headers mg_request_info has room for
          None

\* What separates words is no letter.
Delimiters == {" ", "\r", "\n", ":", "?", "&", "="}

\* isxdigit
HexDigits == {"0", "1", "2", "3", "4", "5", "6", "7", "8", "9",
              "a", "b", "c", "d", "e", "f", "A", "B", "C", "D", "E", "F"}

ASSUME HttpConstants ==
  /\ Delimiters \cup HexDigits \cup {"%", "+", "byte", "HTTP/"} \cup DOMAIN Ascii \subseteq Symbols
  /\ \A w \in DOMAIN Lower : w \notin Delimiters /\ Lower[w] \notin Delimiters
  /\ "nul" \in DOMAIN Ascii /\ \A c \in DOMAIN Ascii : Ascii[c] = 0 <=> c = "nul"
  /\ MaxHeaders \in Nat
  /\ None \notin Seq(Symbols)

LowerCase(x) == IF x \in DOMAIN Lower THEN Lower[x] ELSE x
SameWord(s, t) == [i \in DOMAIN s |-> LowerCase(s[i])] = [i \in DOMAIN t |-> LowerCase(t[i])]

(***************************************************************************)
(* Words of the head.                                                      *)
(***************************************************************************)
\* strspn, and strcspn with the complement
Span(s, S) == CHOOSE n \in 0..Len(s) : /\ \A i \in 1..n : s[i] \in S
                                       /\ n < Len(s) => s[n + 1] \notin S
From(s, i) == SubSeq(s, i, Len(s))

\* skip_quoted without a quote character: the word before the delimiter, and what
\* follows the delimiter and the white space behind it.
SkipQuoted(s, delimiters, whitespace) ==
  LET n    == Span(s, ToSet(s) \ delimiters)
      rest == From(s, n + 2)
  IN [word |-> SubSeq(s, 1, n), rest |-> From(rest, Span(rest, whitespace) + 1)]

SkipTo(s, delimiters) == SkipQuoted(s, delimiters, delimiters)

\* parse_http_headers, the loop: all the headers of a head,
ParseHeaders[s \in Seq(Symbols)] ==
  LET name  == SkipQuoted(s, {":"}, {" "})
      value == SkipTo(name.rest, {"\r", "\n"})
  IN IF name.word = <<>> THEN <<>>
     ELSE <<[name |-> name.word, value |-> value.word]>> \o ParseHeaders[value.rest]

\* which ends when there is no place for another.
FirstHeaders(headers) == SubSeq(headers, 1, IF Len(headers) < MaxHeaders THEN Len(headers) ELSE MaxHeaders)

ValidMethods == {"GET", "POST", "HEAD", "CONNECT", "PUT", "DELETE", "OPTIONS", "PROPFIND"}

\* parse_http_request
ParseRequest(s) ==
  LET method  == SkipTo(From(s, Span(s, {" ", "\r", "\n"}) + 1), {" "})
      uri     == SkipTo(method.rest, {" "})
      version == SkipTo(uri.rest, {"\r", "\n"})
      ok      == /\ method.word \in {<<m>> : m \in ValidMethods}
                 /\ version.word # <<>> /\ version.word[1] = "HTTP/"
  IN [ok |-> ok, method |-> method.word, uri |-> uri.word,
      version |-> IF ok THEN Tail(version.word) ELSE version.word,
      headers |-> IF ok THEN FirstHeaders(ParseHeaders[version.rest]) ELSE <<>>]

\* get_header
GetHeader(headers, name) ==
  LET found == {i \in DOMAIN headers : SameWord(headers[i].name, name)}
  IN IF found = {} THEN None ELSE headers[Min(found)].value

(***************************************************************************)
(* Variables of a form.                                                    *)
(***************************************************************************)
SmallHex   == <<"0", "1", "2", "3", "4", "5", "6", "7", "8", "9", "a", "b", "c", "d", "e", "f">>
CapitalHex == <<"0", "1", "2", "3", "4", "5", "6", "7", "8", "9", "A", "B", "C", "D", "E", "F">>

\* HEXTOI of the digit in small letters
HexValue(c) == (CHOOSE i \in 1..16 : c \in {SmallHex[i], CapitalHex[i]}) - 1

\* The character with a number; "byte" is any other one.
Char(n) == IF \E c \in DOMAIN Ascii : Ascii[c] = n THEN CHOOSE c \in DOMAIN Ascii : Ascii[c] = n
           ELSE "byte"

\* A text to decode, the room for characters before the end of the string, and whether
\* it is of a form.
Encoded == [src : Seq(Symbols), room : Nat, form : BOOLEAN]

\* The text begins with an encoded character.
IsEscape(src) ==
  Len(src) >= 3 /\ src[1] = "%" /\ src[2] \in HexDigits /\ src[3] \in HexDigits

\* The character a text begins with, and how many symbols it is written with.
First(t) ==
  IF IsEscape(t.src) THEN Char(16 * HexValue(t.src[2]) + HexValue(t.src[3]))
  ELSE IF t.form /\ t.src[1] = "+" THEN " " ELSE t.src[1]
Width(t) == IF IsEscape(t.src) THEN 3 ELSE 1

\* url_decode
UrlDecode[t \in Encoded] ==
  IF t.src = <<>> \/ t.room = 0 THEN <<>>
  ELSE <<First(t)>> \o UrlDecode[[src |-> From(t.src, Width(t) + 1), room |-> t.room - 1,
                                  form |-> t.form]]

\* Mutant of Begins: a variable whose name ends in the name is taken for it.
BeginsM(buf, p, name) ==
  /\ p + Len(name) <= Len(buf) /\ buf[p + Len(name)] = "="
  /\ SameWord(SubSeq(buf, p, p + Len(name) - 1), name)

\* The variable begins at p.
Begins(buf, p, name) ==
  /\ p = 1 \/ buf[p - 1] = "&"
  /\ p + Len(name) <= Len(buf) /\ buf[p + Len(name)] = "="
  /\ SameWord(SubSeq(buf, p, p + Len(name) - 1), name)

\* Where it does first, and what is written between the equals sign and the next "&".
Found(buf, name) == {p \in DOMAIN buf : Begins(buf, p, name)}
Written(buf, name) ==
  LET text == From(buf, Min(Found(buf, name)) + Len(name) + 1)
  IN SubSeq(text, 1, Span(text, ToSet(text) \ {"&"}))

\* mg_get_var: the value, None if there is none or it is too long for dst, whose first
\* byte is written in any case.
MgGetVar(buf, name, dst_len) ==
  IF Found(buf, name) = {} \/ Len(Written(buf, name)) >= dst_len THEN None
  ELSE UrlDecode[[src |-> Written(buf, name), room |-> dst_len - 1, form |-> TRUE]]

\* Mutant of RetSize: what the query may hold is forgotten.
RetSizeM(query, body) == Len(body)

\* The block get_var allocates.
RetSize(query, body) == (IF query = None THEN 0 ELSE Len(query)) + Len(body)

\* get_var: the variable of the query, else of the body; an empty value is none.
GetVar(query, body, name) ==
  LET size   == RetSize(query, body)
      get    == IF query = None THEN None ELSE MgGetVar(query, name, size)
      post   == IF body = <<>> THEN None ELSE MgGetVar(body, name, size)
      is(v)  == v # None /\ v # <<>>
  IN IF is(get) THEN get ELSE IF is(post) THEN post ELSE None

\* What a text is to strlen and strcmp: it ends before its first NUL.
CString(s) == IF s = None THEN None ELSE SubSeq(s, 1, Span(s, ToSet(s) \ {"nul"}))
=============================================================================
