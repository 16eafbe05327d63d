------------------------------ MODULE MCLogins ------------------------------
(* Values of up to two characters, one of them with a NUL; those that must be encoded,
   in each way the code reads (%2B and %2b, %20 and +); the name "user" in capitals, a variable
   whose name ends in "user"; three ways to write the head, the
   last place for a header taken by the length in one and too few in another; a block of
   8 bytes, and
   a length of two words of 8 bits, of which the low one overflows. *)
EXTENDS Logins, TLC

MCLower == ("USER" :> "user") @@ ("content" :> "content") @@ ("Content" :> "content")
           @@ ("LENGTH" :> "length") @@ ("Length" :> "length") @@ ("CONTENT" :> "content")
MCAscii == ("a" :> 97) @@ (" " :> 32) @@ ("+" :> 43) @@ ("&" :> 38) @@ ("%" :> 37) @@ ("=" :> 61) @@ ("nul" :> 0)
MCSymbols == STRING
MCPlaces == {"query", "body"}
MCNames  == {<<"USER">>, <<"pass">>, <<"x", "user">>}
Hex(x, y) == <<"%", x, y>>
MCSpellings == ("a" :> {<<"a">>}) @@ (" " :> {<<"+">>, Hex("2", "0")})
               @@ ("+" :> {Hex("2", "B"), Hex("2", "b")}) @@ ("&" :> {Hex("2", "6")})
               @@ ("%" :> {Hex("2", "5")}) @@ ("=" :> {<<"=">>}) @@ ("nul" :> {Hex("0", "0")})
MCTexts == {<<>>, <<"a", "nul">>, <<"+">>, <<"&", " ">>, <<"%", "=">>}
MCUsers == {[code |-> <<"a">>, password |-> <<"+">>],
            [code |-> <<"+">>, password |-> <<"&", " ">>],
            [code |-> <<"%", "=">>, password |-> <<"a">>]}
MCDigits == [n \in 0..PostLen |-> ToString(n)]
MCSecretKey == [i \in 1..30 |-> i]

Crlf == <<"\r", "\n">>
ClientHead(method, blank, length, space, before, after, eol) ==
  [method |-> method, blank |-> blank, length |-> length, space |-> space,
   before |-> before, after |-> after, eol |-> eol]
Length == <<"Content", "-", "Length">>
Host   == [name |-> <<"Host">>, value |-> <<" ", "a">>]
X      == [name |-> <<"X">>, value |-> <<>>]
MCHeads ==
  { ClientHead("POST", <<>>, Length, <<" ">>, <<Host>>, <<>>, Crlf),
    ClientHead("POST", Crlf, <<"CONTENT", "-", "LENGTH">>, <<>>, <<>>, <<X, Host>>, <<"\n">>),
    ClientHead("GET", <<>>, Length, <<" ">>, <<X>>, <<Host>>, Crlf) }
=============================================================================
