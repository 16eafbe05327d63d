----------------------------- MODULE MCAnswers -----------------------------
(* Games, boards, moves and types with every optional part there and missing, lists of
   no, one and two, strings with characters that are escaped, images of 0 to 7 bytes; walks of
   a plain user and of an administrator over a table of three keys. *)
EXTENDS Answers

MCSymbols  == STRING
MCNumerals == {"0", "1", "2", "3", "64"}
MCDigits   == [n \in 0..3 |-> ToString(n)]
MCCoords   == [n \in 0..3 |-> "coord" \o ToString(n)]
MCFormats  == {"", "yaml", "json", "txt", "xml", "qgame"}

Bare == [owner |-> "u1", id |-> <<"g1">>, type |-> <<"chess">>, color |-> None, moves |-> "0", final |-> "0",
         state |-> None, continues |-> FALSE, notation |-> None, targets |-> None, data |-> <<>>]
Full == [owner |-> "u2", id |-> <<"g2">>, type |-> <<"go">>, color |-> <<"white">>, moves |-> "2", final |-> "1",
         state |-> <<"mate", " ", "\"", "x", "\"", "\n", "ctl">>, continues |-> TRUE,
         notation |-> <<"e4">>, targets |-> <<"e2", ",", "e4">>,
         data |-> <<0, 255, 10, 65>>]
MCGames == {Bare, Full}

On(square, piece, color) == [square |-> <<square>>, piece |-> <<piece>>, color |-> <<color>>]

Plain == [number |-> "1", text |-> <<"a", "\\", "b">>, piece |-> <<"rook">>, color |-> <<"black">>,
          capture |-> None, from |-> None, to |-> <<"a1">>, notation |-> <<"Ra1">>,
          becomes |-> None, details |-> <<>>, creates |-> <<>>]
Rich  == [number |-> "2", text |-> <<"takes", "\t", "bs">>, piece |-> <<"pawn">>, color |-> <<"white">>,
          capture |-> [piece |-> <<"queen">>, square |-> <<"d8">>], from |-> <<"c7">>,
          to |-> <<"d8">>, notation |-> <<"cxd8">>,
          becomes |-> [piece |-> <<"queen">>, color |-> <<"white">>],
          details |-> <<[from |-> None, to |-> <<"d8">>], [from |-> <<"c7">>, to |-> None]>>,
          creates |-> <<On("d8", "queen", "white")>>]

Opening == [color |-> <<"white">>, history |-> <<>>, result |-> None, continues |-> FALSE,
            targets |-> <<>>, board |-> <<>>, captured |-> <<>>, initial |-> <<>>,
            possible |-> <<Plain, Rich>>]
Middle  == [color |-> <<"black">>, history |-> <<Rich, Plain>>, result |-> <<"check", "\f">>,
            continues |-> TRUE, targets |-> <<<<"a1">>, <<"d8">>>>,
            board |-> <<On("a1", "rook", "black"), On("d8", "queen", "white")>>,
            captured |-> <<[piece |-> <<"queen">>, color |-> <<"black">>]>>,
            initial |-> <<On("a1", "rook", "black")>>, possible |-> <<>>]
\* A target that is too long for destino.
Far     == [Middle EXCEPT !.targets = <<<<"a1">>, <<"a", "far", "away", "cell">>, <<"d8">>>>,
                          !.result = None]
MCPartidas == {Opening, Middle, Far}

Image7(n) == [h |-> "64", w |-> "64", png |-> SubSeq(<<137, 80, 78, 71, 13, 10, 255>>, 1, n)]

Type(name, board, logo, images) ==
  [name |-> name, loads |-> TRUE, colors |-> <<[name |-> <<"white">>, rotated |-> FALSE],
                                               [name |-> <<"black">>, rotated |-> TRUE]>>,
   pieces |-> <<<<"rook">>, <<"queen">>>>,
   squares |-> <<[name |-> <<"a1">>, pos |-> <<"0", "1">>], [name |-> <<"b1">>, pos |-> <<>>]>>,
   board |-> board, logo |-> logo, images |-> images]

PieceOf(n, captured) == [piece |-> <<"rook">>, color |-> <<"white">>, captured |-> captured,
                         h |-> "3", w |-> "2", png |-> Image7(n).png]

NoBoard == Type("go", None, None, <<>>)
Broken  == [NoBoard EXCEPT !.name = "bad", !.loads = FALSE]
Chess(n) == Type("chess", Image7(n), IF n < 4 THEN None ELSE Image7(n - 1),
                 IF n = 1 THEN <<>> ELSE <<PieceOf(n, FALSE), PieceOf(n - 1, TRUE)>>)

MCGameTypes == {<<>>, <<Broken>>} \cup {<<NoBoard, Broken, Chess(n)>> : n \in 1..7}
=============================================================================
