------------------------------ MODULE Answers ------------------------------
(***************************************************************************)
(* What the controllers answer (webservice/app): the trees they build, how *)
(* render_200j writes them in the format of the request, and what a client *)
(* reads.  Each action is one handler that has found what it was asked     *)
(* for; what it finds in the tables and in the library of games is chosen  *)
(* from the constants.                                                     *)
(***************************************************************************)
EXTENDS CYaml, GamesWalk

CONSTANTS Games,        \* games as records of the table
          Partidas,     \* games as the library sees them
          GameTypes,    \* lists of game types
          Formats,      \* formats of routes, "" for none
          None,         \* a pointer that is NULL
          MaxCount,     \* the greatest number of things an answer counts
          Digits,       \* how %d writes the numbers up to MaxCount
          Coords,       \* and "coord%d"
          TargetSize    \* size of destino, where game_to_cJSON joins targets

MaybeText == Texts \cup {None}
Lists(S)  == {s \in Seq(S) : Len(s) <= MaxCount}

\* What the table and the library hold.
IsGame(g) ==
  /\ {g.id, g.type} \subseteq Texts
  /\ {g.color, g.state, g.notation, g.targets} \subseteq MaybeText
  /\ {g.moves, g.final} \subseteq Numerals
  /\ g.continues \in BOOLEAN /\ g.data \in Seq(Byte)

Placed == [square : Texts, piece : Texts, color : Texts]
Moves  == [number : Numerals, text : Texts, piece : Texts, color : Texts,
           capture : [piece : Texts, square : Texts] \cup {None},
           from : MaybeText, to : Texts, notation : Texts,
           becomes : [piece : Texts, color : Texts] \cup {None},
           details : Seq([from : MaybeText, to : MaybeText]), creates : Seq(Placed)]
Boards == [color : Texts, history : Lists(Moves), result : MaybeText, continues : BOOLEAN,
           targets : Seq(Texts), board : Lists(Placed),
           captured : Seq([piece : Texts, color : Texts]),
           initial : Seq(Placed), possible : Lists(Moves)]

Pictures == [h : Numerals, w : Numerals, png : Seq(Byte)]
Types    == [name : Symbols, loads : BOOLEAN,
             colors : Seq([name : Texts, rotated : BOOLEAN]), pieces : Seq(Texts),
             squares : Seq([name : Texts, pos : Lists(Numerals)]),
             board : Pictures \cup {None}, logo : Pictures \cup {None},
             images : Seq([piece : Texts, color : Texts, captured : BOOLEAN,
                           h : Numerals, w : Numerals, png : Seq(Byte)])]

Join(s) == FlattenSeq([i \in DOMAIN s |-> IF i = 1 THEN s[i] ELSE <<Separator>> \o s[i]])

\* The targets of a move, up to one that alone is too long for destino: the test adds
\* len, which stays 0.
JoinTargets(s) ==
  LET long == {i \in DOMAIN s : Len(s[i]) + 1 > TargetSize} \cup {Len(s) + 1}
  IN Join(SubSeq(s, 1, Min(long) - 1))

\* What targets that do not fit together write behind destino is not modelled: the
\* games have none.
ASSUME AnswerConstants ==
  /\ MaxDepth >= 5
  /\ MaxCount \in Nat /\ Ids \subseteq 1..MaxCount
  /\ Digits \in [0..MaxCount -> Numerals] /\ Coords \in [0..MaxCount -> Symbols]
  /\ Records \subseteq Games /\ \A g \in Games : IsGame(g)
  /\ TargetSize \in Nat \ {0}
  /\ Partidas \subseteq Boards /\ \A p \in Partidas : Len(JoinTargets(p.targets)) < TargetSize
  /\ GameTypes \subseteq Seq(Types)
  /\ None \notin Trees

\* The names and the words the handlers write.
ASSUME AnswerWords ==
  /\ {"/login", "/{sesion}/lista", "cantidad", "cantidad_movidas", "captura", "captura_cas",
      "capturada", "casillero", "casilleros", "color", "colores", "comandos", "crea", "data",
      "descripcion", "descripcion_estado", "destino", "detalle", "es_captura",
      "es_continuacion", "final_estado", "game_id", "games", "height", "imagen", "imagenes",
      "logo", "movidas", "nombre", "notacion", "numero", "origen", "pieza", "piezas",
      "respuesta", "rotado", "sesion", "tablero", "tablero_inicial", "texto", "tipo",
      "tipo_juego", "tipo_pieza", "tipos_pieza", "total", "transforma_color", "transforma_tipo",
      "ultima_jugada", "ultimos_destino", "version", "width"} \subseteq Symbols
  /\ {"-", "OK", "Jugando", ":", "captured", "session", "version", "Session", "cerrada", "pong",
      "Welcome", "Use", "/help", "Envio", "(", "POST", ")", "Lista", "los", "tipos", "Cantidad",
      "de", "juegos"} \subseteq Symbols

VARIABLES answer,       \* the tree given to render_200j
          format

vars == <<answer, format, walkVars>>

Text(word) == <<word>>
Numeral(n) == Digits[n]
Or(s, default) == IF s = None THEN default ELSE s
Optional(name, s) == IF s = None THEN <<>> ELSE <<AddString(name, s)>>

Array(Build(_), data) == CreateArray([i \in DOMAIN data |-> Build(data[i])])
\* game_to_cJSON, without and with a Partida.
GameToCJSON(g) ==
  << AddString("game_id", g.id), AddString("tipo_juego", g.type),
     AddString("color", Or(g.color, Text("-"))),
     AddNumber("cantidad_movidas", g.moves),
     AddNumber("final_estado", g.final),
     AddString("descripcion_estado", Or(g.state, Text("-"))),
     AddBool("es_continuacion", g.continues) >>
  \o Optional("ultima_jugada", g.notation) \o Optional("ultimos_destino", g.targets)

PartidaToCJSON(g, p) ==
  << AddString("game_id", g.id), AddString("tipo_juego", g.type),
     AddString("color", p.color),
     AddNumber("cantidad_movidas", Numeral(Len(p.history))),
     AddString("descripcion_estado", Or(p.result, Text("Jugando"))),
     AddBool("es_continuacion", p.continues) >>
  \o (IF p.history = <<>> THEN <<>> ELSE <<AddString("ultimos_destino", JoinTargets(p.targets))>>)

Piece(x) == CreateObject(<<AddString("casillero", x.square), AddString("tipo", x.piece),
                           AddString("color", x.color)>>)

Captured(x) == Piece([square |-> <<":", "captured">>, piece |-> x.piece, color |-> x.color])

\* movida_to_cJSON
Detail(d)  == CreateObject(<<AddString("origen", Or(d.from, <<>>)),
                             AddString("destino", Or(d.to, <<>>))>>)
Created(c) == CreateObject(<<AddString("pieza", c.piece), AddString("casillero", c.square),
                             AddString("color", c.color)>>)
MovidaToCJSON(m) ==
  CreateObject(
    << AddNumber("numero", m.number), AddString("descripcion", m.text),
       AddString("pieza", m.piece), AddString("color", m.color) >>
    \o (IF m.capture = None THEN <<>>
        ELSE << AddBool("es_captura", TRUE), AddString("captura", m.capture.piece),
                AddString("captura_cas", m.capture.square) >>)
    \o << AddString("origen", Or(m.from, <<>>)), AddString("destino", m.to),
          AddString("notacion", m.notation) >>
    \o (IF m.becomes = None THEN <<>>
        ELSE << AddString("transforma_tipo", m.becomes.piece),
                AddString("transforma_color", m.becomes.color) >>)
    \o (IF m.details = <<>> THEN <<>> ELSE <<Named("detalle", Array(Detail, m.details))>>)
    \o (IF m.creates = <<>> THEN <<>> ELSE <<Named("crea", Array(Created, m.creates))>>))

\* The listing of game types; with the name of one, its squares and images, too.
Color(c) == CreateObject(<<AddString("nombre", c.name)>>
                         \o (IF c.rotated THEN <<AddBool("rotado", TRUE)>> ELSE <<>>))
Square(q) == CreateObject(<<AddString("nombre", q.name)>>
               \o [i \in DOMAIN q.pos |-> AddNumber(Coords[i - 1], q.pos[i])])
Image(x)  == <<AddNumber("height", x.h), AddNumber("width", x.w), AddBinary("imagen", x.png)>>
PieceImage(x) ==
  CreateObject(<< AddString("tipo_pieza", x.piece), AddString("color", x.color),
                  AddNumber("width", x.w), AddNumber("height", x.h),
                  AddBinary("imagen", x.png) >>
               \o (IF x.captured THEN <<AddBool("capturada", TRUE)>> ELSE <<>>))

TypeToCJSON(t, detailed) ==
  Named(t.name, CreateObject(
    << Named("colores", Array(Color, t.colors)),
       Named("tipos_pieza", Array(CreateString, t.pieces)) >>
    \o (IF ~ detailed THEN <<>> ELSE <<Named("casilleros", Array(Square, t.squares))>>)
    \o (IF ~ detailed \/ t.board = None THEN <<>>
        ELSE << Named("imagenes", CreateObject(
                  << Named("tablero", CreateObject(Image(t.board))) >>
                  \o (IF t.logo = None THEN <<>>
                      ELSE <<Named("logo", CreateObject(Image(t.logo)))>>)
                  \o <<Named("piezas", Array(PieceImage, t.images))>>)) >>)))

(***************************************************************************)
(* render_200j                                                             *)
(***************************************************************************)
Response(root, f) ==
  LET ok(body) == [status |-> 200, body |-> body]
      texto    == GetObjectItem(root, "texto")
      data     == GetObjectItem(root, "data")
      has(items, type) == items # <<>> /\ items[1].type = type
  IN CASE f = "json"  -> ok(PrintJson(root))
       [] f = "txt"   -> ok(IF has(texto, "string") THEN texto[1].text
                            ELSE <<"Sin", Blank, "mensaje">>)
       [] f = "xml"   -> [status |-> 500, body |-> <<"Formato", Blank, "XML">>]
       [] f = "qgame" -> IF has(data, "binary") THEN ok(data[1].data)
                         ELSE [status |-> 500, body |-> <<"Sin", Blank, "datos">>]
       [] OTHER       -> ok(PrintYaml(root))

(***************************************************************************)
(* The handlers.                                                           *)
(***************************************************************************)
Answer(members, f) ==
  /\ answer = None
  /\ answer' = CreateObject(members) /\ format' = f

OrText(f) == IF f = "" THEN "txt" ELSE f

Said(words) == <<AddString("respuesta", Text("OK")), AddString("texto", words)>>

Login(f) ==
  Answer(<< AddString("respuesta", Text("OK")), AddString("sesion", Text("session")),
            AddString("version", Text("version")) >>, f)
Logout(f)  == Answer(Said(<<"Session", Blank, "cerrada">>), OrText(f))
Ping(f)    == Answer(Said(<<"pong">>), OrText(f))
Welcome(f) == Answer(Said(<<"Welcome", Newline, "Use", ":", Blank, "/help">>), OrText(f))

Help(f) ==
  Answer(<< AddString("respuesta", Text("OK")),
            Named("comandos", CreateObject(
              << AddString("/login", <<"Envio", Blank, "(", "POST", ")">>),
                 AddString("/{sesion}/lista", <<"Lista", Blank, "los", Blank, "tipos">>) >>)) >>, f)

\* crea, and partida unless its format is qgame
Record(g, f) == Answer(GameToCJSON(g), f)

Partida(g, f) ==
  IF f = "qgame"
  THEN Answer(<<AddString("game_id", g.id), AddBinary("data", g.data)>>, f)
  ELSE Record(g, f)

\* mueve and registra
Mueve(g, p, f) == Answer(PartidaToCJSON(g, p), f)

Tablero(g, p, f) ==
  Answer(PartidaToCJSON(g, p)
         \o << AddNumber("total", Numeral(Len(p.board))),
               Named("piezas", CreateArray([i \in DOMAIN p.board |-> Piece(p.board[i])]
                               \o [i \in DOMAIN p.captured |-> Captured(p.captured[i])])) >>, f)

Historial(g, p, f) ==
  Answer(PartidaToCJSON(g, p)
         \o << Named("tablero_inicial", Array(Piece, p.initial)),
               Named("movidas", Array(MovidaToCJSON, p.history)) >>, f)

Posibles(g, p, f) ==
  Answer(PartidaToCJSON(g, p)
         \o << AddNumber("total", Numeral(Len(p.possible))),
               Named("movidas", Array(MovidaToCJSON, p.possible)) >>, f)

\* What the walk over the table has listed.
Registraciones(f) ==
  LET n == Numeral(Len(list)) IN
  Close /\ Answer(<< AddNumber("cantidad", n), AddString("respuesta", Text("OK")),
            AddString("texto", <<"Cantidad", Blank, "de", Blank, "juegos", ":", Blank, n>>),
            Named("games", CreateArray([i \in DOMAIN list |->
                                          CreateObject(GameToCJSON(list[i].game))])) >>, f)

TipoJuegos(types, asked, f) ==
  LET shown(t) == t.loads /\ (asked = None \/ t.name = asked)
  IN Answer(FlattenSeq([i \in DOMAIN types |->
              IF shown(types[i]) THEN <<TypeToCJSON(types[i], asked # None)>> ELSE <<>>]), f)

\* The answer has been written.
Sent == answer # None /\ answer' = None /\ UNCHANGED format

Init == answer = None /\ format = "" /\ WalkInit

\* Every handler but registraciones, and the rest of that one.
Other ==
  \/ \E f \in Formats :
       \/ Login(f) \/ Logout(f) \/ Ping(f) \/ Welcome(f) \/ Help(f)
       \/ \E g \in Games : Record(g, f) \/ Partida(g, f)
       \/ \E g \in Games, p \in Partidas :
            Mueve(g, p, f) \/ Tablero(g, p, f) \/ Historial(g, p, f) \/ Posibles(g, p, f)
       \/ \E types \in GameTypes :
            \E asked \in {None} \cup {types[i].name : i \in DOMAIN types} :
              TipoJuegos(types, asked, f)
  \/ Sent

Next ==
  \/ walk = "idle" /\ Other /\ UNCHANGED walkVars
  \/ answer = None /\ Walk /\ UNCHANGED <<answer, format>>
  \/ \E f \in Formats : Registraciones(f)

Spec == Init /\ [][Next]_vars

(***************************************************************************)
(* What a client reads.  A reader of block YAML: an item of an array or of *)
(* an object begins a line, the lines below it that are indented further   *)
(* belong to it.  It cannot tell a number or a boolean from a string, nor  *)
(* an empty string from an object without members.                         *)
(***************************************************************************)
Lines(text) ==
  LET ends    == SelectSeq([i \in DOMAIN text |-> i], LAMBDA i : text[i] = Newline)
      from(k) == IF k = 1 THEN 1 ELSE ends[k - 1] + 1
      to(k)   == IF k > Len(ends) THEN Len(text) ELSE ends[k] - 1
  IN SelectSeq([k \in 1..(Len(ends) + 1) |-> SubSeq(text, from(k), to(k))],
               LAMBDA l : ToSet(l) \ {Blank} # {})

Indent(line) == CHOOSE n \in 0..Len(line) : /\ \A i \in 1..n : line[i] = Blank
                                            /\ n < Len(line) => line[n + 1] # Blank

Scalar(text) == IF text = <<>> THEN Item("nothing") ELSE [Item("scalar") EXCEPT !.text = text]

ReadBlock[ls \in Seq(Texts)] ==
  LET ind    == Indent(ls[1])
      starts == SelectSeq([i \in DOMAIN ls |-> i], LAMBDA i : Indent(ls[i]) = ind)
      line(k) == From(ls[starts[k]], ind + 1)
      below(k) == SubSeq(ls, starts[k] + 1, IF k = Len(starts) THEN Len(ls) ELSE starts[k + 1] - 1)
      value(v, sub) ==
        CASE ToSet(v) \subseteq {Blank} /\ sub = <<>> -> Item("nothing")
          [] ToSet(v) \subseteq {Blank} /\ sub # <<>> -> ReadBlock[sub]
          [] v = <<"[", "]">>     -> CreateArray(<<>>)
          [] v = Front(BinaryTag) ->
               CreateBinary(Decode[FlattenSeq([i \in DOMAIN sub |->
                                                 From(sub[i], Indent(sub[i]) + 1)])].bytes)
          [] StartsWith(v, Quote)  -> Scalar(ParseString(v).item.text)
          [] OTHER                -> Scalar(v)
  IN IF line(1)[1] = "-"
     THEN CreateArray([k \in DOMAIN starts |-> value(From(line(k), 3), below(k))])
     ELSE CreateObject([k \in DOMAIN starts |->
            Named(line(k)[1], value(From(line(k), 4), below(k)))])

ReadYaml(text) == IF Lines(text) = <<>> THEN Item("nothing") ELSE ReadBlock[Lines(text)]

\* The tree, as far as each format can tell.
InJson[item \in Trees] ==
  IF item.type = "binary" THEN AddString(item.name, Encode(item.data))
  ELSE [item EXCEPT !.child = [i \in DOMAIN item.child |-> InJson[item.child[i]]]]

InYaml[item \in Trees] ==
  Named(item.name,
    CASE item.type \in {"string", "number"} -> Scalar(item.text)
      [] item.type \in DOMAIN Keyword -> Scalar(Keyword[item.type])
      [] item.type = "object" /\ item.child = <<>> -> Item("nothing")
      [] item.type = "binary" -> CreateBinary(item.data)
      [] OTHER -> [item EXCEPT !.child = [i \in DOMAIN item.child |-> InYaml[item.child[i]]]])

\* Whatever a handler answers, print_object, print_array, print_binary and print_string_ptr
\* write no byte past the memory they allocated, in both formats and at every depth.
AnswerFits ==
  answer # None =>
    \A x \in Within[answer][0] :
      /\ Len(Json[x[1]][x[2]]) + 1 <= JsonRoom(x[1], x[2])
      /\ Len(Yaml[x[1]][x[2]]) + 1 <= YamlRoom(x[1], x[2])

\* A client that parses the JSON with cJSON_Parse gets the tree the handler built, every
\* string, number and image in its place; base64_decode gives the bytes of an image back,
\* and qgame gives the bytes of the game.
JsonReadsBack ==
  answer # None =>
    LET r == Response(answer, format) IN
    /\ format = "json" => r.status = 200 /\ Parse(r.body) = Success(InJson[answer], <<>>)
    /\ format = "qgame" /\ r.status = 200 =>
         AddBinary("data", r.body) \in ToSet(answer.child)
    /\ \A x \in Within[answer][0] :
         x[1].type = "binary" => Decode[Encode(x[1].data)] = [ok |-> TRUE, bytes |-> x[1].data]

\* A client that reads the YAML by its indentation gets the tree the handler built, every
\* string, number and image in its place, as far as YAML written without types can tell.
YamlReadsBack ==
  answer # None /\ format \notin {"json", "txt", "xml", "qgame"} =>
    ReadYaml(Response(answer, format).body) = InYaml[answer]
=============================================================================
