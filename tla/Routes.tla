------------------------------- MODULE Routes -------------------------------
(***************************************************************************)
(* The scanner of URIs, webservice/routes.l, and the global variables it   *)
(* leaves its result in.                                                   *)
(*                                                                         *)
(* A URI is a sequence of symbols: "/", ".", a letter, a word the rules    *)
(* know (a command or a format, two letters or more), or the 32 digits of  *)
(* a session.  The scanner takes the rule of its start condition that      *)
(* matches the longest prefix, the first one of them if there are several, *)
(* and copies a symbol no rule matches to its output.  Lengths are counted *)
(* in symbols.                                                             *)
(*                                                                         *)
(* The rules copy to route_param without looking at its size.  What a copy *)
(* writes behind it is not modelled: the URIs are Short.                   *)
(*                                                                         *)
(* The byte routes.l:73 writes behind route_session is 0 already: whatever *)
(* lies there is one of the variables get_ruta has just cleared.           *)
(***************************************************************************)
EXTENDS Integers, Sequences, FiniteSets, SequencesExt, FiniteSetsExt

CONSTANTS Letters, SessIds,
          Nul,          \* the byte 0
          ParamSize,    \* size of route_param
          WordMax       \* longest WORD

Formats   == {"yaml", "html", "json", "qgame", "png", "pgn", "txt", "xml"}
Keywords  == {"login", "logout", "ping", "help", "crea", "historial", "lista", "move",
              "mueve", "tablero", "posibles", "registra", "registraciones",
              "desregistra", "partida"}
Words     == Formats \cup Keywords
GameChars == Letters \cup Words \cup SessIds \cup {"."}

\* A symbol is of one kind only.
ASSUME RouteConstants ==
  /\ Nul \notin GameChars
  /\ "/" \notin Letters \cup SessIds /\ "." \notin Letters \cup SessIds
  /\ ParamSize \in Nat \ {0} /\ WordMax \in Nat

\* No piece of a URI between slashes is too long for route_param.
Short(uri) ==
  \A i, j \in DOMAIN uri : (\A k \in i..j : uri[k] # "/") => j - i + 1 < ParamSize

(***************************************************************************)
(* The rules, in the order of the file.  "to" is the start condition they  *)
(* begin, "fmt" the format they set, if any.                               *)
(***************************************************************************)
Rule(in, text, controller, action, to) ==
  [in |-> in, text |-> text, controller |-> controller, action |-> action, to |-> to, fmt |-> ""]

OnSession(text, controller, action, to) == Rule("with_session", text, controller, action, to)

OfGame(word, action) == OnSession(<<"/", word, "/">>, "game", action, "check_gameid")

CommandRules ==
  << Rule("initial", <<"/", "login">>, "login", "login", "format"),
     [OnSession(<<"/", "logout">>, "login", "logout", "format") EXCEPT !.fmt = "txt"],
     [Rule("initial", <<"/", "ping">>, "login", "ping", "format") EXCEPT !.fmt = "txt"],
     Rule("initial", <<"/", "help">>, "help", "index", "format"),
     OnSession(<<"/", "crea", "/">>, "game", "crea", "check_param"),
     OfGame("historial", "historial"),
     OnSession(<<"/", "lista", "/">>, "tjuego", "tipojuegos", "check_param"),
     OnSession(<<"/", "lista">>, "tjuego", "tipojuegos", "format"),
     OfGame("move", "mueve"),
     OfGame("mueve", "mueve"),
     OfGame("tablero", "tablero"),
     OfGame("posibles", "posibles"),
     OfGame("registra", "registra"),
     OnSession(<<"/", "registraciones">>, "game", "registraciones", "with_session"),
     OfGame("desregistra", "desregistra"),
     [OfGame("partida", "partida") EXCEPT !.fmt = "qgame"] >>

\* The other patterns, in their order.
IsSession(t) == Len(t) = 2 /\ t[1] = "/" /\ t[2] \in SessIds
IsWord(t)    == /\ t # <<>> /\ ToSet(t) \subseteq Letters \cup Words \cup SessIds
                /\ t[1] \notin SessIds
                /\ Len(t) > 1 \/ t[1] \in Words
                /\ Len(t) <= WordMax
IsGameId(t)  == t # <<>> /\ ToSet(t) \subseteq GameChars
IsGameIdFormat(t) == IsGameId(t) /\ Len(t) > 1 /\ Last(t) \in Formats
IsFormat(t)  == Len(t) = 2 /\ t[1] = "." /\ t[2] \in Formats

\* The patterns that match the text t in the start condition sc, with their place.
Matching(sc, t) ==
  {i \in DOMAIN CommandRules : CommandRules[i].in = sc /\ CommandRules[i].text = t}
  \cup (IF sc = "initial" /\ IsSession(t) THEN {0} ELSE {})
  \cup (IF sc = "check_param" /\ IsWord(t) THEN {101} ELSE {})
  \cup (IF sc = "check_gameid" /\ IsGameIdFormat(t) THEN {102} ELSE {})
  \cup (IF sc = "check_gameid" /\ IsGameId(t) THEN {103} ELSE {})
  \cup (IF sc = "format" /\ IsFormat(t) THEN {104} ELSE {})

(***************************************************************************)
(* The variables route_*; sc is the start condition of the scanner.        *)
(***************************************************************************)
Fresh == [sc |-> "initial", controller |-> "", action |-> "", format |-> "", session |-> Nul,
          param |-> [i \in 1..ParamSize |-> Nul]]

\* The C string that begins at the first cell of a buffer.
CString(cells) ==
  LET ends == {i \in DOMAIN cells : cells[i] = Nul} \cup {Len(cells) + 1}
  IN SubSeq(cells, 1, Min(ends) - 1)

\* The first cells of a buffer are written over; t is not longer than the buffer.
Over(cells, t) == [i \in DOMAIN cells |-> IF i <= Len(t) THEN t[i] ELSE cells[i]]

\* strcpy, and strncpy with the length of the source: no 0 behind it.
Strcpy(cells, t)  == Over(cells, Append(t, Nul))
Strncpy(cells, t) == Over(cells, t)

\* Mutant of DotsIn: the dot right before the format is not looked at.
DotsInM(t) == {i \in 1..(Len(t) - 2) : t[i] = "."}

\* The dots of a text before its last symbol.
DotsIn(t) == {i \in 1..(Len(t) - 1) : t[i] = "."}

\* A game id with a format: the text before the last dot; the rest is scanned
\* again.  Without a dot the handler calls error(), and that is the end.
SplitFormat(r, t) ==
  IF DotsIn(t) = {} THEN [r |-> [r EXCEPT !.sc = "error"], used |-> Len(t)]
  ELSE LET n == Max(DotsIn(t)) - 1 IN
       [r |-> [r EXCEPT !.param = Strncpy(@, SubSeq(t, 1, n)), !.sc = "format"], used |-> n]

\* A rule with a command.
ByCommand(c, r) ==
  [r EXCEPT !.controller = c.controller, !.action = c.action,
            !.format = IF c.fmt = "" THEN @ ELSE c.fmt, !.sc = c.to]

\* What the rule does with the text t, and how much of it it has used up.
Apply(rule, r, t) ==
  LET all(s) == [r |-> s, used |-> Len(t)] IN
  CASE rule = 0   -> all([r EXCEPT !.session = t[2], !.sc = "with_session"])
    [] rule = 101 -> all([r EXCEPT !.param = Strcpy(@, t), !.sc = "format"])
    [] rule = 102 -> SplitFormat(r, t)
    [] rule = 103 -> all([r EXCEPT !.param = Strcpy(@, t)])
    [] rule = 104 -> all([r EXCEPT !.format = t[2]])
    [] OTHER      -> all(ByCommand(CommandRules[rule], r))

StartConditions == {"initial", "with_session", "check_param", "check_gameid", "format", "error"}
Controllers     == {"", "login", "game", "help", "tjuego"}
Actions         == {"", "login", "logout", "ping", "welcome", "crea", "tablero", "posibles",
                    "mueve", "registra", "desregistra", "partida", "tipojuegos",
                    "registraciones", "historial", "index"}

Results == [sc : StartConditions, controller : Controllers, action : Actions,
            format : Formats \cup {""},
            session : SessIds \cup {Nul}, param : [1..ParamSize -> GameChars \cup {Nul}]]

\* Where the scanner stands: what it has found, and the text that is left.
Scans == [r : Results, text : {t \in Seq(GameChars \cup {"/"}) : Short(t)}]

\* The rule with the longest match takes its text; a symbol without one is copied
\* to the output.
Match(s) ==
  LET found == {n \in 1..Len(s.text) : Matching(s.r.sc, SubSeq(s.text, 1, n)) # {}}
      t     == SubSeq(s.text, 1, Max(found))
      done  == Apply(Min(Matching(s.r.sc, t)), s.r, t)
  IN IF found = {} THEN [s EXCEPT !.text = Tail(@)]
     ELSE [r |-> done.r, text |-> SubSeq(s.text, done.used + 1, Len(s.text))]

\* The end of the text.
AtEnd(r) == IF r.sc = "initial" THEN [r EXCEPT !.controller = "login", !.action = "welcome"] ELSE r

\* yylex, until the end of the text.
Yylex[s \in Scans] ==
  IF s.r.sc = "error" THEN s.r ELSE IF s.text = <<>> THEN AtEnd(s.r) ELSE Yylex[Match(s)]

\* Mutant of Cleared: without BEGIN( INITIAL ).
ClearedM(r) == [Fresh EXCEPT !.sc = r.sc, !.param = [r.param EXCEPT ![1] = Nul]]

\* What get_ruta clears: of route_param and route_session the first byte.
Cleared(r) == [Fresh EXCEPT !.param = [r.param EXCEPT ![1] = Nul]]

\* get_ruta
GetRuta(r, uri) == Yylex[[r |-> Cleared(r), text |-> uri]]
=============================================================================
