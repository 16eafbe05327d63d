-------------------------- MODULE Requests_proofs --------------------------
(***************************************************************************)
(* Proofs about Requests and the scanner of URIs it uses.                  *)
(*                                                                         *)
(* The scanner is a loop, and what it computes is proved by induction over *)
(* what is left of the URI (Recursion): the route it finds does not depend *)
(* on what the variables held before (GetRutaIsOwn), and it ends the       *)
(* process on nothing but a game id without a dot (GetRutaDotless).        *)
(*                                                                         *)
(* The requests keep the invariant IInv: who copies the route holds the    *)
(* mutex, and until the handler asks for the body, buffer and socket hold  *)
(* exactly what the client sends from the first byte of the request on.    *)
(***************************************************************************)
EXTENDS Requests, Recursion, SequenceTheorems

(***************************************************************************)
(* Least and greatest numbers.                                             *)
(***************************************************************************)
\* Min of a set of natural numbers.
LEMMA MinNat ==
  ASSUME NEW T \in SUBSET Nat, T # {}
  PROVE  Min(T) \in T /\ \A y \in T : Min(T) <= y
BY LeastNat DEF Min

\* Min of a set is its least number, and there is no other one.
LEMMA MinIs ==
  ASSUME NEW T \in SUBSET Int, NEW x \in T, \A y \in T : x <= y
  PROVE  Min(T) = x
<1>1. Min(T) \in T /\ \A y \in T : Min(T) <= y
  BY DEF Min
<1>2. Min(T) <= x /\ x <= Min(T) /\ Min(T) \in Int
  BY <1>1
<1> QED BY <1>2

\* Max of a bounded set of natural numbers.
LEMMA MaxNat ==
  ASSUME NEW n \in Nat, NEW T \in SUBSET (0..n), T # {}
  PROVE  Max(T) \in T /\ \A y \in T : y <= Max(T)
<1> DEFINE U == {k \in Nat : n - k \in T}
<1>1. U # {}
  <2>1. PICK y \in T : TRUE
    OBVIOUS
  <2>2. n - y \in Nat /\ n - (n - y) = y
    OBVIOUS
  <2> QED BY <2>1, <2>2
<1>2. PICK k \in U : \A y \in U : k <= y
  BY <1>1, LeastNat
<1>3. ASSUME NEW y \in T PROVE y <= n - k
  <2>1. n - y \in Nat /\ n - (n - y) = y
    OBVIOUS
  <2>2. n - y \in U
    BY <2>1
  <2>3. k <= n - y
    BY <1>2, <2>2
  <2> QED BY <2>1, <2>3
<1> QED BY <1>2, <1>3 DEF Max

(***************************************************************************)
(* The rules.                                                              *)
(***************************************************************************)
\* What the rules with a command have in common.
CommandLike(c) ==
  /\ c.in \in {"initial", "with_session"}
  /\ c.in = "initial" => c.to = "format" /\ c.controller \notin {"game", "tjuego"}
  /\ c.to \in {"format", "with_session", "check_param", "check_gameid"}
  /\ Len(c.text) >= 2
  /\ c.to = "check_gameid" => c.text[Len(c.text)] = "/"
  /\ c.controller \in Controllers /\ c.action \in Actions /\ c.fmt \in Formats \cup {""}

\* Every rule with a command is of this kind.
LEMMA Commands ==
  ASSUME NEW i \in 1..16
  PROVE  CommandLike(CommandRules[i])
<1>1. CommandLike(CommandRules[1])
  <2>1. CommandLike(Rule("initial", <<"/", "login">>, "login", "login", "format"))
    BY DEF CommandLike, Rule, OnSession, OfGame, Controllers, Actions, Formats
  <2>2. CommandRules[1] = Rule("initial", <<"/", "login">>, "login", "login", "format")
    BY DEF CommandRules
  <2> QED BY <2>1, <2>2
<1>2. CommandLike(CommandRules[2])
  <2>1. CommandLike([OnSession(<<"/", "logout">>, "login", "logout", "format") EXCEPT !.fmt = "txt"])
    BY DEF CommandLike, Rule, OnSession, OfGame, Controllers, Actions, Formats
  <2>2. CommandRules[2] = [OnSession(<<"/", "logout">>, "login", "logout", "format") EXCEPT !.fmt = "txt"]
    BY DEF CommandRules
  <2> QED BY <2>1, <2>2
<1>3. CommandLike(CommandRules[3])
  <2>1. CommandLike([Rule("initial", <<"/", "ping">>, "login", "ping", "format") EXCEPT !.fmt = "txt"])
    BY DEF CommandLike, Rule, OnSession, OfGame, Controllers, Actions, Formats
  <2>2. CommandRules[3] = [Rule("initial", <<"/", "ping">>, "login", "ping", "format") EXCEPT !.fmt = "txt"]
    BY DEF CommandRules
  <2> QED BY <2>1, <2>2
<1>4. CommandLike(CommandRules[4])
  <2>1. CommandLike(Rule("initial", <<"/", "help">>, "help", "index", "format"))
    BY DEF CommandLike, Rule, OnSession, OfGame, Controllers, Actions, Formats
  <2>2. CommandRules[4] = Rule("initial", <<"/", "help">>, "help", "index", "format")
    BY DEF CommandRules
  <2> QED BY <2>1, <2>2
<1>5. CommandLike(CommandRules[5])
  <2>1. CommandLike(OnSession(<<"/", "crea", "/">>, "game", "crea", "check_param"))
    BY DEF CommandLike, Rule, OnSession, OfGame, Controllers, Actions, Formats
  <2>2. CommandRules[5] = OnSession(<<"/", "crea", "/">>, "game", "crea", "check_param")
    BY DEF CommandRules
  <2> QED BY <2>1, <2>2
<1>6. CommandLike(CommandRules[6])
  <2>1. CommandLike(OfGame("historial", "historial"))
    BY DEF CommandLike, Rule, OnSession, OfGame, Controllers, Actions, Formats
  <2>2. CommandRules[6] = OfGame("historial", "historial")
    BY DEF CommandRules
  <2> QED BY <2>1, <2>2
<1>7. CommandLike(CommandRules[7])
  <2>1. CommandLike(OnSession(<<"/", "lista", "/">>, "tjuego", "tipojuegos", "check_param"))
    BY DEF CommandLike, Rule, OnSession, OfGame, Controllers, Actions, Formats
  <2>2. CommandRules[7] = OnSession(<<"/", "lista", "/">>, "tjuego", "tipojuegos", "check_param")
    BY DEF CommandRules
  <2> QED BY <2>1, <2>2
<1>8. CommandLike(CommandRules[8])
  <2>1. CommandLike(OnSession(<<"/", "lista">>, "tjuego", "tipojuegos", "format"))
    BY DEF CommandLike, Rule, OnSession, OfGame, Controllers, Actions, Formats
  <2>2. CommandRules[8] = OnSession(<<"/", "lista">>, "tjuego", "tipojuegos", "format")
    BY DEF CommandRules
  <2> QED BY <2>1, <2>2
<1>9. CommandLike(CommandRules[9])
  <2>1. CommandLike(OfGame("move", "mueve"))
    BY DEF CommandLike, Rule, OnSession, OfGame, Controllers, Actions, Formats
  <2>2. CommandRules[9] = OfGame("move", "mueve")
    BY DEF CommandRules
  <2> QED BY <2>1, <2>2
<1>10. CommandLike(CommandRules[10])
  <2>1. CommandLike(OfGame("mueve", "mueve"))
    BY DEF CommandLike, Rule, OnSession, OfGame, Controllers, Actions, Formats
  <2>2. CommandRules[10] = OfGame("mueve", "mueve")
    BY DEF CommandRules
  <2> QED BY <2>1, <2>2
<1>11. CommandLike(CommandRules[11])
  <2>1. CommandLike(OfGame("tablero", "tablero"))
    BY DEF CommandLike, Rule, OnSession, OfGame, Controllers, Actions, Formats
  <2>2. CommandRules[11] = OfGame("tablero", "tablero")
    BY DEF CommandRules
  <2> QED BY <2>1, <2>2
<1>12. CommandLike(CommandRules[12])
  <2>1. CommandLike(OfGame("posibles", "posibles"))
    BY DEF CommandLike, Rule, OnSession, OfGame, Controllers, Actions, Formats
  <2>2. CommandRules[12] = OfGame("posibles", "posibles")
    BY DEF CommandRules
  <2> QED BY <2>1, <2>2
<1>13. CommandLike(CommandRules[13])
  <2>1. CommandLike(OfGame("registra", "registra"))
    BY DEF CommandLike, Rule, OnSession, OfGame, Controllers, Actions, Formats
  <2>2. CommandRules[13] = OfGame("registra", "registra")
    BY DEF CommandRules
  <2> QED BY <2>1, <2>2
<1>14. CommandLike(CommandRules[14])
  <2>1. CommandLike(OnSession(<<"/", "registraciones">>, "game", "registraciones", "with_session"))
    BY DEF CommandLike, Rule, OnSession, OfGame, Controllers, Actions, Formats
  <2>2. CommandRules[14] = OnSession(<<"/", "registraciones">>, "game", "registraciones", "with_session")
    BY DEF CommandRules
  <2> QED BY <2>1, <2>2
<1>15. CommandLike(CommandRules[15])
  <2>1. CommandLike(OfGame("desregistra", "desregistra"))
    BY DEF CommandLike, Rule, OnSession, OfGame, Controllers, Actions, Formats
  <2>2. CommandRules[15] = OfGame("desregistra", "desregistra")
    BY DEF CommandRules
  <2> QED BY <2>1, <2>2
<1>16. CommandLike(CommandRules[16])
  <2>1. CommandLike([OfGame("partida", "partida") EXCEPT !.fmt = "qgame"])
    BY DEF CommandLike, Rule, OnSession, OfGame, Controllers, Actions, Formats
  <2>2. CommandRules[16] = [OfGame("partida", "partida") EXCEPT !.fmt = "qgame"]
    BY DEF CommandRules
  <2> QED BY <2>1, <2>2
<1> QED BY <1>1, <1>2, <1>3, <1>4, <1>5, <1>6, <1>7, <1>8, <1>9, <1>10, <1>11, <1>12, <1>13, <1>14, <1>15, <1>16

\* The patterns a rule matches, one by one.
LEMMA Patterns ==
  ASSUME NEW sc, NEW t, NEW rule \in Matching(sc, t)
  PROVE  \/ rule = 0 /\ sc = "initial" /\ IsSession(t)
         \/ rule = 101 /\ sc = "check_param" /\ IsWord(t)
         \/ rule = 102 /\ sc = "check_gameid" /\ IsGameIdFormat(t)
         \/ rule = 103 /\ sc = "check_gameid" /\ IsGameId(t)
         \/ rule = 104 /\ sc = "format" /\ IsFormat(t)
         \/ /\ rule \in DOMAIN CommandRules /\ rule \in 1..16
            /\ CommandRules[rule].in = sc /\ CommandRules[rule].text = t
<1>1. DOMAIN CommandRules = 1..16
  BY DEF CommandRules
<1> QED BY <1>1 DEF Matching

Symbols == GameChars \cup {"/"}

\* What a rule that matches t does: r becomes q, and "used" symbols are gone.
TakesSession(r, t, q, used) ==
  /\ r.sc = "initial" /\ IsSession(t) /\ used = Len(t)
  /\ q = [r EXCEPT !.session = t[2], !.sc = "with_session"]

TakesCommand(r, t, q, used) ==
  \E i \in 1..16 : LET c == CommandRules[i] IN
    /\ r.sc = c.in /\ t = c.text /\ used = Len(t)
    /\ q = [r EXCEPT !.controller = c.controller, !.action = c.action,
                     !.format = IF c.fmt = "" THEN @ ELSE c.fmt, !.sc = c.to]

TakesWord(r, t, q, used) ==
  /\ r.sc = "check_param" /\ IsWord(t) /\ used = Len(t)
  /\ q = [r EXCEPT !.param = Strcpy(@, t), !.sc = "format"]

TakesGameId(r, t, q, used) ==
  /\ r.sc = "check_gameid" /\ IsGameId(t) /\ used = Len(t)
  /\ q = [r EXCEPT !.param = Strcpy(@, t)]

SplitsGameId(r, t, q, used) ==
  /\ r.sc = "check_gameid" /\ IsGameIdFormat(t) /\ used \in 0..(Len(t) - 2)
  /\ q = [r EXCEPT !.param = Strncpy(@, SubSeq(t, 1, used)), !.sc = "format"]

Fails(r, t, q, used) ==
  /\ r.sc = "check_gameid" /\ IsGameIdFormat(t) /\ DotsIn(t) = {} /\ used = Len(t)
  /\ q = [r EXCEPT !.sc = "error"]

TakesFormat(r, t, q, used) ==
  /\ r.sc = "format" /\ IsFormat(t) /\ used = Len(t)
  /\ q = [r EXCEPT !.format = t[2]]

Takes(r, t, q, used) ==
  \/ TakesSession(r, t, q, used) \/ TakesCommand(r, t, q, used) \/ TakesWord(r, t, q, used)
  \/ TakesGameId(r, t, q, used) \/ SplitsGameId(r, t, q, used) \/ Fails(r, t, q, used)
  \/ TakesFormat(r, t, q, used)

\* What Apply computes for a command,
LEMMA ApplyCommand ==
  ASSUME NEW r, NEW t, NEW rule \in 1..16
  PROVE  /\ Apply(rule, r, t).r = ByCommand(CommandRules[rule], r)
         /\ Apply(rule, r, t).used = Len(t)
<1> DEFINE c == CommandRules[rule]
           q == ByCommand(c, r)
           z == Apply(rule, r, t)
<1>1. rule \notin {0, 101, 102, 103, 104}
  OBVIOUS
<1>2. z = [r |-> q, used |-> Len(t)]
  BY <1>1 DEF Apply
<1> HIDE DEF q, z
<1>3. z.r = q /\ z.used = Len(t)
  BY <1>2
<1> QED BY <1>3 DEF q, z

\* and rule by rule.
LEMMA ApplyTakes ==
  ASSUME NEW r, NEW t \in Seq(Symbols), NEW rule \in Matching(r.sc, t)
  PROVE  Takes(r, t, Apply(rule, r, t).r, Apply(rule, r, t).used)
<1> DEFINE q == Apply(rule, r, t).r
           used == Apply(rule, r, t).used
<1>1. CASE rule = 0 /\ r.sc = "initial" /\ IsSession(t)
  <2>1. q = [r EXCEPT !.session = t[2], !.sc = "with_session"] /\ used = Len(t)
    BY <1>1 DEF Apply
  <2>2. TakesSession(r, t, q, used)
    BY <1>1, <2>1 DEF TakesSession
  <2> QED BY <2>2 DEF Takes
<1>2. CASE rule = 101 /\ r.sc = "check_param" /\ IsWord(t)
  <2>1. q = [r EXCEPT !.param = Strcpy(@, t), !.sc = "format"] /\ used = Len(t)
    BY <1>2 DEF Apply
  <2>2. TakesWord(r, t, q, used)
    BY <1>2, <2>1 DEF TakesWord
  <2> QED BY <2>2 DEF Takes
<1>3. CASE rule = 102 /\ r.sc = "check_gameid" /\ IsGameIdFormat(t)
  <2>1. Apply(rule, r, t) = SplitFormat(r, t)
    BY <1>3 DEF Apply
  <2>2. CASE DotsIn(t) = {}
    <3>1. q = [r EXCEPT !.sc = "error"] /\ used = Len(t)
      BY <2>1, <2>2 DEF SplitFormat
    <3>2. Fails(r, t, q, used)
      BY <1>3, <2>2, <3>1 DEF Fails
    <3> QED BY <3>2 DEF Takes
  <2>3. CASE DotsIn(t) # {}
    <3> DEFINE n == Max(DotsIn(t)) - 1
    <3>1. q = [r EXCEPT !.param = Strncpy(@, SubSeq(t, 1, n)), !.sc = "format"] /\ used = n
      BY <2>1, <2>3 DEF SplitFormat
    <3>2. /\ Len(t) \in Nat /\ DotsIn(t) \in SUBSET (0..Len(t))
          /\ DotsIn(t) \subseteq 1..(Len(t) - 1)
      BY DEF DotsIn
    <3>3. n \in 0..(Len(t) - 2)
      <4>1. Max(DotsIn(t)) \in DotsIn(t)
        BY <2>3, <3>2, MaxNat
      <4> QED BY <3>2, <4>1
    <3> HIDE DEF n
    <3>4. SplitsGameId(r, t, q, used)
      BY <1>3, <3>1, <3>3 DEF SplitsGameId
    <3> QED BY <3>4 DEF Takes
  <2> QED BY <2>2, <2>3
<1>4. CASE rule = 103 /\ r.sc = "check_gameid" /\ IsGameId(t)
  <2>1. q = [r EXCEPT !.param = Strcpy(@, t)] /\ used = Len(t)
    BY <1>4 DEF Apply
  <2>2. TakesGameId(r, t, q, used)
    BY <1>4, <2>1 DEF TakesGameId
  <2> QED BY <2>2 DEF Takes
<1>5. CASE rule = 104 /\ r.sc = "format" /\ IsFormat(t)
  <2>1. q = [r EXCEPT !.format = t[2]] /\ used = Len(t)
    BY <1>5 DEF Apply
  <2>2. TakesFormat(r, t, q, used)
    BY <1>5, <2>1 DEF TakesFormat
  <2> QED BY <2>2 DEF Takes
<1>6. CASE /\ rule \in DOMAIN CommandRules /\ rule \in 1..16
           /\ CommandRules[rule].in = r.sc /\ CommandRules[rule].text = t
  <2> DEFINE c == CommandRules[rule]
  <2>1. /\ q = [r EXCEPT !.controller = c.controller, !.action = c.action,
                         !.format = IF c.fmt = "" THEN @ ELSE c.fmt, !.sc = c.to]
        /\ used = Len(t)
    <3>1. q = ByCommand(c, r) /\ used = Len(t)
      BY <1>6, ApplyCommand
    <3> HIDE DEF q, used, c
    <3> QED BY <3>1 DEF ByCommand
  <2>2. TakesCommand(r, t, q, used)
    BY <1>6, <2>1 DEF TakesCommand
  <2> QED BY <2>2 DEF Takes
<1> QED BY <1>1, <1>2, <1>3, <1>4, <1>5, <1>6, Patterns

\* The variables of the scanner when the program starts.
LEMMA FreshTyped == Fresh \in Results
BY RouteConstants DEF Fresh, Results, StartConditions, Controllers, Actions

\* get_ruta clears results to results.
LEMMA ClearedTyped == ASSUME NEW r \in Results PROVE Cleared(r) \in Results
BY RouteConstants DEF Cleared, Fresh, Results, StartConditions, Controllers, Actions

\* The scanner is at its end.
Halted(s) == s.r.sc = "error" \/ s.text = <<>>

\* What is left to scan; a game id is scanned again from the dot of its format.
Left == [s \in Scans |-> 2 * Len(s.text) + IF s.r.sc = "check_gameid" THEN 1 ELSE 0]

\* strcpy and strncpy leave symbols of game ids and zeros.
LEMMA OverTyped ==
  ASSUME NEW cells \in [1..ParamSize -> GameChars \cup {Nul}], NEW t \in Seq(GameChars)
  PROVE  /\ Strcpy(cells, t) \in [1..ParamSize -> GameChars \cup {Nul}]
         /\ Strncpy(cells, t) \in [1..ParamSize -> GameChars \cup {Nul}]
BY DEF Strcpy, Strncpy, Over

\* The text of a pattern other than a command is made of the symbols of its class.
LEMMA ClassText ==
  ASSUME NEW t \in Seq(Symbols)
  PROVE  /\ IsWord(t) => t \in Seq(GameChars)
         /\ IsGameId(t) => t \in Seq(GameChars)
<1>1. ASSUME ToSet(t) \subseteq GameChars PROVE t \in Seq(GameChars)
  BY <1>1 DEF ToSet
<1> QED BY <1>1 DEF IsWord, IsGameId, GameChars

\* A rule keeps the type, and uses up its text or ends the search for a game id.
LEMMA TakesTyped ==
  ASSUME NEW r \in Results, NEW t \in Seq(Symbols), t # <<>>, NEW q, NEW used,
         Takes(r, t, q, used)
  PROVE  /\ q \in Results
         /\ used \in 0..Len(t)
         /\ used = Len(t) \/ (r.sc = "check_gameid" /\ q.sc = "format")
<1>0. Len(t) \in Nat /\ Len(t) > 0
  OBVIOUS
<1>1. CASE TakesSession(r, t, q, used)
  <2>1. t[2] \in SessIds
    BY <1>1 DEF TakesSession, IsSession
  <2>2. q \in Results
    BY <1>1, <2>1 DEF TakesSession, Results, StartConditions
  <2>3. used = Len(t)
    BY <1>1 DEF TakesSession
  <2> QED BY <1>0, <2>2, <2>3
<1>2. CASE TakesCommand(r, t, q, used)
  <2>1. PICK i \in 1..16 : LET c == CommandRules[i] IN
          /\ r.sc = c.in /\ t = c.text /\ used = Len(t)
          /\ q = [r EXCEPT !.controller = c.controller, !.action = c.action,
                           !.format = IF c.fmt = "" THEN @ ELSE c.fmt, !.sc = c.to]
    BY <1>2 DEF TakesCommand
  <2> DEFINE c == CommandRules[i]
  <2>2. CommandLike(c)
    BY Commands
  <2>3. /\ used = Len(t)
        /\ q = [r EXCEPT !.controller = c.controller, !.action = c.action,
                         !.format = IF c.fmt = "" THEN @ ELSE c.fmt, !.sc = c.to]
    BY <2>1
  <2> HIDE DEF c
  <2>4. q \in Results
    BY <2>2, <2>3 DEF Results, CommandLike, StartConditions
  <2>5. used = Len(t)
    BY <2>3
  <2> QED BY <1>0, <2>4, <2>5
<1>3. CASE TakesWord(r, t, q, used)
  <2>1. Strcpy(r.param, t) \in [1..ParamSize -> GameChars \cup {Nul}]
    BY <1>3, ClassText, OverTyped DEF Results, TakesWord
  <2>2. q \in Results
    BY <1>3, <2>1 DEF TakesWord, Results, StartConditions
  <2>3. used = Len(t)
    BY <1>3 DEF TakesWord
  <2> QED BY <1>0, <2>2, <2>3
<1>4. CASE TakesGameId(r, t, q, used)
  <2>1. Strcpy(r.param, t) \in [1..ParamSize -> GameChars \cup {Nul}]
    BY <1>4, ClassText, OverTyped DEF Results, TakesGameId
  <2>2. q \in Results
    BY <1>4, <2>1 DEF TakesGameId, Results
  <2>3. used = Len(t)
    BY <1>4 DEF TakesGameId
  <2> QED BY <1>0, <2>2, <2>3
<1>5. CASE SplitsGameId(r, t, q, used)
  <2>1. t \in Seq(GameChars)
    BY <1>5, ClassText DEF IsGameIdFormat, SplitsGameId
  <2>2. used \in 0..Len(t)
    BY <1>0, <1>5 DEF SplitsGameId
  <2>3. SubSeq(t, 1, used) \in Seq(GameChars)
    BY <2>1, <2>2
  <2>4. Strncpy(r.param, SubSeq(t, 1, used)) \in [1..ParamSize -> GameChars \cup {Nul}]
    BY <2>3, OverTyped DEF Results
  <2> QED BY <1>5, <2>2, <2>4 DEF SplitsGameId, Results, StartConditions
<1>6. CASE Fails(r, t, q, used)
  <2>1. q \in Results
    BY <1>6 DEF Fails, Results, StartConditions
  <2>2. used = Len(t)
    BY <1>6 DEF Fails
  <2> QED BY <1>0, <2>1, <2>2
<1>7. CASE TakesFormat(r, t, q, used)
  <2>1. t[2] \in Formats
    BY <1>7 DEF TakesFormat, IsFormat
  <2>2. q \in Results
    BY <1>7, <2>1 DEF TakesFormat, Results
  <2>3. used = Len(t)
    BY <1>7 DEF TakesFormat
  <2> QED BY <1>0, <2>2, <2>3
<1> QED BY <1>1, <1>2, <1>3, <1>4, <1>5, <1>6, <1>7 DEF Takes

(***************************************************************************)
(* The scanner, turn by turn.                                              *)
(***************************************************************************)
\* Where the scanner goes from s: it skips a symbol no rule matches, or takes the
\* longest text a rule matches.
Skips(s, z) ==
  /\ z = [s EXCEPT !.text = Tail(@)]
  /\ \A n \in 1..Len(s.text) : Matching(s.r.sc, SubSeq(s.text, 1, n)) = {}

Longest(s, n) ==
  /\ n \in 1..Len(s.text)
  /\ \A k \in 1..Len(s.text) : Matching(s.r.sc, SubSeq(s.text, 1, k)) # {} => k <= n

\* What is left of a URI whose pieces are short has short pieces.
LEMMA RestIsShort ==
  ASSUME NEW t \in Seq(Symbols), Short(t), NEW k \in 0..Len(t)
  PROVE  Short(SubSeq(t, k + 1, Len(t)))
<1> DEFINE z == SubSeq(t, k + 1, Len(t))
<1>1. /\ DOMAIN z = 1..(Len(t) - k) /\ DOMAIN t = 1..Len(t) /\ Len(t) \in Nat
      /\ \A l \in 1..(Len(t) - k) : z[l] = t[l + k]
  OBVIOUS
<1> HIDE DEF z
<1>2. ASSUME NEW i \in DOMAIN z, NEW j \in DOMAIN z, \A l \in i..j : z[l] # "/"
      PROVE  j - i + 1 < ParamSize
  <2>1. i + k \in DOMAIN t /\ j + k \in DOMAIN t
    BY <1>1
  <2>2. ASSUME NEW l \in (i + k)..(j + k) PROVE t[l] # "/"
    <3>1. l - k \in i..j /\ l - k \in 1..(Len(t) - k) /\ (l - k) + k = l
      BY <1>1
    <3> QED BY <1>1, <1>2, <3>1
  <2>3. (j + k) - (i + k) + 1 < ParamSize
    BY <2>1, <2>2 DEF Short
  <2> QED BY <1>1, <2>3, RouteConstants
<1> QED BY <1>2 DEF Short, z

\* What a rule copies to route_param fits, with the 0 behind it: Over cuts nothing.
LEMMA ParametersFit ==
  ASSUME NEW s \in Scans, NEW n \in 1..Len(s.text),
         NEW rule \in Matching(s.r.sc, SubSeq(s.text, 1, n)), rule \in {101, 102, 103}
  PROVE  n < ParamSize
<1> DEFINE t == SubSeq(s.text, 1, n)
<1>1. /\ s.text \in Seq(Symbols) /\ Short(s.text) /\ DOMAIN s.text = 1..Len(s.text)
      /\ Len(s.text) \in Nat
  BY DEF Scans, Symbols
<1>2. DOMAIN t = 1..n /\ \A k \in 1..n : t[k] = s.text[k]
  BY <1>1
<1> HIDE DEF t
<1>3. ToSet(t) \subseteq GameChars
  <2>1. IsWord(t) \/ IsGameId(t)
    BY Patterns DEF t, IsGameIdFormat
  <2> QED BY <2>1 DEF IsWord, IsGameId, GameChars
<1>4. "/" \notin GameChars
  BY RouteConstants DEF GameChars, Words, Formats, Keywords
<1>5. \A k \in 1..n : s.text[k] # "/"
  BY <1>2, <1>3, <1>4 DEF ToSet
<1>6. 1 \in DOMAIN s.text /\ n \in DOMAIN s.text
  BY <1>1
<1>7. n - 1 + 1 < ParamSize
  BY <1>1, <1>5, <1>6 DEF Short
<1> QED BY <1>1, <1>7, RouteConstants

\* A turn of the scanner is one of the two.
LEMMA MatchCases ==
  ASSUME NEW s \in Scans, s.text # <<>>
  PROVE  \/ Skips(s, Match(s))
         \/ \E n \in 1..Len(s.text) : \E q, used :
              /\ Longest(s, n) /\ Takes(s.r, SubSeq(s.text, 1, n), q, used)
              /\ Match(s) = [r |-> q, text |-> SubSeq(s.text, used + 1, Len(s.text))]
              /\ Match(s).r = q /\ Match(s).text = SubSeq(s.text, used + 1, Len(s.text))
<1> DEFINE found == {n \in 1..Len(s.text) : Matching(s.r.sc, SubSeq(s.text, 1, n)) # {}}
           n     == Max(found)
           t     == SubSeq(s.text, 1, n)
           rule  == Min(Matching(s.r.sc, t))
           q     == Apply(rule, s.r, t).r
           used  == Apply(rule, s.r, t).used
<1>1. Match(s) = IF found = {} THEN [s EXCEPT !.text = Tail(@)]
                 ELSE [r |-> q, text |-> SubSeq(s.text, used + 1, Len(s.text))]
  BY DEF Match
<1>2. CASE found = {}
  BY <1>1, <1>2 DEF Skips
<1>3. CASE found # {}
  <2>1. Len(s.text) \in Nat /\ found \in SUBSET (0..Len(s.text))
    BY DEF Scans
  <2>2. n \in found /\ \A k \in found : k <= n
    <3> HIDE DEF found
    <3> QED BY <1>3, <2>1, MaxNat
  <2>3. Matching(s.r.sc, t) \in SUBSET Nat
    <3> SUFFICES ASSUME NEW x \in Matching(s.r.sc, t) PROVE x \in Nat
      OBVIOUS
    <3> HIDE DEF t
    <3> QED BY Patterns
  <2>4. rule \in Matching(s.r.sc, t)
    <3>1. Matching(s.r.sc, t) # {}
      BY <2>2
    <3> HIDE DEF t
    <3> QED BY <2>3, <3>1, MinNat
  <2>5. n \in 1..Len(s.text) /\ Longest(s, n)
    BY <2>2 DEF Longest
  <2>6. t \in Seq(Symbols)
    <3> HIDE DEF n
    <3> QED BY <2>5 DEF Scans, Symbols
  <2>7. Takes(s.r, t, q, used)
    <3> HIDE DEF t, rule
    <3> QED BY <2>4, <2>6, ApplyTakes
  <2>8. Match(s) = [r |-> q, text |-> SubSeq(s.text, used + 1, Len(s.text))]
    BY <1>1, <1>3
  <2>9. Match(s).r = q /\ Match(s).text = SubSeq(s.text, used + 1, Len(s.text))
    <3> DEFINE z == Match(s)
    <3> HIDE DEF q, used, z
    <3>1. z = [r |-> q, text |-> SubSeq(s.text, used + 1, Len(s.text))]
      BY <2>8 DEF z
    <3>2. z.r = q /\ z.text = SubSeq(s.text, used + 1, Len(s.text))
      BY <3>1
    <3> QED BY <3>2 DEF z
  <2> HIDE DEF found, n, q, used
  <2> QED BY <2>5, <2>7, <2>8, <2>9
<1> QED BY <1>2, <1>3

\* Left, spelled out.
LEMMA LeftIs ==
  ASSUME NEW s \in Scans
  PROVE  /\ s.r.sc = "check_gameid" => Left[s] = 2 * Len(s.text) + 1
         /\ s.r.sc # "check_gameid" => Left[s] = 2 * Len(s.text)
         /\ Left[s] \in Nat
<1>1. Len(s.text) \in Nat
  BY DEF Scans
<1>2. Left[s] = 2 * Len(s.text) + (IF s.r.sc = "check_gameid" THEN 1 ELSE 0)
  BY DEF Left
<1>3. CASE s.r.sc = "check_gameid"
  <2>1. Left[s] = 2 * Len(s.text) + 1
    BY <1>2, <1>3
  <2> QED BY <1>1, <1>3, <2>1
<1>4. CASE s.r.sc # "check_gameid"
  <2>1. Left[s] = 2 * Len(s.text) + 0
    BY <1>2, <1>4
  <2> QED BY <1>1, <1>4, <2>1
<1> QED BY <1>3, <1>4

\* A turn leaves a scan with less left: the scanner ends.
LEMMA MatchTyped ==
  ASSUME NEW s \in Scans, ~Halted(s)
  PROVE  Match(s) \in Scans /\ Left[Match(s)] < Left[s]
<1>0. /\ s.r \in Results /\ s.text \in Seq(Symbols) /\ Short(s.text)
      /\ s.text # <<>> /\ Len(s.text) \in Nat /\ Len(s.text) > 0
  BY DEF Scans, Symbols, Halted
<1>1. CASE Skips(s, Match(s))
  <2>1. Match(s).r = s.r /\ Match(s).text = Tail(s.text) /\ Match(s) \in Scans
    <3>1. Tail(s.text) \in Seq(Symbols) /\ Short(Tail(s.text))
      <4> DEFINE t == Tail(s.text)
                 z == SubSeq(s.text, 1 + 1, Len(s.text))
      <4>1. 1 \in 0..Len(s.text) /\ t = z /\ t \in Seq(Symbols)
        BY <1>0
      <4>2. Short(z)
        BY <1>0, <4>1, RestIsShort
      <4> HIDE DEF t, z
      <4>3. Short(t)
        BY <4>1, <4>2
      <4> QED BY <4>1, <4>3 DEF t
    <3>2. Match(s) = [r |-> s.r, text |-> Tail(s.text)]
      BY <1>1 DEF Skips, Scans
    <3>3. Match(s).r = s.r /\ Match(s).text = Tail(s.text)
      BY <1>1 DEF Skips, Scans
    <3> QED BY <1>0, <3>1, <3>2, <3>3 DEF Scans, Symbols
  <2>2. Len(Tail(s.text)) = Len(s.text) - 1
    BY <1>0
  <2> DEFINE z == Match(s)
  <2> HIDE DEF z
  <2>3. z \in Scans /\ z.r.sc = s.r.sc /\ Len(z.text) = Len(s.text) - 1
    BY <2>1, <2>2 DEF z
  <2>4. CASE s.r.sc = "check_gameid"
    <3>1. Left[z] = 2 * Len(z.text) + 1 /\ Left[s] = 2 * Len(s.text) + 1
      BY <2>3, <2>4, LeftIs
    <3> QED BY <1>0, <2>3, <3>1 DEF z
  <2>5. CASE s.r.sc # "check_gameid"
    <3>1. Left[z] = 2 * Len(z.text) /\ Left[s] = 2 * Len(s.text)
      BY <2>3, <2>5, LeftIs
    <3> QED BY <1>0, <2>3, <3>1 DEF z
  <2> QED BY <2>4, <2>5
<1>2. ASSUME NEW n \in 1..Len(s.text), NEW q, NEW used,
             Takes(s.r, SubSeq(s.text, 1, n), q, used),
             Match(s) = [r |-> q, text |-> SubSeq(s.text, used + 1, Len(s.text))],
             Match(s).r = q, Match(s).text = SubSeq(s.text, used + 1, Len(s.text))
      PROVE  Match(s) \in Scans /\ Left[Match(s)] < Left[s]
  <2> DEFINE t == SubSeq(s.text, 1, n)
             rest == SubSeq(s.text, used + 1, Len(s.text))
  <2>1. t \in Seq(Symbols) /\ Len(t) = n /\ t # <<>>
    BY <1>0
  <2>2. /\ q \in Results
        /\ used \in 0..n
        /\ used = n \/ (s.r.sc = "check_gameid" /\ q.sc = "format")
    <3>1. Takes(s.r, t, q, used)
      BY <1>2
    <3> HIDE DEF t
    <3> QED BY <1>0, <2>1, <3>1, TakesTyped
  <2>3. rest \in Seq(Symbols) /\ Len(rest) = Len(s.text) - used /\ Short(rest)
    <3>1. rest \in Seq(Symbols) /\ Len(rest) = Len(s.text) - used
      BY <1>0, <2>2
    <3>2. used \in 0..Len(s.text)
      BY <1>0, <2>2
    <3> QED BY <1>0, <3>1, <3>2, RestIsShort
  <2>4. Match(s).r = q /\ Match(s).text = rest
    BY <1>2
  <2>5. Match(s) \in Scans
    <3> HIDE DEF rest
    <3>1. rest \in {x \in Seq(GameChars \cup {"/"}) : Short(x)}
      BY <2>3 DEF Symbols
    <3>2. Match(s) = [r |-> q, text |-> rest]
      BY <1>2 DEF rest
    <3> QED BY <2>2, <3>1, <3>2 DEF Scans
  <2> HIDE DEF rest
  <2>6. Left[Match(s)] <= 2 * Len(rest) + 1 /\ (q.sc = "format" => Left[Match(s)] <= 2 * Len(rest))
    BY <2>3, <2>4, <2>5, LeftIs, <1>0
  <2>7. Left[s] >= 2 * Len(s.text) /\ (s.r.sc = "check_gameid" => Left[s] >= 2 * Len(s.text) + 1)
    BY <1>0, LeftIs
  <2>8. Left[s] \in Nat /\ Left[Match(s)] \in Nat
    BY <2>5, LeftIs
  <2> QED BY <1>0, <2>2, <2>3, <2>5, <2>6, <2>7, <2>8
<1> QED BY <1>0, <1>1, <1>2, MatchCases

\* A set of scans with each one that is at its end or steps into it has them all.
LEMMA ScanInduction ==
  ASSUME NEW P, \A s \in Scans : Halted(s) \/ Match(s) \in P => s \in P
  PROVE  Scans \subseteq P
<1>1. Left \in [Scans -> Nat]
  <2>1. \A s \in Scans : Left[s] \in Nat
    BY LeftIs
  <2> QED BY <2>1 DEF Left
<1>2. ASSUME NEW s \in Scans, \A z \in Scans : Left[z] < Left[s] => z \in P PROVE s \in P
  <2>1. CASE Halted(s)
    BY <2>1
  <2>2. CASE ~Halted(s)
    BY <1>2, <2>2, MatchTyped
  <2> QED BY <2>1, <2>2
<1> QED BY <1>1, <1>2, MeasureInduction

\* yylex is the loop that Match is a turn of, and ends with a result.
LEMMA YylexIs ==
  /\ Yylex \in [Scans -> Results]
  /\ \A s \in Scans : Yylex[s] = IF s.r.sc = "error" THEN s.r
                                 ELSE IF s.text = <<>> THEN AtEnd(s.r) ELSE Yylex[Match(s)]
<1> DEFINE halt == {s \in Scans : Halted(s)}
           next == [s \in Scans |-> IF Halted(s) THEN s ELSE Match(s)]
           out  == [s \in Scans |-> IF s.r.sc = "error" THEN s.r ELSE AtEnd(s.r)]
           Body(g) == [s \in Scans |-> IF s.r.sc = "error" THEN s.r
                                       ELSE IF s.text = <<>> THEN AtEnd(s.r) ELSE g[Match(s)]]
<1>1. Left \in [Scans -> Nat]
  <2>1. \A s \in Scans : Left[s] \in Nat
    BY LeftIs
  <2> QED BY <2>1 DEF Left
<1>2. next \in [Scans -> Scans]
  BY MatchTyped
<1>3. out \in [Scans -> Results]
  <2>1. \A r \in Results : AtEnd(r) \in Results
    <3> TAKE r \in Results
    <3>1. [r EXCEPT !.controller = "login", !.action = "welcome"] \in Results
      BY DEF Results, Controllers, Actions
    <3> QED BY <3>1 DEF AtEnd
  <2>2. \A s \in Scans : s.r \in Results
    BY DEF Scans
  <2> QED BY <2>1, <2>2
<1>4. \A s \in Scans : s \notin halt => Left[next[s]] < Left[s]
  BY MatchTyped
<1>5. Results # {}
  BY FreshTyped
<1>6. PICK f : LoopComputes(Scans, Results, halt, next, out, f)
  <2> HIDE DEF halt, next, out
  <2> QED BY <1>1, <1>2, <1>3, <1>4, <1>5, LoopFunctionExists
<1>7. \A s \in Scans : f[s] = IF s.r.sc = "error" THEN s.r
                              ELSE IF s.text = <<>> THEN AtEnd(s.r) ELSE f[Match(s)]
  BY <1>6 DEF LoopComputes, Halted
<1>8. f = Body(f)
  BY <1>6, <1>7 DEF LoopComputes
<1>9. Yylex = Body(Yylex)
  <2>1. Yylex = CHOOSE g : g = Body(g)
    BY DEF Yylex
  <2> HIDE DEF Body
  <2> QED BY <1>8, <2>1
<1>10. \A s \in Scans : Yylex[s] = IF s.r.sc = "error" THEN s.r
                                   ELSE IF s.text = <<>> THEN AtEnd(s.r) ELSE Yylex[Match(s)]
  BY <1>9
<1>11. \A s \in Scans : Yylex[s] \in Results
  <2> DEFINE P == {s \in Scans : Yylex[s] \in Results}
  <2>1. ASSUME NEW s \in Scans, Halted(s) \/ Match(s) \in P PROVE s \in P
    <3>1. CASE Halted(s)
      <4>1. Yylex[s] = out[s]
        BY <1>10, <3>1 DEF Halted
      <4> HIDE DEF out
      <4> QED BY <1>3, <4>1
    <3>2. CASE ~Halted(s)
      <4>1. Yylex[s] = Yylex[Match(s)]
        BY <1>10, <3>2 DEF Halted
      <4> QED BY <2>1, <3>2, <4>1
    <3> QED BY <3>1, <3>2
  <2>2. Scans \subseteq P
    <3> HIDE DEF P
    <3> QED BY <2>1, ScanInduction
  <2> QED BY <2>2
<1> QED BY <1>9, <1>10, <1>11

(***************************************************************************)
(* Who may be routed where.                                                *)
(***************************************************************************)
HasSession(r) ==
  /\ r.sc \in {"with_session", "check_param", "check_gameid", "error"} => r.session # Nul
  /\ r.controller \in {"game", "tjuego"} => r.session # Nul

\* No rule gets to the commands behind a session without one.
LEMMA TakesSessions ==
  ASSUME NEW r \in Results, NEW t, NEW q, NEW used, Takes(r, t, q, used), HasSession(r)
  PROVE  HasSession(q)
<1>1. CASE TakesSession(r, t, q, used)
  <2>1. t[2] # Nul
    BY <1>1, RouteConstants DEF TakesSession, IsSession, GameChars
  <2> QED BY <1>1, <2>1 DEF TakesSession, HasSession, Results
<1>2. CASE TakesCommand(r, t, q, used)
  <2>1. PICK i \in 1..16 : LET c == CommandRules[i] IN
          /\ r.sc = c.in
          /\ q = [r EXCEPT !.controller = c.controller, !.action = c.action,
                           !.format = IF c.fmt = "" THEN @ ELSE c.fmt, !.sc = c.to]
    BY <1>2 DEF TakesCommand
  <2> DEFINE c == CommandRules[i]
  <2>2. CommandLike(c)
    BY Commands
  <2>3. r.sc = c.in /\ q.sc = c.to /\ q.controller = c.controller /\ q.session = r.session
    BY <2>1 DEF Results
  <2> HIDE DEF c
  <2> QED BY <2>2, <2>3 DEF CommandLike, HasSession
<1>3. CASE TakesWord(r, t, q, used)
  BY <1>3 DEF TakesWord, HasSession, Results
<1>4. CASE TakesGameId(r, t, q, used)
  BY <1>4 DEF TakesGameId, HasSession, Results
<1>5. CASE SplitsGameId(r, t, q, used)
  BY <1>5 DEF SplitsGameId, HasSession, Results
<1>6. CASE Fails(r, t, q, used)
  BY <1>6 DEF Fails, HasSession, Results
<1>7. CASE TakesFormat(r, t, q, used)
  BY <1>7 DEF TakesFormat, HasSession, Results
<1> QED BY <1>1, <1>2, <1>3, <1>4, <1>5, <1>6, <1>7 DEF Takes

\* Neither does the scanner.
LEMMA YylexSessions ==
  ASSUME NEW s \in Scans, HasSession(s.r)
  PROVE  HasSession(Yylex[s])
<1> DEFINE P == {z \in Scans : HasSession(z.r) => HasSession(Yylex[z])}
<1>1. ASSUME NEW z \in Scans, Halted(z) \/ Match(z) \in P PROVE z \in P
  <2> SUFFICES ASSUME HasSession(z.r) PROVE HasSession(Yylex[z])
    OBVIOUS
  <2>1. z.r \in Results
    BY DEF Scans
  <2>2. CASE Halted(z)
    <3>1. HasSession(AtEnd(z.r))
      BY <2>1 DEF HasSession, AtEnd, Results
    <3> QED BY <2>2, <3>1, YylexIs DEF Halted
  <2>3. CASE ~Halted(z)
    <3>1. HasSession(Match(z).r)
      <4>1. CASE Skips(z, Match(z))
        <5>1. Match(z).r = z.r
          BY <4>1 DEF Skips, Scans
        <5> QED BY <5>1
      <4>2. ASSUME NEW n, NEW q, NEW used,
                   Takes(z.r, SubSeq(z.text, 1, n), q, used), Match(z).r = q
            PROVE  HasSession(Match(z).r)
        BY <2>1, <4>2, TakesSessions
      <4> QED BY <2>3, <4>1, <4>2, MatchCases DEF Halted
    <3>2. Yylex[z] = Yylex[Match(z)]
      BY <2>3, YylexIs DEF Halted
    <3> QED BY <1>1, <2>3, <3>1, <3>2
  <2> QED BY <2>2, <2>3
<1>2. Scans \subseteq P
  <2> HIDE DEF P
  <2> QED BY <1>1, ScanInduction
<1> QED BY <1>2

(***************************************************************************)
(* What the scanner finds does not depend on what route_param held before, *)
(* but for what lies behind what it has written there.                     *)
(***************************************************************************)
Cells == [1..ParamSize -> GameChars \cup {Nul}]

\* p is q up to a cell, and Nul behind it.
Shadows(p, q) ==
  \E k \in 0..ParamSize : /\ \A i \in 1..k : p[i] = q[i]
                          /\ \A i \in (k + 1)..ParamSize : p[i] = Nul

Alike(r, q) ==
  /\ r.sc = q.sc /\ r.controller = q.controller /\ r.action = q.action
  /\ r.format = q.format /\ r.session = q.session
  /\ Shadows(r.param, q.param)

\* Writing the same text over a shadow and its original keeps it one.
LEMMA OverShadows ==
  ASSUME NEW p \in Cells, NEW q \in Cells, Shadows(p, q), NEW n \in Nat, NEW t, Len(t) = n
  PROVE  Shadows(Over(p, t), Over(q, t))
<1>1. PICK k \in 0..ParamSize : /\ \A i \in 1..k : p[i] = q[i]
                                /\ \A i \in (k + 1)..ParamSize : p[i] = Nul
  BY DEF Shadows
<1>2. PICK m \in 0..ParamSize : m >= k /\ (n <= ParamSize => m >= n) /\ (n > ParamSize => m = ParamSize)
                                /\ (m = k \/ m <= n)
  <2>1. CASE n > ParamSize
    BY <2>1, RouteConstants
  <2>2. CASE n <= ParamSize
    BY <2>2, RouteConstants
  <2> QED BY <2>1, <2>2, RouteConstants
<1>3. \A i \in 1..ParamSize : /\ Over(p, t)[i] = IF i <= n THEN t[i] ELSE p[i]
                              /\ Over(q, t)[i] = IF i <= n THEN t[i] ELSE q[i]
  BY DEF Over, Cells
<1>4. \A i \in 1..m : Over(p, t)[i] = Over(q, t)[i]
  <2> SUFFICES ASSUME NEW i \in 1..m PROVE Over(p, t)[i] = Over(q, t)[i]
    OBVIOUS
  <2>1. i \in 1..ParamSize /\ (i <= n \/ i <= k)
    BY <1>2, RouteConstants
  <2> QED BY <1>1, <1>3, <2>1
<1>5. \A i \in (m + 1)..ParamSize : Over(p, t)[i] = Nul
  <2> SUFFICES ASSUME NEW i \in (m + 1)..ParamSize PROVE Over(p, t)[i] = Nul
    OBVIOUS
  <2>1. i \in 1..ParamSize /\ i > n /\ i \in (k + 1)..ParamSize
    BY <1>2, RouteConstants
  <2> QED BY <1>1, <1>3, <2>1
<1> QED BY <1>4, <1>5 DEF Shadows

\* So do strcpy and strncpy.
LEMMA CopiesShadow ==
  ASSUME NEW p \in Cells, NEW q \in Cells, Shadows(p, q), NEW t \in Seq(Symbols)
  PROVE  Shadows(Strcpy(p, t), Strcpy(q, t)) /\ Shadows(Strncpy(p, t), Strncpy(q, t))
<1>1. Len(t) \in Nat /\ Len(Append(t, Nul)) = Len(t) + 1
  OBVIOUS
<1>2. Shadows(Over(p, t), Over(q, t))
  BY <1>1, OverShadows
<1>3. Len(Append(t, Nul)) \in Nat
  BY <1>1
<1>4. Shadows(Over(p, Append(t, Nul)), Over(q, Append(t, Nul)))
  BY <1>3, OverShadows
<1> QED BY <1>2, <1>4 DEF Strcpy, Strncpy

\* The parameter of a shadow is the beginning of the other one.
LEMMA ShadowPrefix ==
  ASSUME NEW p \in Cells, NEW q \in Cells, Shadows(p, q)
  PROVE  IsPrefix(CString(p), CString(q))
<1> DEFINE Ends(c) == {i \in DOMAIN c : c[i] = Nul} \cup {Len(c) + 1}
           a == Min(Ends(p))
           b == Min(Ends(q))
<1>0. ParamSize \in Nat
  BY RouteConstants
<1>1. PICK k \in 0..ParamSize : /\ \A i \in 1..k : p[i] = q[i]
                                /\ \A i \in (k + 1)..ParamSize : p[i] = Nul
  BY DEF Shadows
<1>2. p \in Seq(GameChars \cup {Nul}) /\ Len(p) = ParamSize /\ DOMAIN p = 1..ParamSize
  BY <1>0 DEF Cells
<1>3. q \in Seq(GameChars \cup {Nul}) /\ Len(q) = ParamSize /\ DOMAIN q = 1..ParamSize
  BY <1>0 DEF Cells
<1>4. Ends(p) \in SUBSET Nat /\ Ends(p) # {} /\ Ends(q) \in SUBSET Nat /\ Ends(q) # {}
  BY <1>0, <1>2, <1>3
<1>5. a \in Ends(p) /\ (\A y \in Ends(p) : a <= y) /\ b \in Ends(q) /\ (\A y \in Ends(q) : b <= y)
  <2> HIDE DEF Ends
  <2> QED BY <1>4, MinNat
<1>6. a \in 1..(ParamSize + 1) /\ b \in 1..(ParamSize + 1)
  BY <1>0, <1>2, <1>3, <1>5
<1>7. a <= k + 1
  <2>1. CASE k = ParamSize
    BY <2>1, <1>6
  <2>2. CASE k < ParamSize
    <3>1. k + 1 \in DOMAIN p /\ p[k + 1] = Nul
      BY <1>0, <1>1, <1>2, <2>2
    <3>2. k + 1 \in Ends(p)
      BY <3>1
    <3> QED BY <1>5, <3>2
  <2> QED BY <1>0, <2>1, <2>2
<1>8. b >= a
  <2> SUFFICES ASSUME b < a PROVE FALSE
    BY <1>6
  <2>1. b \in 1..k /\ b \in 1..ParamSize
    BY <1>0, <1>6, <1>7
  <2>2. q[b] = Nul
    BY <1>3, <1>5, <2>1
  <2>3. b \in Ends(p)
    BY <1>1, <1>2, <2>1, <2>2
  <2>4. a <= b
    <3> HIDE DEF Ends, a, b
    <3> QED BY <1>5, <2>3
  <2> QED BY <1>6, <2>4
<1>9. \A i \in 1..(a - 1) : p[i] = q[i]
  BY <1>1, <1>6, <1>7
<1>10. CString(p) = SubSeq(p, 1, a - 1) /\ CString(q) = SubSeq(q, 1, b - 1)
  BY DEF CString
<1> HIDE DEF a, b
<1>11. Len(SubSeq(p, 1, a - 1)) = a - 1 /\ Len(SubSeq(q, 1, b - 1)) = b - 1
  BY <1>2, <1>3, <1>6
<1>12. SubSeq(SubSeq(q, 1, b - 1), 1, a - 1) = SubSeq(p, 1, a - 1)
  BY <1>0, <1>2, <1>3, <1>6, <1>8, <1>9
<1> QED BY <1>6, <1>8, <1>10, <1>11, <1>12 DEF IsPrefix

\* A rule does the same to results that are alike,
LEMMA ApplyAlike ==
  ASSUME NEW r \in Results, NEW r2 \in Results, Alike(r, r2), NEW t \in Seq(Symbols),
         NEW rule \in Matching(r.sc, t)
  PROVE  /\ Apply(rule, r, t).used = Apply(rule, r2, t).used
         /\ Alike(Apply(rule, r, t).r, Apply(rule, r2, t).r)
<1> DEFINE q == Apply(rule, r, t).r
           q2 == Apply(rule, r2, t).r
           used == Apply(rule, r, t).used
           used2 == Apply(rule, r2, t).used
<1> SUFFICES used = used2 /\ Alike(q, q2)
  OBVIOUS
<1>0. /\ r.param \in Cells /\ r2.param \in Cells /\ Shadows(r.param, r2.param)
      /\ Shadows(Strcpy(r.param, t), Strcpy(r2.param, t))
  <2>1. r.param \in Cells /\ r2.param \in Cells /\ Shadows(r.param, r2.param)
    BY DEF Results, Cells, Alike
  <2> QED BY <2>1, CopiesShadow
<1>1. CASE rule = 0
  <2>1. q = [r EXCEPT !.session = t[2], !.sc = "with_session"] /\ used = Len(t)
    BY <1>1 DEF Apply
  <2>2. q2 = [r2 EXCEPT !.session = t[2], !.sc = "with_session"] /\ used2 = Len(t)
    BY <1>1 DEF Apply
  <2> HIDE DEF q, q2, used, used2
  <2> QED BY <2>1, <2>2 DEF Alike, Results
<1>2. CASE rule = 101
  <2>1. q = [r EXCEPT !.param = Strcpy(@, t), !.sc = "format"] /\ used = Len(t)
    BY <1>2 DEF Apply
  <2>2. q2 = [r2 EXCEPT !.param = Strcpy(@, t), !.sc = "format"] /\ used2 = Len(t)
    BY <1>2 DEF Apply
  <2> HIDE DEF q, q2, used, used2
  <2> QED BY <1>0, <2>1, <2>2 DEF Alike, Results
<1>3. CASE rule = 102 /\ IsGameIdFormat(t)
  <2>1. Apply(rule, r, t) = SplitFormat(r, t) /\ Apply(rule, r2, t) = SplitFormat(r2, t)
    BY <1>3 DEF Apply
  <2>2. CASE DotsIn(t) = {}
    <3>1. q = [r EXCEPT !.sc = "error"] /\ used = Len(t)
      BY <2>1, <2>2 DEF SplitFormat
    <3>2. q2 = [r2 EXCEPT !.sc = "error"] /\ used2 = Len(t)
      BY <2>1, <2>2 DEF SplitFormat
    <3> HIDE DEF q, q2, used, used2
    <3> QED BY <3>1, <3>2 DEF Alike, Results
  <2>3. CASE DotsIn(t) # {}
    <3> DEFINE n == Max(DotsIn(t)) - 1
    <3>1. q = [r EXCEPT !.param = Strncpy(@, SubSeq(t, 1, n)), !.sc = "format"] /\ used = n
      BY <2>1, <2>3 DEF SplitFormat
    <3>2. q2 = [r2 EXCEPT !.param = Strncpy(@, SubSeq(t, 1, n)), !.sc = "format"] /\ used2 = n
      BY <2>1, <2>3 DEF SplitFormat
    <3>3. /\ Len(t) \in Nat /\ DotsIn(t) \in SUBSET (0..Len(t))
          /\ DotsIn(t) \subseteq 1..(Len(t) - 1)
      BY DEF DotsIn
    <3>4. n \in 0..Len(t)
      <4>1. Max(DotsIn(t)) \in DotsIn(t)
        BY <2>3, <3>3, MaxNat
      <4> QED BY <3>3, <4>1
    <3> HIDE DEF n, q, q2, used, used2
    <3>5. SubSeq(t, 1, n) \in Seq(Symbols)
      BY <3>4
    <3>6. Shadows(Strncpy(r.param, SubSeq(t, 1, n)), Strncpy(r2.param, SubSeq(t, 1, n)))
      BY <1>0, <3>5, CopiesShadow
    <3> QED BY <3>1, <3>2, <3>6 DEF Alike, Results
  <2> QED BY <2>2, <2>3
<1>4. CASE rule = 103
  <2>1. q = [r EXCEPT !.param = Strcpy(@, t)] /\ used = Len(t)
    BY <1>4 DEF Apply
  <2>2. q2 = [r2 EXCEPT !.param = Strcpy(@, t)] /\ used2 = Len(t)
    BY <1>4 DEF Apply
  <2> HIDE DEF q, q2, used, used2
  <2> QED BY <1>0, <2>1, <2>2 DEF Alike, Results
<1>5. CASE rule = 104
  <2>1. q = [r EXCEPT !.format = t[2]] /\ used = Len(t)
    BY <1>5 DEF Apply
  <2>2. q2 = [r2 EXCEPT !.format = t[2]] /\ used2 = Len(t)
    BY <1>5 DEF Apply
  <2> HIDE DEF q, q2, used, used2
  <2> QED BY <2>1, <2>2 DEF Alike, Results
<1>6. CASE rule \in 1..16
  <2> DEFINE c == CommandRules[rule]
  <2>1. /\ q = [r EXCEPT !.controller = c.controller, !.action = c.action,
                         !.format = IF c.fmt = "" THEN @ ELSE c.fmt, !.sc = c.to]
        /\ used = Len(t)
    <3>1. q = ByCommand(c, r) /\ used = Len(t)
      BY <1>6, ApplyCommand
    <3> HIDE DEF q, used, c
    <3> QED BY <3>1 DEF ByCommand
  <2>2. /\ q2 = [r2 EXCEPT !.controller = c.controller, !.action = c.action,
                           !.format = IF c.fmt = "" THEN @ ELSE c.fmt, !.sc = c.to]
        /\ used2 = Len(t)
    <3>1. q2 = ByCommand(c, r2) /\ used2 = Len(t)
      BY <1>6, ApplyCommand
    <3> HIDE DEF q2, used2, c
    <3> QED BY <3>1 DEF ByCommand
  <2> HIDE DEF q, q2, used, used2, c
  <2> QED BY <2>1, <2>2 DEF Alike, Results
<1> QED BY <1>1, <1>2, <1>3, <1>4, <1>5, <1>6, Patterns

\* a turn of the scanner too,
LEMMA MatchAlike ==
  ASSUME NEW s \in Scans, NEW z \in Scans, s.text = z.text, Alike(s.r, z.r), s.text # <<>>
  PROVE  Match(s).text = Match(z).text /\ Alike(Match(s).r, Match(z).r)
<1> DEFINE found == {n \in 1..Len(s.text) : Matching(s.r.sc, SubSeq(s.text, 1, n)) # {}}
           n     == Max(found)
           t     == SubSeq(s.text, 1, n)
           rule  == Min(Matching(s.r.sc, t))
           a     == Apply(rule, s.r, t)
           b     == Apply(rule, z.r, t)
<1>0. s.r.sc = z.r.sc
  BY DEF Alike
<1>1. Match(s) = IF found = {} THEN [s EXCEPT !.text = Tail(@)]
                 ELSE [r |-> a.r, text |-> SubSeq(s.text, a.used + 1, Len(s.text))]
  BY DEF Match
<1>2. Match(z) = IF found = {} THEN [z EXCEPT !.text = Tail(@)]
                 ELSE [r |-> b.r, text |-> SubSeq(s.text, b.used + 1, Len(s.text))]
  BY <1>0 DEF Match
<1>3. CASE found = {}
  <2>1. Match(s).r = s.r /\ Match(s).text = Tail(s.text)
    BY <1>1, <1>3 DEF Scans
  <2>2. Match(z).r = z.r /\ Match(z).text = Tail(s.text)
    BY <1>2, <1>3 DEF Scans
  <2> QED BY <2>1, <2>2
<1>4. CASE found # {}
  <2>1. Len(s.text) \in Nat /\ found \in SUBSET (0..Len(s.text))
    BY DEF Scans
  <2>2. n \in found
    <3> HIDE DEF found
    <3> QED BY <1>4, <2>1, MaxNat
  <2>3. rule \in Matching(s.r.sc, t)
    <3>1. Matching(s.r.sc, t) # {}
      BY <2>2
    <3>2. Matching(s.r.sc, t) \in SUBSET Nat
      <4> SUFFICES ASSUME NEW x \in Matching(s.r.sc, t) PROVE x \in Nat
        OBVIOUS
      <4> HIDE DEF t
      <4> QED BY Patterns
    <3> HIDE DEF t
    <3> QED BY <3>1, <3>2, MinNat
  <2>4. t \in Seq(Symbols)
    <3>1. n \in 1..Len(s.text)
      BY <2>2
    <3> HIDE DEF n
    <3> QED BY <3>1 DEF Scans, Symbols
  <2>5. s.r \in Results /\ z.r \in Results
    BY DEF Scans
  <2>6. a.used = b.used /\ Alike(a.r, b.r)
    <3> HIDE DEF t, rule
    <3> QED BY <2>3, <2>4, <2>5, ApplyAlike
  <2>7. Match(s) = [r |-> a.r, text |-> SubSeq(s.text, a.used + 1, Len(s.text))]
    BY <1>1, <1>4
  <2>8. Match(z) = [r |-> b.r, text |-> SubSeq(s.text, b.used + 1, Len(s.text))]
    BY <1>2, <1>4
  <2> DEFINE ms == Match(s)
             mz == Match(z)
  <2> HIDE DEF a, b, found, n, t, rule, ms, mz
  <2>9. /\ ms = [r |-> a.r, text |-> SubSeq(s.text, a.used + 1, Len(s.text))]
        /\ mz = [r |-> b.r, text |-> SubSeq(s.text, b.used + 1, Len(s.text))]
    BY <2>7, <2>8 DEF ms, mz
  <2>10. /\ ms.r = a.r /\ ms.text = SubSeq(s.text, a.used + 1, Len(s.text))
         /\ mz.r = b.r /\ mz.text = SubSeq(s.text, b.used + 1, Len(s.text))
    BY <2>9
  <2>11. ms.text = mz.text /\ Alike(ms.r, mz.r)
    BY <2>6, <2>10
  <2> QED BY <2>11 DEF ms, mz
<1> QED BY <1>3, <1>4

\* and the scanner.
LEMMA YylexAlike ==
  ASSUME NEW s \in Scans, NEW y \in Scans, s.text = y.text, Alike(s.r, y.r)
  PROVE  Alike(Yylex[s], Yylex[y])
<1> DEFINE P == {z \in Scans : \A x \in Scans :
                   z.text = x.text /\ Alike(z.r, x.r) => Alike(Yylex[z], Yylex[x])}
<1>1. ASSUME NEW z \in Scans, Halted(z) \/ Match(z) \in P PROVE z \in P
  <2> SUFFICES ASSUME NEW x \in Scans, z.text = x.text, Alike(z.r, x.r)
               PROVE  Alike(Yylex[z], Yylex[x])
    OBVIOUS
  <2>0. z.r \in Results /\ x.r \in Results /\ z.r.sc = x.r.sc
    BY DEF Scans, Alike
  <2>1. CASE Halted(z)
    <3>1. CASE z.r.sc = "error"
      BY <2>0, <3>1, YylexIs
    <3>2. CASE z.r.sc # "error"
      <4>1. Yylex[z] = AtEnd(z.r) /\ Yylex[x] = AtEnd(x.r)
        BY <2>0, <2>1, <3>2, YylexIs DEF Halted
      <4>2. Alike(AtEnd(z.r), AtEnd(x.r))
        BY <2>0 DEF AtEnd, Alike, Results
      <4> QED BY <4>1, <4>2
    <3> QED BY <3>1, <3>2
  <2>2. CASE ~Halted(z)
    <3>1. ~Halted(x)
      BY <2>0, <2>2 DEF Halted
    <3>2. Match(z).text = Match(x).text /\ Alike(Match(z).r, Match(x).r)
      BY <2>2, MatchAlike DEF Halted
    <3>3. Match(x) \in Scans
      BY <3>1, MatchTyped
    <3>4. Yylex[z] = Yylex[Match(z)] /\ Yylex[x] = Yylex[Match(x)]
      BY <2>2, <3>1, YylexIs DEF Halted
    <3>5. Alike(Yylex[Match(z)], Yylex[Match(x)])
      BY <1>1, <2>2, <3>2, <3>3
    <3> QED BY <3>4, <3>5
  <2> QED BY <2>1, <2>2
<1>2. Scans \subseteq P
  <2> HIDE DEF P
  <2> QED BY <1>1, ScanInduction
<1> QED BY <1>2

\* What get_ruta finds is what it finds in a program that has just started, with
\* the parameter as the beginning of the one in route_param, when no piece of the URI
\* is too long for it.
THEOREM GetRutaIsOwn ==
  ASSUME NEW r \in Results, NEW uri \in Seq(Symbols), Short(uri)
  PROVE  LET own == GetRuta(Fresh, uri)
             q   == GetRuta(r, uri) IN
         /\ q \in Results /\ own \in Results
         /\ own.controller = q.controller /\ own.action = q.action
         /\ own.format = q.format /\ own.session = q.session
         /\ IsPrefix(CString(own.param), CString(q.param))
         /\ HasSession(q)
<1> DEFINE s == [r |-> Cleared(Fresh), text |-> uri]
           z == [r |-> Cleared(r), text |-> uri]
<1>1. Cleared(Fresh) \in Results /\ Cleared(r) \in Results
  BY FreshTyped, ClearedTyped
<1>2. s \in Scans /\ z \in Scans
  BY <1>1 DEF Scans, Symbols
<1>3. Alike(Cleared(Fresh), Cleared(r))
  <2>1. \A i \in 1..ParamSize : Cleared(Fresh).param[i] = Nul
    BY DEF Cleared, Fresh
  <2>2. Shadows(Cleared(Fresh).param, Cleared(r).param)
    <3>1. 0 \in 0..ParamSize /\ 0 + 1 = 1
      BY RouteConstants
    <3>2. \A i \in 1..0 : Cleared(Fresh).param[i] = Cleared(r).param[i]
      OBVIOUS
    <3> QED BY <2>1, <3>1, <3>2 DEF Shadows
  <2>3. \A x \in Results : /\ Cleared(x).sc = "initial" /\ Cleared(x).controller = ""
                           /\ Cleared(x).action = "" /\ Cleared(x).format = ""
                           /\ Cleared(x).session = Nul
    BY DEF Cleared, Fresh
  <2> QED BY <2>2, <2>3, FreshTyped DEF Alike
<1>4. HasSession(Cleared(r))
  BY DEF HasSession, Cleared, Fresh
<1>5. Alike(Yylex[s], Yylex[z])
  BY <1>2, <1>3, YylexAlike
<1>6. HasSession(Yylex[z])
  BY <1>2, <1>4, YylexSessions
<1>7. Yylex[s] \in Results /\ Yylex[z] \in Results
  BY <1>2, YylexIs
<1>8. IsPrefix(CString(Yylex[s].param), CString(Yylex[z].param))
  BY <1>5, <1>7, ShadowPrefix DEF Alike, Results, Cells
<1> QED BY <1>5, <1>6, <1>7, <1>8 DEF GetRuta, Alike

(***************************************************************************)
(* What ends the process.                                                  *)
(***************************************************************************)
HasDotlessId(uri) == \E j \in 3..Len(uri) : \E i \in 2..(j - 1) : DotlessId(uri, i, j)

\* The scanner stands behind the first k symbols of the URI.
Behind(uri, s, k) ==
  /\ s.text = SubSeq(uri, k + 1, Len(uri))
  /\ s.r.sc = "check_gameid" => s.text = <<>> \/ s.text[1] = "/" \/ (k >= 1 /\ uri[k] = "/")
  /\ s.r.sc = "error" => HasDotlessId(uri)

\* A game id has no slash, and the name of a format no dot.
LEMMA Slashes == "/" \notin GameChars /\ "." \notin Formats
BY RouteConstants DEF GameChars, Words, Formats, Keywords

\* A text of symbols of game ids is a game id for the scanner.
LEMMA GameIdMatches ==
  ASSUME NEW t \in Seq(GameChars), t # <<>>
  PROVE  Matching("check_gameid", t) # {}
<1>1. IsGameId(t)
  BY DEF IsGameId, ToSet
<1>2. 103 \in Matching("check_gameid", t)
  BY <1>1 DEF Matching
<1> QED BY <1>2

\* The longest game id ends before a slash.
LEMMA GameIdEnds ==
  ASSUME NEW s \in Scans, s.r.sc = "check_gameid", NEW n \in 1..Len(s.text), Longest(s, n),
         IsGameId(SubSeq(s.text, 1, n)), n < Len(s.text)
  PROVE  s.text[n + 1] = "/"
<1> SUFFICES ASSUME s.text[n + 1] # "/" PROVE FALSE
  OBVIOUS
<1>1. s.text \in Seq(Symbols) /\ Len(s.text) \in Nat
  BY DEF Scans, Symbols
<1>2. s.text[n + 1] \in GameChars
  BY <1>1 DEF Symbols
<1>3. \A i \in 1..n : s.text[i] \in GameChars
  <2>1. SubSeq(s.text, 1, n) \in Seq(Symbols)
    BY <1>1
  <2>2. SubSeq(s.text, 1, n) \in Seq(GameChars)
    BY <2>1, ClassText
  <2> QED BY <1>1, <2>2
<1> DEFINE t == SubSeq(s.text, 1, n + 1)
<1>4. Len(t) = n + 1 /\ \A i \in 1..(n + 1) : t[i] = s.text[i]
  BY <1>1
<1>5. t \in Seq(GameChars) /\ t # <<>>
  <2>1. t \in Seq(Symbols)
    BY <1>1
  <2>2. \A i \in 1..(n + 1) : t[i] \in GameChars
    BY <1>2, <1>3, <1>4
  <2> HIDE DEF t
  <2> QED BY <1>4, <2>1, <2>2
<1>6. Matching("check_gameid", t) # {}
  <2> HIDE DEF t
  <2> QED BY <1>5, GameIdMatches
<1>7. n + 1 \in 1..Len(s.text)
  BY <1>1
<1> QED BY <1>6, <1>7 DEF Longest

\* The tail of what is left.
LEMMA TailOfRest ==
  ASSUME NEW S, NEW s \in Seq(S), NEW k \in 0..(Len(s) - 1)
  PROVE  Tail(SubSeq(s, k + 1, Len(s))) = SubSeq(s, (k + 1) + 1, Len(s))
<1> DEFINE n == Len(s)
           rest == SubSeq(s, k + 1, n)
           a == Tail(rest)
           b == SubSeq(s, (k + 1) + 1, n)
<1>1. n \in Nat /\ k \in Nat /\ k < n
  OBVIOUS
<1>2. rest \in Seq(S) /\ Len(rest) = n - k /\ \A i \in 1..(n - k) : rest[i] = s[k + i]
  BY <1>1
<1>3. b \in Seq(S) /\ Len(b) = n - k - 1 /\ \A i \in 1..(n - k - 1) : b[i] = s[(k + 1) + i]
  BY <1>1
<1> HIDE DEF rest, b
<1>4. a \in Seq(S) /\ Len(a) = n - k - 1 /\ \A i \in 1..(n - k - 1) : a[i] = rest[i + 1]
  BY <1>1, <1>2
<1> HIDE DEF a, n
<1>5. ASSUME NEW i \in 1..(n - k - 1) PROVE a[i] = b[i]
  <2>1. i + 1 \in 1..(n - k) /\ k + (i + 1) = (k + 1) + i
    BY <1>1
  <2> QED BY <1>2, <1>3, <1>4, <2>1
<1>6. a = b
  BY <1>3, <1>4, <1>5, SeqEqual
<1> QED BY <1>6 DEF a, b, n, rest

\* A turn of the scanner from behind k symbols ends behind more of them or as many.
LEMMA StaysBehind ==
  ASSUME NEW uri \in Seq(Symbols), NEW s \in Scans, ~Halted(s),
         NEW k \in 0..Len(uri), Behind(uri, s, k)
  PROVE  \E m \in 0..Len(uri) : Behind(uri, Match(s), m)
<1>0. /\ Len(uri) \in Nat /\ s.text \in Seq(Symbols) /\ s.text # <<>>
      /\ s.text = SubSeq(uri, k + 1, Len(uri)) /\ s.r.sc # "error" /\ s.r \in Results
  BY DEF Scans, Symbols, Halted, Behind
<1>1. Len(s.text) = Len(uri) - k /\ \A i \in 1..Len(s.text) : s.text[i] = uri[k + i]
  BY <1>0
<1>2. Len(s.text) \in Nat /\ Len(s.text) > 0
  BY <1>0
<1>3. CASE Skips(s, Match(s))
  <2>1. Match(s).r = s.r /\ Match(s).text = Tail(s.text)
    BY <1>3 DEF Skips, Scans
  <2>2. Tail(s.text) = SubSeq(uri, (k + 1) + 1, Len(uri))
    <3>1. k \in 0..(Len(uri) - 1)
      BY <1>0, <1>1, <1>2
    <3> QED BY <1>0, <3>1, TailOfRest
  <2>3. ASSUME s.r.sc = "check_gameid" PROVE uri[k + 1] = "/"
    <3>0. 1 \in 1..Len(s.text) /\ k \in Int
      BY <1>2
    <3>5. s.text[1] = uri[k + 1]
      BY <1>1, <3>0
    <3> SUFFICES ASSUME s.text[1] # "/" PROVE FALSE
      BY <3>5
    <3>1. s.text[1] \in GameChars
      BY <1>0, <1>2 DEF Symbols
    <3>2. SubSeq(s.text, 1, 1) \in Seq(GameChars) /\ SubSeq(s.text, 1, 1) # <<>>
      BY <1>0, <1>2, <3>1
    <3>3. Matching("check_gameid", SubSeq(s.text, 1, 1)) # {}
      BY <3>2, GameIdMatches
    <3>4. 1 \in 1..Len(s.text)
      BY <1>2
    <3> QED BY <1>3, <2>3, <3>3, <3>4 DEF Skips
  <2>4. k + 1 \in 0..Len(uri) /\ k + 1 >= 1
    BY <1>0, <1>1, <1>2
  <2>5. Behind(uri, Match(s), k + 1)
    BY <1>0, <2>1, <2>2, <2>3, <2>4 DEF Behind
  <2> QED BY <2>4, <2>5
<1>4. ASSUME NEW n \in 1..Len(s.text), NEW q, NEW used, Longest(s, n),
             Takes(s.r, SubSeq(s.text, 1, n), q, used),
             Match(s).r = q, Match(s).text = SubSeq(s.text, used + 1, Len(s.text))
      PROVE  \E m \in 0..Len(uri) : Behind(uri, Match(s), m)
  <2> DEFINE t == SubSeq(s.text, 1, n)
             z == Match(s)
  <2>1. t \in Seq(Symbols) /\ Len(t) = n /\ t # <<>> /\ \A i \in 1..n : t[i] = s.text[i]
    <3>1. t \in Seq(Symbols) /\ Len(t) = n
      BY <1>0, <1>2
    <3>2. \A i \in 1..n : t[i] = s.text[i]
      BY <1>0, <1>2
    <3> HIDE DEF t
    <3>3. t # <<>>
      BY <1>2, <3>1
    <3> QED BY <3>1, <3>2, <3>3
  <2>2. Takes(s.r, t, q, used) /\ z.r = q /\ z.text = SubSeq(s.text, used + 1, Len(s.text))
    BY <1>4
  <2> HIDE DEF t, z
  <2>3. used \in 0..n
    BY <1>0, <2>1, <2>2, TakesTyped
  <2>4. k + used \in 0..Len(uri) /\ z.text = SubSeq(uri, (k + used) + 1, Len(uri))
    <3>1. k + used \in 0..Len(uri)
      BY <1>0, <1>1, <2>3
    <3>2. SubSeq(s.text, used + 1, Len(s.text)) = SubSeq(uri, (k + used) + 1, Len(uri))
      BY <1>0, <1>1, <1>2, <2>3
    <3> QED BY <2>2, <3>1, <3>2
  <2>5. ASSUME used = n, IsGameId(t), s.r.sc = "check_gameid"
        PROVE  z.text = <<>> \/ z.text[1] = "/"
    <3>1. CASE n < Len(s.text)
      <4>1. s.text[n + 1] = "/"
        BY <1>4, <2>5, <3>1, GameIdEnds DEF t
      <4>2. z.text[1] = s.text[n + 1]
        BY <1>0, <1>2, <2>2, <2>5, <3>1
      <4> QED BY <4>1, <4>2
    <3>2. CASE n = Len(s.text)
      BY <1>0, <1>2, <2>2, <2>5, <3>2
    <3> QED BY <1>2, <3>1, <3>2
  <2> SUFFICES Behind(uri, z, k + used)
    BY <2>4 DEF z
  <2>6. CASE TakesSession(s.r, t, q, used)
    <3>1. q.sc = "with_session"
      BY <1>0, <2>6 DEF TakesSession, Results
    <3> QED BY <2>2, <2>4, <3>1 DEF Behind
  <2>7. CASE TakesCommand(s.r, t, q, used)
    <3>1. PICK i \in 1..16 : LET c == CommandRules[i] IN
            /\ t = c.text /\ used = Len(t)
            /\ q = [s.r EXCEPT !.controller = c.controller, !.action = c.action,
                               !.format = IF c.fmt = "" THEN @ ELSE c.fmt, !.sc = c.to]
      BY <2>7 DEF TakesCommand
    <3> DEFINE c == CommandRules[i]
    <3>2. CommandLike(c)
      BY Commands
    <3>3. t = c.text /\ used = n /\ q.sc = c.to
      BY <1>0, <2>1, <3>1 DEF Results
    <3> HIDE DEF c
    <3>4. ASSUME q.sc = "check_gameid" PROVE uri[k + used] = "/"
      <4>1. t[n] = "/"
        BY <2>1, <3>2, <3>3, <3>4 DEF CommandLike
      <4>2. t[n] = uri[k + n]
        BY <1>1, <2>1
      <4> QED BY <3>3, <4>1, <4>2
    <3>5. q.sc # "error" /\ k + used >= 1
      <4>1. q.sc # "error"
        BY <3>2, <3>3 DEF CommandLike
      <4>2. k + used >= 1
        BY <1>2, <3>3
      <4> QED BY <4>1, <4>2
    <3> QED BY <2>2, <2>4, <3>4, <3>5 DEF Behind
  <2>8. CASE TakesWord(s.r, t, q, used)
    <3>1. q.sc = "format"
      BY <1>0, <2>8 DEF TakesWord, Results
    <3> QED BY <2>2, <2>4, <3>1 DEF Behind
  <2>9. CASE TakesGameId(s.r, t, q, used)
    <3>1. q.sc = "check_gameid" /\ s.r.sc = "check_gameid" /\ used = n /\ IsGameId(t)
      BY <1>0, <2>1, <2>9 DEF TakesGameId, Results
    <3> QED BY <2>2, <2>4, <2>5, <3>1 DEF Behind
  <2>10. CASE SplitsGameId(s.r, t, q, used)
    <3>1. q.sc = "format"
      BY <1>0, <2>10 DEF SplitsGameId, Results
    <3> QED BY <2>2, <2>4, <3>1 DEF Behind
  <2>11. CASE Fails(s.r, t, q, used)
    <3>1. /\ q.sc = "error" /\ s.r.sc = "check_gameid" /\ used = n
          /\ IsGameId(t) /\ Len(t) > 1 /\ Last(t) \in Formats /\ DotsIn(t) = {}
      BY <1>0, <2>1, <2>11 DEF Fails, Results, IsGameIdFormat
    <3>2. t \in Seq(GameChars) /\ n > 1
      BY <2>1, <3>1, ClassText
    <3>3. k >= 1 /\ uri[k] = "/"
      <4>1. s.text[1] \in GameChars
        BY <2>1, <3>2
      <4> QED BY <1>0, <3>1, <4>1, Slashes DEF Behind
    <3>4. \A i \in 1..n : t[i] = uri[k + i]
      <4> TAKE i \in 1..n
      <4>1. i \in 1..Len(s.text)
        BY <1>2
      <4> QED BY <1>1, <2>1, <4>1
    <3>5. \A i \in 1..n : uri[k + i] \notin {".", "/"}
      <4> SUFFICES ASSUME NEW i \in 1..n PROVE t[i] \notin {".", "/"}
        BY <3>4
      <4>1. t[i] \in GameChars
        BY <2>1, <3>2
      <4>2. t[i] # "/"
        BY <4>1, Slashes
      <4>3. CASE i = n
        <5>1. t[i] \in Formats
          BY <2>1, <3>1, <4>3 DEF Last
        <5> QED BY <4>2, <5>1, Slashes
      <4>4. CASE i < n
        <5>1. i \in 1..(Len(t) - 1)
          BY <2>1, <4>4
        <5>2. t[i] # "."
          BY <3>1, <5>1 DEF DotsIn
        <5> QED BY <4>2, <5>2
      <4> QED BY <4>3, <4>4
    <3>6. uri[k + n] \in Formats
      BY <2>1, <3>1, <3>4, <3>2 DEF Last
    <3>7. k + n < Len(uri) => uri[(k + n) + 1] = "/"
      <4> SUFFICES ASSUME k + n < Len(uri) PROVE uri[(k + n) + 1] = "/"
        OBVIOUS
      <4>1. n < Len(s.text)
        BY <1>0, <1>1
      <4>2. s.text[n + 1] = "/"
        BY <1>4, <3>1, <4>1, GameIdEnds DEF t
      <4>3. s.text[n + 1] = uri[k + (n + 1)]
        BY <1>1, <4>1
      <4>4. k + (n + 1) = (k + n) + 1
        OBVIOUS
      <4> QED BY <4>2, <4>3, <4>4
    <3> DEFINE i == k + 1
               j == k + n
    <3>8. j \in 3..Len(uri) /\ i \in 2..(j - 1) /\ i - 1 = k
      BY <1>0, <1>1, <3>2, <3>3
    <3>9. \A x \in i..j : uri[x] \notin {".", "/"}
      <4> SUFFICES ASSUME NEW x \in i..j PROVE uri[x] \notin {".", "/"}
        OBVIOUS
      <4>1. x - k \in 1..n /\ k + (x - k) = x
        OBVIOUS
      <4> QED BY <3>5, <4>1
    <3>10. DotlessId(uri, i, j)
      BY <3>3, <3>6, <3>7, <3>8, <3>9 DEF DotlessId
    <3> HIDE DEF i, j
    <3>11. HasDotlessId(uri)
      BY <3>8, <3>10 DEF HasDotlessId
    <3> QED BY <2>2, <2>4, <3>1, <3>11 DEF Behind
  <2>12. CASE TakesFormat(s.r, t, q, used)
    <3>1. q.sc = "format"
      BY <1>0, <2>12 DEF TakesFormat, Results
    <3> QED BY <2>2, <2>4, <3>1 DEF Behind
  <2> QED BY <2>2, <2>6, <2>7, <2>8, <2>9, <2>10, <2>11, <2>12 DEF Takes
<1> QED BY <1>0, <1>3, <1>4, MatchCases

\* The scanner fails on nothing but a game id without a dot,
LEMMA YylexDotless ==
  ASSUME NEW uri \in Seq(Symbols), NEW s \in Scans, NEW k \in 0..Len(uri), Behind(uri, s, k)
  PROVE  Yylex[s].sc = "error" => HasDotlessId(uri)
<1> DEFINE P == {z \in Scans : (\E m \in 0..Len(uri) : Behind(uri, z, m))
                                 => (Yylex[z].sc = "error" => HasDotlessId(uri))}
<1>1. ASSUME NEW z \in Scans, Halted(z) \/ Match(z) \in P PROVE z \in P
  <2> SUFFICES ASSUME NEW m \in 0..Len(uri), Behind(uri, z, m)
               PROVE  Yylex[z].sc = "error" => HasDotlessId(uri)
    OBVIOUS
  <2>1. CASE z.r.sc = "error"
    BY <2>1 DEF Behind
  <2>2. CASE z.r.sc # "error" /\ Halted(z)
    <3>1. Yylex[z] = AtEnd(z.r)
      BY <2>2, YylexIs DEF Halted
    <3>2. AtEnd(z.r).sc = z.r.sc
      BY DEF AtEnd, Scans, Results
    <3> QED BY <2>2, <3>1, <3>2
  <2>3. CASE ~Halted(z)
    <3>1. Yylex[z] = Yylex[Match(z)]
      BY <2>3, YylexIs DEF Halted
    <3>2. \E l \in 0..Len(uri) : Behind(uri, Match(z), l)
      BY <2>3, StaysBehind
    <3> QED BY <1>1, <2>3, <3>1, <3>2
  <2> QED BY <2>1, <2>2, <2>3
<1>2. Scans \subseteq P
  <2> HIDE DEF P
  <2> QED BY <1>1, ScanInduction
<1> QED BY <1>2

\* and only behind a session.
LEMMA GetRutaDotless ==
  ASSUME NEW r \in Results, NEW uri \in Seq(Symbols), Short(uri),
         GetRuta(r, uri).sc = "error"
  PROVE  HasDotlessId(uri) /\ GetRuta(r, uri).session # Nul
<1> DEFINE z == [r |-> Cleared(r), text |-> uri]
<1>1. z \in Scans
  BY ClearedTyped DEF Scans, Symbols
<1>2. uri = SubSeq(uri, 0 + 1, Len(uri)) /\ 0 \in 0..Len(uri)
  OBVIOUS
<1>3. Cleared(r).sc = "initial"
  BY DEF Cleared, Fresh
<1>4. z.text = uri /\ z.r = Cleared(r)
  OBVIOUS
<1>5. GetRuta(r, uri) = Yylex[z]
  BY DEF GetRuta
<1> HIDE DEF z
<1>6. Behind(uri, z, 0)
  BY <1>2, <1>3, <1>4 DEF Behind
<1>7. HasDotlessId(uri)
  BY <1>1, <1>2, <1>5, <1>6, YylexDotless
<1> QED BY <1>7, GetRutaIsOwn DEF HasSession

(***************************************************************************)
(* Parts of sequences.                                                     *)
(***************************************************************************)
\* The lesser of two numbers.
LEMMA MinPair ==
  ASSUME NEW a \in Int, NEW b \in Int
  PROVE  Min({a, b}) = IF a <= b THEN a ELSE b
<1>1. CASE a <= b
  BY <1>1, MinIs
<1>2. CASE b < a
  BY <1>2, MinIs
<1> QED BY <1>1, <1>2

\* A range up to a sum.
LEMMA SumRange ==
  ASSUME NEW a \in Nat, NEW b \in Nat, NEW x
  PROVE  x \in 0..(a + b) <=> x \in Nat /\ x <= a + b
OBVIOUS

\* What is at most a number of a range is in the range.
LEMMA Within ==
  ASSUME NEW a \in Nat, NEW b \in Nat, NEW x \in Nat, NEW y \in Nat, y <= x, x <= a + b
  PROVE  y \in 0..(a + b)
OBVIOUS

\* A sequence is what is before and behind a place.
LEMMA Split ==
  ASSUME NEW S, NEW s \in Seq(S), NEW n \in 0..Len(s)
  PROVE  /\ SubSeq(s, 1, n) \in Seq(S) /\ Len(SubSeq(s, 1, n)) = n
         /\ SubSeq(s, n + 1, Len(s)) \in Seq(S) /\ Len(SubSeq(s, n + 1, Len(s))) = Len(s) - n
         /\ SubSeq(s, 1, n) \o SubSeq(s, n + 1, Len(s)) = s
<1>1. SubSeq(s, 1, n) \in Seq(S) /\ Len(SubSeq(s, 1, n)) = n
  OBVIOUS
<1>2. SubSeq(s, n + 1, Len(s)) \in Seq(S) /\ Len(SubSeq(s, n + 1, Len(s))) = Len(s) - n
  OBVIOUS
<1>3. SubSeq(s, 1, n) \o SubSeq(s, n + 1, Len(s)) = SubSeq(s, 1, Len(s))
  <2>1. 1 \in 1..(Len(s) + 1) /\ n \in (1 - 1)..Len(s) /\ Len(s) \in n..Len(s)
    OBVIOUS
  <2> QED BY <2>1, ConcatAdjacentSubSeq
<1>4. SubSeq(s, 1, Len(s)) = s
  BY SubSeqFull
<1> QED BY <1>1, <1>2, <1>3, <1>4

\* Concatenation is associative.
LEMMA Assoc ==
  ASSUME NEW S, NEW a \in Seq(S), NEW b \in Seq(S), NEW c \in Seq(S)
  PROVE  (a \o b) \o c = a \o (b \o c)
OBVIOUS

\* The first part of a concatenation.
LEMMA FrontPart ==
  ASSUME NEW S, NEW a \in Seq(S), NEW b \in Seq(S)
  PROVE  a = SubSeq(a \o b, 1, Len(a)) /\ Len(a \o b) = Len(a) + Len(b) /\ a \o b \in Seq(S)
OBVIOUS

\* The beginning of a beginning.
LEMMA SubSub ==
  ASSUME NEW S, NEW s \in Seq(S), NEW m \in 0..Len(s), NEW n \in 0..m
  PROVE  SubSeq(SubSeq(s, 1, m), 1, n) = SubSeq(s, 1, n)
OBVIOUS

\* get_request_len finds the end of a head h as soon as all of h is there, whatever
\* follows it, and before that nothing, or a control character of h.
LEMMA HeadSearch ==
  ASSUME NEW h \in Seq(STRING), h # <<>>, GetRequestLen(h) = Len(h), NEW y \in Seq(STRING),
         NEW m \in 0..(Len(h) + Len(y)), NEW b, b = SubSeq(h \o y, 1, m)
  PROVE  /\ m >= Len(h) => GetRequestLen(b) = Len(h)
         /\ m < Len(h) => GetRequestLen(b) = 0 \/ (GetRequestLen(b) = -1 /\ "control" \in ToSet(h))
<1> DEFINE Ends(x) == {s \in 1..(Len(x) - 1) : EndsAt(x, s)}
           e == Min(Ends(h))
<1>0. /\ Len(h) \in Nat /\ Len(h) > 0 /\ Len(y) \in Nat
      /\ b \in Seq(STRING) /\ Len(b) = m
      /\ \A i \in 1..m : i <= Len(h) => b[i] = h[i]
  OBVIOUS
<1>1. Ends(h) # {} /\ Len(h) = IF h[e + 1] = "n" THEN e + 1 ELSE e + 2
  <2>1. GetRequestLen(h) = IF Ends(h) # {} THEN IF h[e + 1] = "n" THEN e + 1 ELSE e + 2
                           ELSE IF \E s \in 1..(Len(h) - 1) : h[s] = "control" THEN -1 ELSE 0
    BY DEF GetRequestLen
  <2> HIDE DEF Ends, e
  <2> QED BY <1>0, <2>1
<1>2. e \in Ends(h) /\ \A x \in Ends(h) : e <= x
  <2>1. Ends(h) \in SUBSET Nat
    BY <1>0
  <2> HIDE DEF Ends
  <2> QED BY <1>1, <2>1, MinNat
<1>3. e \in 1..(Len(h) - 1) /\ EndsAt(h, e)
  BY <1>2
<1> HIDE DEF e
<1>4. CASE m >= Len(h)
  <2>1. e \in Ends(b)
    <3>1. e \in 1..(m - 1) /\ b[e] = h[e] /\ b[e + 1] = h[e + 1]
      BY <1>0, <1>3, <1>4
    <3>2. e + 2 <= Len(h) => e + 2 <= m /\ b[e + 2] = h[e + 2]
      BY <1>0, <1>3, <1>4
    <3>3. EndsAt(b, e)
      BY <1>0, <1>3, <3>1, <3>2 DEF EndsAt
    <3> QED BY <1>0, <3>1, <3>3
  <2>2. ASSUME NEW s \in Ends(b) PROVE e <= s
    <3> SUFFICES ASSUME s < e PROVE FALSE
      BY <1>0, <1>3
    <3>1. s \in 1..(m - 1) /\ s + 2 <= Len(h) /\ EndsAt(b, s)
      BY <1>0, <1>3
    <3>2. b[s] = h[s] /\ b[s + 1] = h[s + 1] /\ b[s + 2] = h[s + 2]
      BY <1>0, <1>4, <3>1
    <3>3. EndsAt(h, s)
      BY <1>0, <3>1, <3>2 DEF EndsAt
    <3>4. s \in Ends(h)
      BY <1>0, <3>1, <3>3
    <3> QED BY <1>2, <1>3, <3>4
  <2>3. Ends(b) \in SUBSET Int
    OBVIOUS
  <2>4. Min(Ends(b)) = e
    <3> HIDE DEF Ends
    <3> QED BY <2>1, <2>2, <2>3, MinIs
  <2>5. b[e + 1] = h[e + 1]
    BY <1>0, <1>3, <1>4
  <2>6. GetRequestLen(b) = IF b[Min(Ends(b)) + 1] = "n" THEN Min(Ends(b)) + 1 ELSE Min(Ends(b)) + 2
    BY <2>1 DEF GetRequestLen
  <2> HIDE DEF Ends
  <2>7. GetRequestLen(b) = IF b[e + 1] = "n" THEN e + 1 ELSE e + 2
    BY <2>4, <2>6
  <2>8. GetRequestLen(b) = Len(h)
    BY <1>1, <2>5, <2>7
  <2> QED BY <1>4, <2>8
<1>5. CASE m < Len(h)
  <2>1. Ends(b) = {}
    <3> SUFFICES ASSUME NEW s \in Ends(b) PROVE FALSE
      OBVIOUS
    <3>1. s \in 1..(m - 1) /\ EndsAt(b, s)
      BY <1>0
    <3>2. b[s] = h[s] /\ b[s + 1] = h[s + 1] /\ (s + 2 <= m => b[s + 2] = h[s + 2])
      BY <1>0, <1>5, <3>1
    <3>3. EndsAt(h, s)
      BY <1>0, <1>5, <3>1, <3>2 DEF EndsAt
    <3>4. e <= s
      <4>1. s \in Ends(h)
        BY <1>0, <1>5, <3>1, <3>3
      <4> HIDE DEF Ends
      <4> QED BY <1>2, <4>1
    <3>5. CASE h[e + 1] = "n"
      BY <1>0, <1>1, <1>3, <1>5, <3>1, <3>4, <3>5
    <3>6. CASE h[e + 1] # "n"
      <4>1. s = e /\ m = e + 1
        BY <1>0, <1>1, <1>3, <1>5, <3>1, <3>4, <3>6
      <4> QED BY <1>0, <3>1, <3>2, <3>6, <4>1 DEF EndsAt
    <3> QED BY <3>5, <3>6
  <2>2. GetRequestLen(b) = IF \E s \in 1..(Len(b) - 1) : b[s] = "control" THEN -1 ELSE 0
    BY <2>1 DEF GetRequestLen
  <2>3. (\E s \in 1..(Len(b) - 1) : b[s] = "control") => "control" \in ToSet(h)
    BY <1>0, <1>5 DEF ToSet
  <2> QED BY <1>0, <1>5, <2>2, <2>3
<1> QED BY <1>0, <1>4, <1>5

(***************************************************************************)
(* The inductive invariant.                                                *)
(***************************************************************************)
States   == {"idle", "read", "lock", "copy", "handler", "answer", "close"}
WithHead == {"lock", "copy", "handler", "answer"}

\* What the client sends, and what a handler is given of it.
Sent(r) == SubSeq(r.head \o r.body, 1, r.sent)

Expected(r) ==
  IF r.length > 0 THEN SubSeq(r.body, 1, Min({MaxVal(r), r.sent - Len(r.head)})) ELSE <<>>

Refused(r) == Len(r.head) > Min({r.sent, BufSize}) \/ "control" \in ToSet(r.head)

Types ==
  /\ lock \in Workers \cup {Free} /\ route \in Results /\ up \in BOOLEAN
  /\ pc \in [Workers -> States] /\ req \in [Workers -> Requests \cup {None}]
  /\ wire \in [Workers -> Seq(STRING)] /\ buf \in [Workers -> Seq(STRING)]
  /\ request_len \in [Workers -> Int] /\ consumed \in [Workers -> Nat]
  /\ user_data \in [Workers -> Seq(STRING) \cup {None}]
  /\ given \in [Workers -> Seq(STRING) \cup {None}]
  /\ allocated \in [Workers -> Int]
  /\ mine = [w \in Workers |-> mine[w]]

Idle(w) ==
  pc[w] = "idle" => /\ req[w] = None /\ wire[w] = <<>> /\ buf[w] = <<>>
                    /\ request_len[w] = 0 /\ consumed[w] = 0

Busy(w) ==
  pc[w] # "idle" => /\ req[w] \in Requests
                    /\ Len(buf[w]) <= BufSize /\ request_len[w] \in -1..BufSize
                    /\ Len(buf[w]) + Len(wire[w]) <= req[w].sent

\* While the head is read, the buffer and the socket hold what the client sends,
\* and the buffer no complete head.
Reading(w) ==
  pc[w] = "read" => /\ buf[w] \o wire[w] = Sent(req[w])
                    /\ Len(buf[w]) < BufSize /\ GetRequestLen(buf[w]) = 0
                    /\ request_len[w] = 0 /\ consumed[w] = 0

\* Then nothing is taken from either before the handler asks for the body.
Whole(w) ==
  pc[w] \in WithHead =>
    /\ request_len[w] = Len(req[w].head) /\ Len(req[w].head) <= Len(buf[w])
    /\ user_data[w] = None => consumed[w] = 0 /\ buf[w] \o wire[w] = Sent(req[w])

Closing(w) == (pc[w] = "close" /\ request_len[w] <= 0) => Refused(req[w])

Body(w) ==
  /\ user_data[w] # None => pc[w] \in {"handler", "answer"} /\ user_data[w] = Expected(req[w])
  /\ given[w] # None => given[w] = user_data[w]

Blocks(w) == allocated[w] = IF user_data[w] = None THEN 0 ELSE 1

\* The route r leads where the URI does.
LeadsTo(r, uri) ==
  LET own == GetRuta(Fresh, uri) IN
  /\ own.controller = r.controller /\ own.action = r.action
  /\ own.format = r.format /\ own.session = r.session
  /\ IsPrefix(CString(own.param), CString(r.param))
  /\ HasSession(r)

Mine(w) ==
  Routed(w) => LET own == GetRuta(Fresh, req[w].uri) IN
    /\ mine[w] = [controller |-> own.controller, action |-> own.action,
                  format |-> own.format, session |-> own.session, param |-> mine[w].param]
    /\ IsPrefix(CString(own.param), mine[w].param)
    /\ own.controller \in {"game", "tjuego"} => own.session # Nul

Worker(w) ==
  Idle(w) /\ Busy(w) /\ Reading(w) /\ Whole(w) /\ Closing(w) /\ Body(w) /\ Blocks(w) /\ Mine(w)

\* The mutex is held by the worker that copies the route, and by no other one; the
\* route is that worker's.
Shared ==
  /\ \A w \in Workers : pc[w] = "copy" <=> lock = w
  /\ \A w \in Workers : pc[w] = "copy" => LeadsTo(route, req[w].uri)
  /\ ~up => /\ route.session # Nul
            /\ \E w \in Workers : pc[w] = "copy" /\ HasDotlessId(req[w].uri)

IInv == Types /\ Shared /\ \A w \in Workers : Worker(w)

(***************************************************************************)
(* The invariant at the start and after each action.                       *)
(***************************************************************************)
\* What the clients send.
LEMMA RequestFacts ==
  ASSUME NEW r \in Requests
  PROVE  /\ r.uri \in Seq(Symbols) /\ Short(r.uri) /\ MaxVal(r) \in Nat
         /\ r.head \in Seq(STRING) /\ r.head # <<>> /\ GetRequestLen(r.head) = Len(r.head)
         /\ r.body \in Seq(STRING) /\ r.length \in {-1, Len(r.body)}
         /\ Len(r.head) \in Nat /\ Len(r.head) > 0 /\ Len(r.body) \in Nat
         /\ r.head \o r.body \in Seq(STRING)
         /\ Len(r.head \o r.body) = Len(r.head) + Len(r.body)
         /\ r.sent \in 0..(Len(r.head) + Len(r.body))
         /\ Sent(r) \in Seq(STRING) /\ Len(Sent(r)) = r.sent
         /\ r # None /\ r.sent \in Nat /\ r.sent <= Len(r.head) + Len(r.body)
<1>0. MaxVal(r) \in Nat
  <2>1. r.limit \in Nat \cup {-1} /\ PostLen \in Nat
    BY RequestConstants
  <2> QED BY <2>1 DEF MaxVal
<1>1. /\ r.uri \in Seq(Symbols) /\ Short(r.uri)
      /\ r.head \in Seq(STRING) /\ r.head # <<>> /\ GetRequestLen(r.head) = Len(r.head)
      /\ r.body \in Seq(STRING) /\ r.length \in {-1, Len(r.body)}
      /\ r.sent \in 0..(Len(r.head) + Len(r.body)) /\ r # None
  BY RequestConstants DEF Symbols
<1>2. /\ Len(r.head) \in Nat /\ Len(r.head) > 0 /\ Len(r.body) \in Nat
      /\ r.head \o r.body \in Seq(STRING)
      /\ Len(r.head \o r.body) = Len(r.head) + Len(r.body)
  BY <1>1
<1>3. Sent(r) \in Seq(STRING) /\ Len(Sent(r)) = r.sent
  <2>1. r.sent \in 0..Len(r.head \o r.body)
    BY <1>1, <1>2
  <2> QED BY <1>2, <2>1, Split DEF Sent
<1>4. r.sent \in Nat /\ r.sent <= Len(r.head) + Len(r.body)
  BY <1>1, <1>2, SumRange
<1> QED BY <1>0, <1>1, <1>2, <1>3, <1>4

\* None is no text.
LEMMA NoData == None \notin Seq(STRING) /\ <<>> # None /\ <<>> \in Seq(STRING)
<1>1. <<>> \in Seq(STRING)
  OBVIOUS
<1> QED BY <1>1, RequestConstants

\* A worker whose variables do not change stays as it is.
LEMMA Others ==
  ASSUME NEW v \in Workers, Worker(v),
         pc'[v] = pc[v], req'[v] = req[v], wire'[v] = wire[v],
         buf'[v] = buf[v], request_len'[v] = request_len[v], consumed'[v] = consumed[v],
         user_data'[v] = user_data[v], allocated'[v] = allocated[v], mine'[v] = mine[v],
         given'[v] = given[v]
  PROVE  Worker(v)'
BY DEF Worker, Idle, Busy, Reading, Whole, Closing, Body, Blocks, Mine, Routed

\* The invariant holds at the start.
LEMMA InitInv == Init => IInv
<1> SUFFICES ASSUME Init PROVE IInv
  OBVIOUS
<1>1. Types
  BY NoData, FreshTyped, RequestConstants DEF Init, Types, States
<1>2. Shared
  BY RequestConstants DEF Init, Shared
<1>3. ASSUME NEW w \in Workers PROVE Worker(w)
  BY <1>3, NoData DEF Init, Worker, Idle, Busy, Reading, Whole, Closing, Body, Blocks, Mine,
     Routed, WithHead
<1> QED BY <1>1, <1>2, <1>3 DEF IInv

\* A step of w keeps the invariant when it keeps what is shared and what w has.
LEMMA Untouched ==
  ASSUME IInv, NEW w \in Workers,
         \A v \in Workers \ {w} :
           /\ pc'[v] = pc[v] /\ req'[v] = req[v] /\ wire'[v] = wire[v] /\ buf'[v] = buf[v]
           /\ request_len'[v] = request_len[v] /\ consumed'[v] = consumed[v]
           /\ user_data'[v] = user_data[v] /\ allocated'[v] = allocated[v]
           /\ mine'[v] = mine[v] /\ given'[v] = given[v],
         Types', Shared', Worker(w)'
  PROVE  IInv'
<1>1. ASSUME NEW v \in Workers PROVE Worker(v)'
  <2>1. CASE v = w
    BY <2>1
  <2>2. CASE v # w
    BY <2>2, Others DEF IInv
  <2> QED BY <2>1, <2>2
<1> QED BY <1>1 DEF IInv

\* Each action keeps the invariant: a connection is taken,
LEMMA ConnectInv ==
  ASSUME IInv, NEW w \in Workers, Connect(w)
  PROVE  IInv'
<1>0. Types /\ Shared /\ Worker(w) /\ pc[w] = "idle"
  BY DEF IInv, Connect
<1>1. PICK r \in Requests : /\ req'  = [req EXCEPT ![w] = r]
                            /\ wire' = [wire EXCEPT ![w] = Sent(r)]
  BY DEF Connect, Sent
<1>2. /\ pc' = [pc EXCEPT ![w] = "read"]
      /\ UNCHANGED <<shared, buf, request_len, consumed, post, mine>>
  BY DEF Connect
<1>3. Sent(r) \in Seq(STRING) /\ Len(Sent(r)) = r.sent /\ r # None /\ r.sent \in Nat
  BY RequestFacts
<1>4. Types'
  BY <1>0, <1>1, <1>2, <1>3 DEF Types, States, shared, post
<1>5. Shared'
  BY <1>0, <1>1, <1>2 DEF Types, Shared, shared
<1>6. Worker(w)'
  <2>1. /\ pc'[w] = "read" /\ req'[w] = r /\ wire'[w] = Sent(r)
        /\ buf'[w] = <<>> /\ request_len'[w] = 0 /\ consumed'[w] = 0
        /\ user_data'[w] = None /\ given'[w] = None /\ allocated'[w] = 0
    BY <1>0, <1>1, <1>2 DEF Types, Worker, Idle, Body, Blocks, shared, post
  <2>2. Len(<<>>) = 0 /\ <<>> \o Sent(r) = Sent(r) /\ BufSize \in Nat \ {0}
    BY <1>3, RequestConstants
  <2>3. GetRequestLen(<<>>) = 0
    BY <2>2 DEF GetRequestLen
  <2> QED BY <1>3, <2>1, <2>2, <2>3
          DEF Worker, Idle, Busy, Reading, Whole, Closing, Body, Blocks, Mine, Routed, WithHead
<1> QED BY <1>0, <1>1, <1>2, <1>4, <1>5, <1>6, Untouched DEF Types, shared, post

\* a part of the head is received,
LEMMA ReceiveInv ==
  ASSUME IInv, NEW w \in Workers, Receive(w)
  PROVE  IInv'
<1>0. /\ Types /\ Shared /\ Worker(w) /\ pc[w] = "read" /\ wire[w] # <<>> /\ up
      /\ req[w] \in Requests /\ req[w] # None /\ buf[w] \in Seq(STRING) /\ wire[w] \in Seq(STRING)
      /\ Len(buf[w]) \in Nat /\ Len(wire[w]) \in Nat /\ BufSize \in Nat
  BY RequestConstants, RequestFacts DEF IInv, Receive, Types, Worker, Busy
<1> DEFINE r == req[w]
<1>1. PICK n \in 1..Min({Len(wire[w]), BufSize - Len(buf[w])}) :
        LET b == buf[w] \o SubSeq(wire[w], 1, n) IN
        /\ buf'  = [buf EXCEPT ![w] = b]
        /\ wire' = [wire EXCEPT ![w] = SubSeq(@, n + 1, Len(@))]
        /\ request_len' = [request_len EXCEPT ![w] = GetRequestLen(b)]
        /\ pc' = [pc EXCEPT ![w] = IF GetRequestLen(b) > 0 THEN "lock"
                                   ELSE IF GetRequestLen(b) < 0 \/ Len(b) = BufSize THEN "close"
                                   ELSE "read"]
  BY DEF Receive, Pull
<1> DEFINE b == buf[w] \o SubSeq(wire[w], 1, n)
           rest == SubSeq(wire[w], n + 1, Len(wire[w]))
           len == GetRequestLen(b)
<1>2. UNCHANGED <<shared, req, consumed, post, mine>>
  BY DEF Receive
<1>3. /\ buf[w] \o wire[w] = Sent(r) /\ Len(buf[w]) < BufSize
      /\ consumed[w] = 0 /\ user_data[w] = None /\ given[w] = None /\ allocated[w] = 0
  BY <1>0 DEF Worker, Reading, Body, Blocks
<1>4. n \in 1..Len(wire[w]) /\ Len(buf[w]) + n <= BufSize
  <2> DEFINE k == Len(wire[w])
             l == BufSize - Len(buf[w])
  <2>1. k \in Int /\ l \in Int
    BY <1>0
  <2>2. n \in 1..Min({k, l})
    OBVIOUS
  <2> HIDE DEF k, l
  <2>3. n \in Int /\ 1 <= n /\ n <= k /\ n <= l
    BY <2>1, <2>2, MinPair
  <2> QED BY <1>0, <2>3 DEF k, l
<1>5. /\ SubSeq(wire[w], 1, n) \in Seq(STRING) /\ Len(SubSeq(wire[w], 1, n)) = n
      /\ rest \in Seq(STRING) /\ Len(rest) = Len(wire[w]) - n
      /\ SubSeq(wire[w], 1, n) \o rest = wire[w]
  <2>1. n \in 0..Len(wire[w])
    BY <1>0, <1>4
  <2> QED BY <1>0, <2>1, Split
<1>6. b \in Seq(STRING) /\ Len(b) = Len(buf[w]) + n
  BY <1>0, <1>5
<1>7. b \o rest = Sent(r)
  <2> DEFINE x == SubSeq(wire[w], 1, n)
             y == buf[w]
  <2>1. x \in Seq(STRING) /\ rest \in Seq(STRING) /\ y \in Seq(STRING)
    BY <1>0, <1>5
  <2>4. x \o rest = wire[w] /\ b = y \o x
    BY <1>5
  <2>2. y \o wire[w] = Sent(r)
    BY <1>3
  <2> HIDE DEF x, y, rest, b
  <2>3. (y \o x) \o rest = y \o (x \o rest)
    BY <2>1, Assoc
  <2> QED BY <2>2, <2>3, <2>4
<1> HIDE DEF b, rest
<1>8. Len(b) \in Nat /\ Len(b) <= r.sent /\ Len(b) + Len(rest) = r.sent /\ Len(b) <= BufSize
  <2>1. Len(Sent(r)) = r.sent /\ r.sent \in Nat
    BY <1>0, RequestFacts
  <2>2. rest \in Seq(STRING)
    BY <1>5
  <2>3. Len(b \o rest) = Len(b) + Len(rest) /\ Len(b) \in Nat /\ Len(rest) \in Nat
    BY <1>6, <2>2
  <2>4. Len(b) + Len(rest) = r.sent
    BY <1>7, <2>1, <2>3
  <2>5. Len(b) <= BufSize
    BY <1>4, <1>6
  <2> HIDE DEF r
  <2> QED BY <2>1, <2>3, <2>4, <2>5
<1>9. b = SubSeq(r.head \o r.body, 1, Len(b))
  <2>1. b = SubSeq(Sent(r), 1, Len(b))
    BY <1>5, <1>6, <1>7, FrontPart
  <2>2. /\ r.head \o r.body \in Seq(STRING) /\ r.sent \in 0..Len(r.head \o r.body)
        /\ Len(b) \in 0..r.sent
    <3>1. /\ r.head \o r.body \in Seq(STRING) /\ r.sent \in Nat
          /\ Len(r.head \o r.body) = Len(r.head) + Len(r.body)
          /\ r.sent \in 0..(Len(r.head) + Len(r.body))
      BY <1>0, RequestFacts
    <3>2. Len(b) \in Nat /\ Len(b) <= r.sent
      BY <1>8
    <3> HIDE DEF r
    <3>3. Len(b) \in 0..r.sent
      BY <3>1, <3>2
    <3> QED BY <3>1, <3>3
  <2> QED BY <2>1, <2>2, SubSub DEF Sent
<1>10. /\ Len(b) >= Len(r.head) => len = Len(r.head)
       /\ Len(b) < Len(r.head) => len = 0 \/ (len = -1 /\ "control" \in ToSet(r.head))
       /\ Len(r.head) \in Nat /\ Len(r.head) > 0
  <2>1. /\ r.head \in Seq(STRING) /\ r.head # <<>> /\ GetRequestLen(r.head) = Len(r.head)
        /\ r.body \in Seq(STRING) /\ Len(r.head) \in Nat /\ Len(r.head) > 0
        /\ Len(r.body) \in Nat
    BY <1>0, RequestFacts
  <2>4. r.sent \in Nat /\ r.sent <= Len(r.head) + Len(r.body)
    BY <1>0, RequestFacts
  <2>0. Len(b) \in Nat /\ Len(b) <= r.sent
    BY <1>8
  <2> HIDE DEF r
  <2>2. Len(b) \in 0..(Len(r.head) + Len(r.body))
    <3>1. Len(r.head) \in Nat /\ Len(r.body) \in Nat
      BY <2>1
    <3> QED BY <2>0, <2>4, <3>1, Within
  <2>3. /\ Len(b) >= Len(r.head) => GetRequestLen(b) = Len(r.head)
        /\ Len(b) < Len(r.head) =>
             GetRequestLen(b) = 0 \/ (GetRequestLen(b) = -1 /\ "control" \in ToSet(r.head))
    BY <1>9, <2>1, <2>2, HeadSearch
  <2> QED BY <2>1, <2>3
<1>11. /\ buf' = [buf EXCEPT ![w] = b] /\ wire' = [wire EXCEPT ![w] = rest]
       /\ request_len' = [request_len EXCEPT ![w] = len]
       /\ pc' = [pc EXCEPT ![w] = IF len > 0 THEN "lock"
                                  ELSE IF len < 0 \/ Len(b) = BufSize THEN "close" ELSE "read"]
  BY <1>1 DEF b, rest
<1> HIDE DEF len
<1>12. len \in Int /\ len \in -1..BufSize
  BY <1>0, <1>8, <1>10
<1>13. Types'
  BY <1>0, <1>2, <1>5, <1>6, <1>11, <1>12 DEF Types, States, shared, post
<1>14. Shared'
  <2>1. pc'[w] # "copy"
    BY <1>0, <1>11 DEF Types
  <2>2. \A v \in Workers \ {w} : pc'[v] = pc[v] /\ req'[v] = req[v]
    BY <1>0, <1>2, <1>11 DEF Types
  <2> QED BY <1>0, <1>2, <2>1, <2>2 DEF Shared, shared
<1>15. Worker(w)'
  <2>1. /\ req'[w] = r /\ buf'[w] = b /\ wire'[w] = rest /\ request_len'[w] = len
        /\ consumed'[w] = 0 /\ user_data'[w] = None /\ given'[w] = None /\ allocated'[w] = 0
        /\ pc'[w] = IF len > 0 THEN "lock" ELSE IF len < 0 \/ Len(b) = BufSize THEN "close" ELSE "read"
    BY <1>0, <1>2, <1>3, <1>11 DEF Types, shared, post
  <2>2. Busy(w)'
    BY <1>0, <1>8, <1>12, <2>1 DEF Busy
  <2>3. Reading(w)'
    <3> SUFFICES ASSUME pc'[w] = "read" PROVE Len(b) < BufSize /\ len = 0
      BY <1>7, <2>1 DEF Reading, len
    <3> QED BY <1>0, <1>8, <1>12, <2>1
  <2>4. Whole(w)'
    BY <1>7, <1>8, <1>10, <1>12, <2>1 DEF Whole, WithHead
  <2>5. Closing(w)'
    <3> SUFFICES ASSUME pc'[w] = "close", len <= 0 PROVE Refused(r)
      BY <2>1 DEF Closing
    <3>1. CASE len < 0
      BY <1>10, <1>12, <3>1 DEF Refused
    <3>2. CASE Len(b) = BufSize /\ len = 0
      <4>1. Len(r.head) > BufSize
        BY <1>0, <1>8, <1>10, <3>2
      <4>2. Min({r.sent, BufSize}) <= BufSize
        BY <1>0, <1>8, MinPair, RequestFacts
      <4>3. Min({r.sent, BufSize}) \in Int
        BY <1>0, <1>8, MinPair, RequestFacts
      <4> QED BY <1>0, <1>10, <4>1, <4>2, <4>3 DEF Refused
    <3> QED BY <1>12, <2>1, <3>1, <3>2
  <2> QED BY <2>1, <2>2, <2>3, <2>4, <2>5
          DEF Worker, Idle, Body, Blocks, Mine, Routed
<1> QED BY <1>0, <1>2, <1>11, <1>13, <1>14, <1>15, Untouched DEF Types, shared, post

\* the client closes before its head is complete,
LEMMA ClosedEarlyInv ==
  ASSUME IInv, NEW w \in Workers, ClosedEarly(w)
  PROVE  IInv'
<1>0. /\ Types /\ Shared /\ Worker(w) /\ pc[w] = "read" /\ wire[w] = <<>> /\ up
      /\ req[w] \in Requests /\ buf[w] \in Seq(STRING) /\ BufSize \in Nat
  BY RequestConstants DEF IInv, ClosedEarly, Types, Worker, Busy
<1>1. pc' = [pc EXCEPT ![w] = "close"] /\ UNCHANGED <<shared, conn, post, mine>>
  BY DEF ClosedEarly
<1>2. Types'
  BY <1>0, <1>1 DEF Types, States, shared, conn, post
<1>3. Shared'
  <2>1. pc'[w] = "close" /\ \A v \in Workers \ {w} : pc'[v] = pc[v]
    BY <1>0, <1>1 DEF Types
  <2> QED BY <1>0, <1>1, <2>1 DEF Shared, shared, conn
<1>4. Worker(w)'
  <2> DEFINE r == req[w]
  <2>1. /\ pc'[w] = "close" /\ req'[w] = req[w] /\ buf'[w] = buf[w] /\ wire'[w] = wire[w]
        /\ request_len'[w] = request_len[w] /\ consumed'[w] = consumed[w]
        /\ user_data'[w] = user_data[w] /\ given'[w] = given[w] /\ allocated'[w] = allocated[w]
    BY <1>0, <1>1 DEF Types, conn, post
  <2>2. buf[w] = Sent(r) /\ GetRequestLen(buf[w]) = 0
    BY <1>0 DEF Worker, Reading
  <2>3. Len(r.head) > r.sent /\ r.sent \in Nat /\ Len(r.head) \in Nat
    <3>1. /\ r.head \in Seq(STRING) /\ r.head # <<>> /\ GetRequestLen(r.head) = Len(r.head)
          /\ r.body \in Seq(STRING) /\ Len(r.head) \in Nat /\ Len(r.head) > 0
          /\ r.sent \in 0..(Len(r.head) + Len(r.body)) /\ Len(r.body) \in Nat
      BY <1>0, RequestFacts
    <3>2. buf[w] = SubSeq(r.head \o r.body, 1, r.sent)
      BY <2>2 DEF Sent
    <3> HIDE DEF r
    <3>3. r.sent >= Len(r.head) => GetRequestLen(buf[w]) = Len(r.head)
      BY <3>1, <3>2, HeadSearch
    <3> QED BY <2>2, <3>1, <3>3
  <2>4. Refused(r)
    <3>1. Min({r.sent, BufSize}) <= r.sent /\ Min({r.sent, BufSize}) \in Int
      BY <1>0, <2>3, MinPair
    <3> QED BY <2>3, <3>1 DEF Refused
  <2> QED BY <1>0, <2>1, <2>4
          DEF Worker, Idle, Busy, Reading, Whole, Closing, Body, Blocks, Mine, Routed, WithHead
<1> QED BY <1>0, <1>1, <1>2, <1>3, <1>4, Untouched DEF Types, shared, conn, post

\* the URI is routed,
LEMMA RouteInv ==
  ASSUME IInv, NEW w \in Workers, Route(w)
  PROVE  IInv'
<1>0. /\ Types /\ Shared /\ Worker(w) /\ pc[w] = "lock" /\ up /\ lock = Free
      /\ req[w] \in Requests /\ req[w].uri \in Seq(Symbols) /\ Short(req[w].uri)
      /\ route \in Results
      /\ user_data[w] = None /\ given[w] = None
  BY RequestFacts DEF IInv, Route, LockFree, Types, Worker, Busy, Body
<1> DEFINE uri == req[w].uri
           q   == GetRuta(route, uri)
<1>1. /\ lock' = w /\ route' = q /\ up' = (q.sc # "error")
      /\ pc' = [pc EXCEPT ![w] = "copy"] /\ UNCHANGED <<conn, allocated, given, mine>>
      /\ user_data' = [user_data EXCEPT ![w] = None]
  BY DEF Route, UserData
<1>2. user_data' = user_data
  BY <1>0, <1>1 DEF Types
<1>3. q \in Results /\ LeadsTo(q, uri)
  BY <1>0, GetRutaIsOwn DEF LeadsTo
<1>4. q.sc = "error" => q.session # Nul /\ HasDotlessId(uri)
  BY <1>0, GetRutaDotless
<1>5. Types'
  BY <1>0, <1>1, <1>2, <1>3 DEF Types, States, conn
<1>6. \A v \in Workers : pc[v] # "copy"
  BY <1>0, RequestConstants DEF Shared
<1>7. pc'[w] = "copy" /\ \A v \in Workers \ {w} : pc'[v] = pc[v]
  BY <1>0, <1>1 DEF Types
<1>8. req' = req
  BY <1>1 DEF conn
<1> HIDE DEF q
<1>9. Shared'
  <2>1. \A v \in Workers : pc'[v] = "copy" <=> lock' = v
    BY <1>1, <1>6, <1>7
  <2>2. ASSUME NEW v \in Workers, pc'[v] = "copy" PROVE LeadsTo(route', req'[v].uri)
    <3>1. v = w
      BY <1>6, <1>7, <2>2
    <3> QED BY <1>1, <1>3, <1>8, <3>1
  <2>3. ASSUME ~up' PROVE /\ route'.session # Nul
                          /\ \E v \in Workers : pc'[v] = "copy" /\ HasDotlessId(req'[v].uri)
    BY <1>1, <1>4, <1>7, <1>8, <2>3
  <2> QED BY <2>1, <2>2, <2>3 DEF Shared, LeadsTo
<1>10. Worker(w)'
  <2>1. /\ req'[w] = req[w] /\ buf'[w] = buf[w] /\ wire'[w] = wire[w]
        /\ request_len'[w] = request_len[w] /\ consumed'[w] = consumed[w]
        /\ user_data'[w] = user_data[w] /\ given'[w] = given[w] /\ allocated'[w] = allocated[w]
    BY <1>1, <1>2 DEF conn
  <2> QED BY <1>0, <1>7, <2>1
          DEF Worker, Idle, Busy, Reading, Whole, Closing, Body, Blocks, Mine, Routed, WithHead
<1> QED BY <1>0, <1>1, <1>2, <1>5, <1>9, <1>10, Untouched DEF Types, conn

\* the route is copied,
LEMMA CopyRouteInv ==
  ASSUME IInv, NEW w \in Workers, CopyRoute(w)
  PROVE  IInv'
<1>0. /\ Types /\ Shared /\ Worker(w) /\ pc[w] = "copy" /\ up /\ lock = w
      /\ req[w] \in Requests /\ LeadsTo(route, req[w].uri)
  BY DEF IInv, CopyRoute, Worker, Busy, Shared
<1> DEFINE m == [controller |-> route.controller, action |-> route.action,
                 format |-> route.format, session |-> route.session,
                 param |-> CString(route.param)]
<1>1. PICK p \in {"handler", "answer"} : pc' = [pc EXCEPT ![w] = p]
  BY DEF CopyRoute
<1>2. lock' = Free /\ mine' = [mine EXCEPT ![w] = m] /\ UNCHANGED <<route, up, conn, post>>
  BY DEF CopyRoute
<1>3. Types'
  <2> HIDE DEF m
  <2>1. mine' = [v \in Workers |-> mine'[v]]
    BY <1>0, <1>2 DEF Types
  <2> QED BY <1>0, <1>1, <1>2, <2>1 DEF Types, States, conn, post
<1>4. pc'[w] = p /\ \A v \in Workers \ {w} : pc'[v] = pc[v]
  BY <1>0, <1>1 DEF Types
<1>5. Shared'
  <2>1. \A v \in Workers : pc'[v] # "copy"
    BY <1>0, <1>4 DEF Shared
  <2> QED BY <1>0, <1>2, <2>1, RequestConstants DEF Shared
<1>6. Worker(w)'
  <2>1. /\ req'[w] = req[w] /\ buf'[w] = buf[w] /\ wire'[w] = wire[w]
        /\ request_len'[w] = request_len[w] /\ consumed'[w] = consumed[w]
        /\ user_data'[w] = user_data[w] /\ given'[w] = given[w] /\ allocated'[w] = allocated[w]
    BY <1>2 DEF conn, post
  <2>2. Mine(w)'
    <3> DEFINE own == GetRuta(Fresh, req[w].uri)
    <3>1. mine'[w] = m
      BY <1>0, <1>2 DEF Types
    <3>2. /\ m = [controller |-> own.controller, action |-> own.action,
                  format |-> own.format, session |-> own.session, param |-> m.param]
          /\ IsPrefix(CString(own.param), m.param)
          /\ own.controller \in {"game", "tjuego"} => own.session # Nul
      BY <1>0 DEF LeadsTo, HasSession
    <3> HIDE DEF m
    <3> QED BY <2>1, <3>1, <3>2 DEF Mine
  <2> QED BY <1>0, <1>4, <2>1, <2>2
          DEF Worker, Idle, Busy, Reading, Whole, Closing, Body, Blocks, WithHead
<1> QED BY <1>0, <1>1, <1>2, <1>3, <1>5, <1>6, Untouched DEF Types, conn, post

\* the handler ends,
LEMMA HandledInv ==
  ASSUME IInv, NEW w \in Workers, Handled(w)
  PROVE  IInv'
<1>0. /\ Types /\ Shared /\ Worker(w) /\ pc[w] = "handler" /\ up
  BY DEF IInv, Handled
<1>1. pc' = [pc EXCEPT ![w] = "answer"] /\ UNCHANGED <<shared, conn, post, mine>>
  BY DEF Handled
<1>2. Types'
  BY <1>0, <1>1 DEF Types, States, shared, conn, post
<1>3. pc'[w] = "answer" /\ \A v \in Workers \ {w} : pc'[v] = pc[v]
  BY <1>0, <1>1 DEF Types
<1>4. Shared'
  BY <1>0, <1>1, <1>3 DEF Shared, shared, conn
<1>5. Worker(w)'
  <2>1. /\ req'[w] = req[w] /\ buf'[w] = buf[w] /\ wire'[w] = wire[w]
        /\ request_len'[w] = request_len[w] /\ consumed'[w] = consumed[w] /\ mine'[w] = mine[w]
        /\ user_data'[w] = user_data[w] /\ given'[w] = given[w] /\ allocated'[w] = allocated[w]
    BY <1>1 DEF conn, post
  <2> QED BY <1>0, <1>3, <2>1
          DEF Worker, Idle, Busy, Reading, Whole, Closing, Body, Blocks, Mine, Routed, WithHead
<1> QED BY <1>0, <1>1, <1>2, <1>4, <1>5, Untouched DEF Types, shared, conn, post

\* the connection is closed,
LEMMA CloseInv ==
  ASSUME IInv, NEW w \in Workers, Close(w)
  PROVE  IInv'
<1>0. /\ Types /\ Shared /\ Worker(w) /\ pc[w] = "close" /\ up
      /\ user_data[w] = None /\ given[w] = None /\ allocated[w] = 0
  BY DEF IInv, Close, Worker, Body, Blocks
<1>1. /\ pc' = [pc EXCEPT ![w] = "idle"] /\ req' = [req EXCEPT ![w] = None]
      /\ wire' = [wire EXCEPT ![w] = <<>>] /\ buf' = [buf EXCEPT ![w] = <<>>]
      /\ request_len' = [request_len EXCEPT ![w] = 0]
      /\ consumed' = [consumed EXCEPT ![w] = 0]
      /\ UNCHANGED <<shared, post, mine>>
  BY DEF Close, ResetRequest
<1>2. Types'
  BY <1>0, <1>1, NoData DEF Types, States, shared, post
<1>3. /\ pc'[w] = "idle" /\ req'[w] = None /\ wire'[w] = <<>> /\ buf'[w] = <<>>
      /\ request_len'[w] = 0 /\ consumed'[w] = 0
      /\ user_data'[w] = None /\ given'[w] = None /\ allocated'[w] = 0
  BY <1>0, <1>1 DEF Types, post
<1>4. \A v \in Workers \ {w} : pc'[v] = pc[v] /\ req'[v] = req[v]
  BY <1>0, <1>1 DEF Types
<1>5. Shared'
  BY <1>0, <1>1, <1>3, <1>4 DEF Shared, shared
<1>6. Worker(w)'
  BY <1>3 DEF Worker, Idle, Busy, Reading, Whole, Closing, Body, Blocks, Mine, Routed, WithHead
<1> QED BY <1>0, <1>1, <1>2, <1>5, <1>6, Untouched DEF Types, shared, post

(***************************************************************************)
(* The body.                                                               *)
(***************************************************************************)
\* What mg_read takes of the len bytes it wants from a buffer with bn bytes and a head of
\* hn, and from a socket with cn.
OutOfBuf(len, hn, bn)      == IF bn - hn > 0 THEN Min({len, bn - hn}) ELSE 0
OffSocket(len, hn, bn, cn) == Min({len - OutOfBuf(len, hn, bn), cn})

Divides(len, hn, bn, cn, s, p) ==
  LET old == OutOfBuf(len, hn, bn)
      new == OffSocket(len, hn, bn, cn)
  IN /\ old \in 0..(bn - hn) /\ new \in 0..cn
     /\ new = 0 \/ old = bn - hn
     /\ Min({p, s - hn}) = old + new

\* mg_read takes what the buffer has first, and from the socket only the rest; together
\* they are as much as there is, up to p bytes.
LEMMA Amounts ==
  ASSUME NEW hn \in Nat, NEW yn \in Nat, NEW bn \in Nat, NEW cn \in Nat, NEW p \in Nat,
         NEW s \in Nat, hn <= bn, s <= hn + yn, bn + cn = s
  PROVE  Divides(Min({p, yn}), hn, bn, cn, s, p)
<1> DEFINE len  == Min({p, yn})
           left == bn - hn
           old  == IF left > 0 THEN Min({len, left}) ELSE 0
           new  == Min({len - old, cn})
<1>1. len \in Nat /\ len <= p /\ len <= yn /\ (len = p \/ len = yn)
  BY MinPair
<1> HIDE DEF len
<1>2. left = bn - hn /\ left \in Nat
  OBVIOUS
<1>3. /\ old \in Nat /\ old <= len /\ old <= left /\ (old = len \/ old = left)
  <2> HIDE DEF left
  <2> QED BY <1>1, <1>2, MinPair
<1> HIDE DEF left, old
<1>4. new \in Nat /\ new <= len - old /\ new <= cn /\ (new = len - old \/ new = cn)
  <2> DEFINE d == len - old
  <2>1. d \in Nat /\ new = Min({d, cn})
    BY <1>1, <1>3
  <2> HIDE DEF d, new
  <2>2. new \in Nat /\ new <= d /\ new <= cn /\ (new = d \/ new = cn)
    BY <2>1, MinPair
  <2> QED BY <2>2 DEF d
<1> HIDE DEF new
<1> DEFINE q == s - hn
           m == Min({p, q})
<1>5. q \in Int /\ q = left + cn /\ q <= yn
  BY <1>2
<1>6. m \in Int /\ m <= p /\ m <= q /\ (m = p \/ m = q)
  <2> HIDE DEF q
  <2> QED BY <1>5, MinPair
<1> HIDE DEF q, m
<1>7. (new = 0 \/ old = left) /\ m = old + new
  BY <1>1, <1>2, <1>3, <1>4, <1>5, <1>6
<1>8. old \in 0..left /\ new \in 0..cn
  BY <1>2, <1>3, <1>4
<1>9. m = Min({p, s - hn})
  BY DEF m, q
<1> QED BY <1>7, <1>8, <1>9 DEF len, left, old, new, Divides, OutOfBuf, OffSocket

Continues(S, hn, b, c, y, old, new) ==
  LET bytes == SubSeq(b, hn + 1, hn + old) \o SubSeq(c, 1, new) IN
  bytes \in Seq(S) /\ bytes = SubSeq(y, 1, old + new)

\* What lies in the buffer behind the head, and then on the socket, is the body.
LEMMA Pieces ==
  ASSUME NEW S, NEW h \in Seq(S), NEW y \in Seq(S), NEW b \in Seq(S), NEW c \in Seq(S),
         NEW s \in Nat, s <= Len(h) + Len(y), b \o c = SubSeq(h \o y, 1, s),
         Len(b) + Len(c) = s, Len(h) <= Len(b),
         NEW old \in 0..(Len(b) - Len(h)), NEW new \in 0..Len(c),
         new = 0 \/ old = Len(b) - Len(h)
  PROVE  Continues(S, Len(h), b, c, y, old, new)
<1> DEFINE hn == Len(h)
           bn == Len(b)
           yn == Len(y)
           n  == old + new
           x == SubSeq(b, hn + 1, hn + old)
           z == SubSeq(c, 1, new)
           all == h \o y
           u == x \o z
           v == SubSeq(y, 1, n)
<1>1. /\ hn \in Nat /\ yn \in Nat /\ bn \in Nat /\ Len(c) \in Nat
      /\ old \in Nat /\ new \in Nat /\ n \in Nat
  OBVIOUS
<1>2. /\ hn <= bn /\ s <= hn + yn /\ bn + Len(c) = s
      /\ hn + old <= bn /\ new <= Len(c) /\ n = old + new
  OBVIOUS
<1>3. n <= yn /\ (new > 0 => old = bn - hn)
  BY <1>1, <1>2
<1>4. all \in Seq(S) /\ Len(all) = hn + yn
  OBVIOUS
<1>5. \A i \in 1..yn : all[hn + i] = y[i]
  OBVIOUS
<1>6. \A i \in 1..s : (b \o c)[i] = all[i]
  <2>1. s \in 0..Len(all)
    BY <1>1, <1>2, <1>4, Within
  <2> HIDE DEF all
  <2>2. \A i \in 1..s : SubSeq(all, 1, s)[i] = all[i]
    BY <1>4, <2>1
  <2> QED BY <2>2 DEF all
<1>7. x \in Seq(S) /\ Len(x) = old /\ \A i \in 1..old : x[i] = b[hn + i]
  BY <1>1, <1>2
<1>8. z \in Seq(S) /\ Len(z) = new /\ \A i \in 1..new : z[i] = c[i]
  OBVIOUS
<1>9. v \in Seq(S) /\ Len(v) = n /\ \A i \in 1..n : v[i] = y[i]
  <2>1. n \in 0..yn
    <3> HIDE DEF n, yn
    <3> QED BY <1>1, <1>3
  <2> HIDE DEF n
  <2> QED BY <2>1
<1>10. \A i \in 1..old : b[hn + i] = y[i]
  <2> TAKE i \in 1..old
  <2>1. hn + i \in 1..bn /\ hn + i \in 1..s /\ i \in 1..yn
    BY <1>1, <1>2, <1>3
  <2>2. (b \o c)[hn + i] = b[hn + i]
    BY <2>1
  <2> QED BY <1>5, <1>6, <2>1, <2>2
<1>11. \A i \in 1..new : c[i] = y[old + i]
  <2> TAKE i \in 1..new
  <2>0. i \in Nat /\ 1 <= i /\ i <= new /\ old = bn - hn
    BY <1>1, <1>3
  <2>1. /\ i \in 1..Len(c) /\ bn + i \in 1..s /\ old + i \in 1..yn
        /\ bn + i = hn + (old + i)
    <3>1. i \in 1..Len(c)
      BY <1>1, <1>2, <2>0
    <3>2. bn + i \in 1..s
      BY <1>1, <1>2, <2>0
    <3>3. old + i \in 1..yn
      BY <1>1, <1>2, <1>3, <2>0
    <3>4. bn + i = hn + (old + i)
      BY <1>1, <2>0
    <3> QED BY <3>1, <3>2, <3>3, <3>4
  <2>2. (b \o c)[bn + i] = c[i]
    <3> DEFINE j == bn + i
    <3>1. j \in 1..(Len(b) + Len(c)) /\ ~(j <= Len(b)) /\ j - Len(b) = i
      BY <1>1, <1>2, <2>0, <2>1
    <3> HIDE DEF j
    <3>2. (b \o c)[j] = c[i]
      BY <3>1, ConcatProperties
    <3> QED BY <3>2 DEF j
  <2> QED BY <1>5, <1>6, <2>1, <2>2
<1>12. Len(u) = n /\ u \in Seq(S)
  <2> HIDE DEF x, z
  <2> QED BY <1>7, <1>8, ConcatProperties
<1>13. ASSUME NEW i \in 1..n PROVE u[i] = y[i]
  <2> HIDE DEF x, z
  <2>0. i \in Nat /\ 1 <= i /\ i <= n
    BY <1>1
  <2>1. u[i] = IF i <= old THEN x[i] ELSE z[i - old]
    <3>1. x \in Seq(S) /\ z \in Seq(S) /\ Len(x) = old /\ Len(z) = new
      BY <1>7, <1>8
    <3>2. \A k \in 1..(Len(x) + Len(z)) : u[k] = IF k <= Len(x) THEN x[k] ELSE z[k - Len(x)]
      BY <3>1, ConcatProperties
    <3> QED BY <3>1, <3>2
  <2>2. CASE i <= old
    <3>1. i \in 1..old
      BY <1>1, <2>0, <2>2
    <3> QED BY <1>7, <1>10, <2>1, <2>2, <3>1
  <2>3. CASE ~(i <= old)
    <3> DEFINE j == i - old
    <3>1. j \in 1..new
      BY <1>1, <1>2, <2>0, <2>3
    <3>2. old + j = i
      BY <1>1, <2>0
    <3> HIDE DEF j
    <3>3. y[old + j] = y[i]
      BY <3>2
    <3>4. z[j] = y[old + j]
      BY <1>8, <1>11, <3>1
    <3>5. u[i] = z[j]
      BY <2>1, <2>3 DEF j
    <3> QED BY <3>3, <3>4, <3>5
  <2> QED BY <2>2, <2>3
<1> HIDE DEF u, v, n
<1>14. u = v
  BY <1>9, <1>12, <1>13, SeqEqual
<1> QED BY <1>12, <1>14 DEF u, v, n, Continues

\* mg_read at the beginning of the body: the bytes behind the head, each once.
LEMMA Reads ==
  ASSUME NEW w \in Workers, NEW r \in Requests, req[w] = r,
         buf[w] \in Seq(STRING), wire[w] \in Seq(STRING),
         request_len[w] = Len(r.head), Len(r.head) <= Len(buf[w]), consumed[w] = 0,
         buf[w] \o wire[w] = Sent(r)
  PROVE  LET read == MgRead(w, MaxVal(r)) IN
         /\ read.bytes = Expected(r) /\ read.bytes \in Seq(STRING)
         /\ read.pulled \in 0..Len(wire[w])
<1> DEFINE h == r.head
           y == r.body
           b == buf[w]
           c == wire[w]
           hn == Len(h)
           yn == Len(y)
           bn == Len(b)
           cn == Len(c)
           p == MaxVal(r)
           s == r.sent
           read == MgRead(w, MaxVal(r))
<1>1. /\ h \in Seq(STRING) /\ y \in Seq(STRING) /\ b \in Seq(STRING) /\ c \in Seq(STRING)
      /\ hn \in Nat /\ yn \in Nat /\ bn \in Nat /\ cn \in Nat /\ s \in Nat /\ p \in Nat
      /\ hn <= bn /\ s <= hn + yn /\ r.length \in {-1, yn}
      /\ b \o c = SubSeq(h \o y, 1, s) /\ Len(SubSeq(h \o y, 1, s)) = s
  <2>1. b \o c = SubSeq(h \o y, 1, s) /\ Len(SubSeq(h \o y, 1, s)) = s
    BY RequestFacts DEF Sent
  <2>2. /\ h \in Seq(STRING) /\ y \in Seq(STRING) /\ b \in Seq(STRING) /\ c \in Seq(STRING)
        /\ s \in Nat /\ p \in Nat /\ hn <= bn /\ s <= hn + yn /\ r.length \in {-1, yn}
        /\ hn \in Nat /\ yn \in Nat
    BY RequestFacts
  <2> HIDE DEF h, y, b, c, s, p
  <2> QED BY <2>1, <2>2
<1>2. LET len == Min({p, r.length - 0})
          from == hn + 0
          o == IF bn - hn - 0 > 0 THEN Min({len, bn - hn - 0}) ELSE 0
          n == Min({len - o, cn})
      IN read = IF r.length - 0 <= 0 THEN [bytes |-> <<>>, pulled |-> 0]
                ELSE [bytes |-> SubSeq(b, from + 1, from + o) \o SubSeq(c, 1, n), pulled |-> n]
  BY DEF MgRead, Buffered
<1>3. Expected(r) = IF r.length > 0 THEN SubSeq(y, 1, Min({p, s - hn})) ELSE <<>>
  BY DEF Expected
<1> HIDE DEF read, h, y, b, c, s, p
<1>4. CASE ~(r.length > 0)
  <2>0. r.length - 0 <= 0
    <3> HIDE DEF yn
    <3> QED BY <1>1, <1>4
  <2>1. read.bytes = <<>> /\ read.pulled = 0
    BY <1>2, <2>0
  <2> QED BY <1>1, <1>3, <1>4, <2>1 DEF read, c
<1>5. CASE r.length > 0
  <2>1. r.length = yn /\ yn > 0
    BY <1>1, <1>5
  <2>2. bn + cn = s
    BY <1>1
  <2> DEFINE len == Min({p, yn})
             o == OutOfBuf(len, hn, bn)
             n == OffSocket(len, hn, bn, cn)
  <2>3. o \in 0..(bn - hn) /\ n \in 0..cn /\ (n = 0 \/ o = bn - hn) /\ Min({p, s - hn}) = o + n
    <3>1. /\ hn \in Nat /\ yn \in Nat /\ bn \in Nat /\ cn \in Nat /\ s \in Nat /\ p \in Nat
          /\ hn <= bn /\ s <= hn + yn
      BY <1>1
    <3>2. Divides(len, hn, bn, cn, s, p)
      <4> HIDE DEF hn, yn, bn, cn
      <4> QED BY <2>2, <3>1, Amounts
    <3> QED BY <3>2 DEF Divides
  <2>4. hn + 0 = hn /\ yn - 0 = yn /\ bn - hn - 0 = bn - hn /\ ~(yn <= 0)
    BY <1>1, <2>1
  <2>5. read = [bytes |-> SubSeq(b, hn + 1, hn + o) \o SubSeq(c, 1, n), pulled |-> n]
    BY <1>2, <2>1, <2>4 DEF OutOfBuf, OffSocket
  <2> HIDE DEF o, n
  <2> DEFINE bytes == SubSeq(b, hn + 1, hn + o) \o SubSeq(c, 1, n)
  <2>6. bytes \in Seq(STRING) /\ bytes = SubSeq(y, 1, o + n)
    <3>1. /\ h \in Seq(STRING) /\ y \in Seq(STRING) /\ b \in Seq(STRING) /\ c \in Seq(STRING)
          /\ s \in Nat /\ s <= Len(h) + Len(y) /\ b \o c = SubSeq(h \o y, 1, s)
          /\ Len(b) + Len(c) = s /\ Len(h) <= Len(b)
      BY <1>1, <2>2
    <3>2. o \in 0..(Len(b) - Len(h)) /\ n \in 0..Len(c) /\ (n = 0 \/ o = Len(b) - Len(h))
      BY <2>3
    <3>3. Continues(STRING, Len(h), b, c, y, o, n)
      <4> HIDE DEF bytes
      <4> QED BY <3>1, <3>2, Pieces
    <3> QED BY <3>3 DEF Continues
  <2>7. read.bytes = bytes /\ read.pulled = n
    BY <2>5
  <2> HIDE DEF bytes
  <2>8. Expected(r) = bytes
    BY <1>3, <1>5, <2>3, <2>6
  <2>9. /\ read.bytes = Expected(r) /\ read.bytes \in Seq(STRING) /\ read.pulled \in 0..cn
    BY <2>3, <2>6, <2>7, <2>8
  <2> QED BY <2>9 DEF read, c
<1> QED BY <1>4, <1>5

\* The first call of a handler.
LEMMA FirstPostDataInv ==
  ASSUME IInv, NEW w \in Workers, GetPostData(w), user_data[w] = None
  PROVE  IInv'
<1> DEFINE r == req[w]
           read == MgRead(w, MaxVal(r))
           bytes == read.bytes
           c == wire[w]
           rest == SubSeq(c, read.pulled + 1, Len(c))
<1>0. /\ Types /\ Shared /\ Worker(w) /\ pc[w] = "handler" /\ up
      /\ r \in Requests /\ buf[w] \in Seq(STRING) /\ c \in Seq(STRING)
      /\ BufSize \in Nat
  BY RequestConstants DEF IInv, GetPostData, Types, Worker, Busy
<1>1. /\ request_len[w] = Len(r.head) /\ Len(r.head) <= Len(buf[w])
      /\ consumed[w] = 0 /\ buf[w] \o c = Sent(r)
  BY <1>0 DEF Worker, Whole, WithHead
<1>2. bytes = Expected(r) /\ bytes \in Seq(STRING) /\ read.pulled \in 0..Len(c)
  BY <1>0, <1>1, Reads
<1>3. /\ user_data' = [user_data EXCEPT ![w] = bytes]
      /\ allocated' = [allocated EXCEPT ![w] = @ + 1]
      /\ consumed' = [consumed EXCEPT ![w] = @ + Len(bytes)]
      /\ wire' = [wire EXCEPT ![w] = SubSeq(@, read.pulled + 1, Len(@))]
      /\ given' = [given EXCEPT ![w] = user_data'[w]]
      /\ UNCHANGED <<shared, pc, req, buf, request_len, mine>>
  BY DEF GetPostData, Pull
<1> HIDE DEF read
<1>4. rest \in Seq(STRING) /\ Len(rest) = Len(c) - read.pulled
  <2> HIDE DEF c
  <2> QED BY <1>0, <1>2, Split
<1>5. Len(rest) \in Nat /\ Len(rest) <= Len(c) /\ Len(bytes) \in Nat /\ bytes # None
  <2>1. Len(c) \in Nat /\ read.pulled \in Nat
    BY <1>0, <1>2
  <2>2. Len(rest) \in Nat /\ Len(bytes) \in Nat
    BY <1>2, <1>4
  <2> HIDE DEF rest, bytes
  <2>3. Len(rest) <= Len(c)
    BY <1>4, <2>1, <2>2
  <2>4. bytes # None
    BY <1>2, NoData
  <2> QED BY <2>2, <2>3, <2>4
<1>6. /\ user_data'[w] = bytes /\ given'[w] = bytes /\ allocated'[w] = 1 /\ wire'[w] = rest
      /\ pc'[w] = "handler" /\ req'[w] = r /\ buf'[w] = buf[w]
      /\ request_len'[w] = request_len[w] /\ mine'[w] = mine[w]
  <2>1. allocated[w] = 0
    BY <1>0 DEF Worker, Blocks
  <2> HIDE DEF bytes
  <2>2. user_data'[w] = bytes
    BY <1>0, <1>3 DEF Types
  <2>3. given'[w] = bytes
    BY <1>0, <1>3, <2>2 DEF Types
  <2>4. allocated'[w] = 1
    BY <1>0, <1>3, <2>1 DEF Types
  <2>5. wire'[w] = rest
    BY <1>0, <1>3 DEF Types
  <2> QED BY <1>0, <1>3, <2>2, <2>3, <2>4, <2>5 DEF Types
<1>7. wire' = [wire EXCEPT ![w] = rest] /\ given' = [given EXCEPT ![w] = bytes]
  BY <1>0, <1>3, <1>6
<1>8. Types'
  <2>0. consumed[w] \in Nat /\ allocated[w] \in Int
    BY <1>0 DEF Types
  <2>1. consumed[w] + Len(bytes) \in Nat /\ allocated[w] + 1 \in Int
    <3> HIDE DEF bytes
    <3> QED BY <1>5, <2>0
  <2> DEFINE n == consumed[w] + Len(bytes)
             m == allocated[w] + 1
  <2>2. consumed' = [consumed EXCEPT ![w] = n] /\ allocated' = [allocated EXCEPT ![w] = m]
    BY <1>0, <1>3 DEF Types
  <2> HIDE DEF n, m, rest, bytes
  <2>3. consumed' \in [Workers -> Nat] /\ allocated' \in [Workers -> Int]
    BY <1>0, <2>1, <2>2 DEF Types, n, m
  <2>4. wire' \in [Workers -> Seq(STRING)]
    BY <1>0, <1>4, <1>7 DEF Types
  <2>5. user_data' \in [Workers -> Seq(STRING) \cup {None}]
    BY <1>0, <1>2, <1>3 DEF Types
  <2>6. given' \in [Workers -> Seq(STRING) \cup {None}]
    BY <1>0, <1>2, <1>7 DEF Types
  <2> QED BY <1>0, <1>3, <2>3, <2>4, <2>5, <2>6 DEF Types, shared
<1>9. Shared'
  BY <1>0, <1>3 DEF Shared, shared
<1> HIDE DEF rest, bytes
<1>10. Worker(w)'
  <2>1. Busy(w)'
    <3>0. Len(buf[w]) + Len(c) <= r.sent
      BY <1>0 DEF Worker, Busy
    <3>1. Len(buf[w]) \in Nat /\ Len(c) \in Nat
      BY <1>0
    <3>2. r.sent \in Nat
      BY <1>0, RequestFacts
    <3> HIDE DEF r, c
    <3>3. Len(buf[w]) + Len(rest) <= r.sent
      BY <1>5, <3>0, <3>1, <3>2
    <3> QED BY <1>0, <1>6, <3>3 DEF Worker, Busy, r
  <2>2. Whole(w)'
    BY <1>0, <1>1, <1>5, <1>6 DEF Whole, WithHead
  <2>3. Mine(w)'
    BY <1>0, <1>6 DEF Worker, Mine, Routed
  <2>4. Body(w)' /\ Blocks(w)'
    BY <1>2, <1>5, <1>6 DEF Body, Blocks
  <2> QED BY <1>6, <2>1, <2>2, <2>3, <2>4 DEF Worker, Idle, Reading, Closing
<1> QED BY <1>0, <1>3, <1>7, <1>8, <1>9, <1>10, Untouched DEF Types, shared

\* or a further one, which gives the handler what the first one did,
LEMMA GetPostDataInv ==
  ASSUME IInv, NEW w \in Workers, GetPostData(w)
  PROVE  IInv'
<1>1. CASE user_data[w] = None
  BY <1>1, FirstPostDataInv
<1>2. CASE user_data[w] # None
  <2>0. Types /\ Shared /\ Worker(w) /\ pc[w] = "handler"
    BY DEF IInv, GetPostData
  <2>1. /\ given' = [given EXCEPT ![w] = user_data[w]]
        /\ UNCHANGED <<shared, pc, conn, user_data, allocated, mine>>
    BY <1>2 DEF GetPostData, conn
  <2>2. Types'
    BY <2>0, <2>1 DEF Types, shared, conn
  <2>3. Shared'
    BY <2>0, <2>1 DEF Shared, shared, conn
  <2>4. given'[w] = user_data[w]
    BY <2>0, <2>1 DEF Types
  <2>5. Worker(w)'
    BY <2>0, <2>1, <2>4
       DEF Worker, Idle, Busy, Reading, Whole, Closing, Body, Blocks, Mine, Routed, conn
  <2> QED BY <2>0, <2>1, <2>2, <2>3, <2>5, Untouched DEF Types, shared, conn
<1> QED BY <1>1, <1>2

\* and the request is answered.
LEMMA AnswerInv ==
  ASSUME IInv, NEW w \in Workers, Answer(w)
  PROVE  IInv'
<1> DEFINE r == req[w]
           b == buf[w]
           behind == Len(b) - request_len[w]
           body == IF r.length = -1 THEN 0 ELSE Min({r.length, behind})
           m == request_len[w] + body
           rest == SubSeq(b, m + 1, Len(b))
<1>0. /\ Types /\ Shared /\ Worker(w) /\ pc[w] = "answer" /\ up
      /\ r \in Requests /\ b \in Seq(STRING) /\ wire[w] \in Seq(STRING)
  BY DEF IInv, Answer, Types, Worker, Busy
<1>1. /\ buf' = [buf EXCEPT ![w] = SubSeq(@, request_len[w] + body + 1, Len(@))]
      /\ allocated' = [allocated EXCEPT ![w] = IF user_data[w] = None THEN @ ELSE @ - 1]
      /\ user_data' = [user_data EXCEPT ![w] = None]
      /\ pc' = [pc EXCEPT ![w] = "close"]
      /\ mine' = [mine EXCEPT ![w] = None] /\ given' = [given EXCEPT ![w] = None]
      /\ UNCHANGED <<shared, req, wire, request_len, consumed>>
  BY DEF Answer, FreePostData, Discard, UserData
<1>2. /\ request_len[w] = Len(r.head) /\ Len(r.head) <= Len(b) /\ Len(r.head) > 0
      /\ Len(r.head) \in Nat /\ Len(b) \in Nat
      /\ r.length \in {-1, Len(r.body)} /\ Len(r.body) \in Nat
  <2>1. request_len[w] = Len(r.head) /\ Len(r.head) <= Len(b)
    BY <1>0 DEF Worker, Whole, WithHead
  <2>2. /\ Len(r.head) > 0 /\ Len(r.head) \in Nat
        /\ r.length \in {-1, Len(r.body)} /\ Len(r.body) \in Nat
    BY <1>0, RequestFacts
  <2>3. Len(b) \in Nat
    BY <1>0
  <2> QED BY <2>1, <2>2, <2>3
<1>3. m \in 0..Len(b)
  <2>1. behind \in Nat /\ request_len[w] \in Nat /\ request_len[w] + behind = Len(b)
    BY <1>2
  <2>2. body \in Nat /\ body <= behind
    <3>1. CASE r.length = -1
      BY <2>1, <3>1
    <3>2. CASE r.length = Len(r.body) /\ r.length # -1
      <4> DEFINE yn == Len(r.body)
      <4>1. body = Min({yn, behind}) /\ yn \in Nat
        BY <1>2, <3>2
      <4> HIDE DEF yn, behind, body
      <4> QED BY <2>1, <4>1, MinPair
    <3> QED BY <1>2, <3>1, <3>2
  <2> HIDE DEF behind, body
  <2> QED BY <2>1, <2>2
<1> HIDE DEF m
<1>4. rest \in Seq(STRING) /\ Len(rest) = Len(b) - m /\ Len(rest) <= Len(b)
  <2>1. rest \in Seq(STRING) /\ Len(rest) = Len(b) - m
    BY <1>0, <1>3, Split
  <2> QED BY <1>2, <1>3, <2>1
<1> HIDE DEF rest
<1>5. buf' = [buf EXCEPT ![w] = rest]
  BY <1>0, <1>1 DEF Types, rest, m
<1>6. /\ pc'[w] = "close" /\ req'[w] = r /\ buf'[w] = rest /\ wire'[w] = wire[w]
      /\ request_len'[w] = request_len[w] /\ user_data'[w] = None /\ given'[w] = None
  BY <1>0, <1>1, <1>5 DEF Types
<1>7. allocated'[w] = 0
  BY <1>0, <1>1 DEF Types, Worker, Blocks
<1>8. Types'
  <2>1. allocated' = [allocated EXCEPT ![w] = 0]
    BY <1>0, <1>1, <1>7 DEF Types
  <2>2. mine' = [v \in Workers |-> mine'[v]]
    BY <1>0, <1>1 DEF Types
  <2>3. buf' \in [Workers -> Seq(STRING)] /\ allocated' \in [Workers -> Int]
    BY <1>0, <1>4, <1>5, <2>1 DEF Types
  <2> QED BY <1>0, <1>1, <2>2, <2>3 DEF Types, States, shared
<1>9. Shared'
  <2>1. \A v \in Workers \ {w} : pc'[v] = pc[v]
    BY <1>0, <1>1 DEF Types
  <2> QED BY <1>0, <1>1, <1>6, <2>1 DEF Shared, shared
<1>10. Worker(w)'
  <2>1. Busy(w)'
    <3>0. Len(wire[w]) \in Nat /\ BufSize \in Nat
      BY <1>0, RequestConstants
    <3>1. /\ Len(b) + Len(wire[w]) <= r.sent /\ Len(b) <= BufSize
          /\ request_len[w] \in -1..BufSize
      BY <1>0 DEF Worker, Busy
    <3>2. r.sent \in Nat
      BY <1>0, RequestFacts
    <3>4. Len(rest) \in Nat
      BY <1>4
    <3> HIDE DEF r, b
    <3>3. Len(rest) + Len(wire[w]) <= r.sent /\ Len(rest) <= BufSize
      BY <1>2, <1>4, <3>0, <3>1, <3>2, <3>4
    <3> QED BY <1>0, <1>6, <3>1, <3>3 DEF Busy, r
  <2>2. Closing(w)'
    BY <1>2, <1>6 DEF Closing
  <2> QED BY <1>6, <1>7, <2>1, <2>2
          DEF Worker, Idle, Reading, Whole, Body, Blocks, Mine, Routed, WithHead
<1> QED BY <1>0, <1>1, <1>5, <1>8, <1>9, <1>10, Untouched DEF Types, shared

\* The invariant is inductive.
LEMMA NextInv == IInv /\ [Next]_vars => IInv'
<1> SUFFICES ASSUME IInv, [Next]_vars PROVE IInv'
  OBVIOUS
<1>1. CASE UNCHANGED vars
  BY <1>1 DEF IInv, vars, Types, Shared, Worker, Idle, Busy, Reading, Whole, Closing, Body,
     Blocks, Mine, Routed
<1>2. ASSUME NEW w \in Workers, Connect(w) PROVE IInv'
  BY <1>2, ConnectInv
<1>3. ASSUME NEW w \in Workers, GetPostData(w) PROVE IInv'
  BY <1>3, GetPostDataInv
<1>4. ASSUME NEW w \in Workers, Step(w) PROVE IInv'
  BY <1>4, ReceiveInv, ClosedEarlyInv, RouteInv, CopyRouteInv, HandledInv, AnswerInv, CloseInv
     DEF Step
<1> QED BY <1>1, <1>2, <1>3, <1>4 DEF Next

\* In every run the invariant holds.
THEOREM Invariant == Spec => []IInv
BY InitInv, NextInv, PTL DEF Spec

(***************************************************************************)
(* What the invariant implies.                                             *)
(***************************************************************************)
\* It implies the type invariant,
LEMMA Typed == IInv => TypeOK
<1> SUFFICES ASSUME IInv PROVE TypeOK
  OBVIOUS
<1>1. Types
  BY DEF IInv
<1>2. ASSUME NEW w \in Workers
      PROVE  /\ Len(buf[w]) <= BufSize /\ request_len[w] \in -1..BufSize /\ allocated[w] \in 0..1
             /\ req[w] # None => Len(buf[w]) + Len(wire[w]) <= req[w].sent
  <2>0. Worker(w) /\ BufSize \in Nat \ {0}
    BY RequestConstants DEF IInv
  <2>1. allocated[w] \in 0..1
    BY <2>0 DEF Worker, Blocks
  <2>2. CASE pc[w] = "idle"
    <3>1. Len(<<>>) = 0 /\ 0 <= BufSize /\ 0 \in -1..BufSize
      BY <2>0
    <3> QED BY <2>0, <2>1, <2>2, <3>1 DEF Worker, Idle
  <2>3. CASE pc[w] # "idle"
    BY <2>0, <2>1, <2>3 DEF Worker, Busy
  <2> QED BY <2>2, <2>3
<1> QED BY <1>1, <1>2 DEF Types, TypeOK, States

\* In every run the buffers, counters and places of the workers are of their types: a
\* buffer never holds more than max_request_size bytes nor more than the client sent.
THEOREM TypesHold == Spec => []TypeOK
BY Invariant, Typed, PTL

\* that the route of a request is its own,
LEMMA OwnRoute == IInv => RouteIsOwn
<1> SUFFICES ASSUME IInv, NEW w \in Workers, Routed(w)
             PROVE  /\ [mine[w] EXCEPT !.param = <<>>] = [Own(w) EXCEPT !.param = <<>>]
                    /\ IsPrefix(Own(w).param, mine[w].param)
  BY DEF RouteIsOwn
<1> DEFINE own == GetRuta(Fresh, req[w].uri)
           m == mine[w]
<1>1. /\ m = [controller |-> own.controller, action |-> own.action,
              format |-> own.format, session |-> own.session, param |-> m.param]
      /\ IsPrefix(CString(own.param), m.param)
  BY DEF IInv, Worker, Mine
<1>2. Own(w) = [controller |-> own.controller, action |-> own.action,
                format |-> own.format, session |-> own.session, param |-> CString(own.param)]
  BY DEF Own
<1> HIDE DEF own, m
<1>3. Own(w).param = CString(own.param)
  BY <1>2
<1>4. [m EXCEPT !.param = <<>>] = [Own(w) EXCEPT !.param = <<>>]
  BY <1>1, <1>2
<1> QED BY <1>1, <1>3, <1>4 DEF m

\* In every run a request gets the controller, action, format and session its own URI
\* leads to, whatever was routed before it and is routed at the same time, and a
\* parameter that begins with its own: routes_filter copies under the mutex.
THEOREM RoutesAreOwn == Spec => []RouteIsOwn
BY Invariant, OwnRoute, PTL

\* that behind "game" and "tjuego" there is a session,
LEMMA NeedsSession == IInv => SessionRequired
<1> SUFFICES ASSUME IInv, NEW w \in Workers, pc[w] = "handler",
                    mine[w].controller \in {"game", "tjuego"}
             PROVE  mine[w].session # Nul
  BY DEF SessionRequired
<1> DEFINE own == GetRuta(Fresh, req[w].uri)
           m == mine[w]
<1>1. /\ m = [controller |-> own.controller, action |-> own.action,
              format |-> own.format, session |-> own.session, param |-> m.param]
      /\ own.controller \in {"game", "tjuego"} => own.session # Nul
  BY DEF IInv, Worker, Mine, Routed
<1>2. m.controller \in {"game", "tjuego"}
  OBVIOUS
<1> HIDE DEF own, m
<1>3. m.controller = own.controller /\ m.session = own.session
  BY <1>1
<1> QED BY <1>1, <1>2, <1>3 DEF m

\* In every run no handler of "game" or "tjuego" is called without a session.
THEOREM SessionsAreRequired == Spec => []SessionRequired
BY Invariant, NeedsSession, PTL

\* that the head is found,
LEMMA Found == IInv => HeadIsFound
BY DEF IInv, HeadIsFound, Worker, Whole, WithHead, Closing, Refused

\* In every run the head of a request ends where the client ended it, in whatever
\* pieces it arrives, and only an incomplete, a too long one or one with control
\* characters is refused (read_request, get_request_len).
THEOREM HeadsAreFound == Spec => []HeadIsFound
BY Invariant, Found, PTL

\* that the body is the request's own,
LEMMA OwnBody == IInv => BodyIsOwn
BY DEF IInv, BodyIsOwn, Worker, Body, Expected

\* In every run get_post_data gives a handler the body of its own request from the
\* first byte on, each byte once and every time the same, up to POST_BUFFER_LEN or, if the
\* client sends a header 'Content-Lenght', to the number in it.
THEOREM BodiesAreOwn == Spec => []BodyIsOwn
BY Invariant, OwnBody, PTL

\* and that the scanner fails on such a game id only.
LEMMA OnlyDotless == IInv => EndsOnlyDotless
BY DEF IInv, EndsOnlyDotless, Shared, HasDotlessId

\* In every run the scanner ends the process for nothing but a game id without a dot
\* that ends in the name of a format, and for nobody without a session.
THEOREM OnlyDotlessEnd == Spec => []EndsOnlyDotless
BY Invariant, OnlyDotless, PTL

\* In every run the blocks read_post_data has allocated and not freed are those user_data
\* points to.
THEOREM BlocksHeld == Spec => []BlocksAreHeld
<1>1. IInv => BlocksAreHeld
  BY DEF IInv, BlocksAreHeld, Worker, Blocks
<1> QED BY Invariant, <1>1, PTL

=============================================================================
