--------------------------- MODULE GameRepository ---------------------------
(***************************************************************************)
(* What the database of games promises its users, whatever the server does *)
(* to keep the promise: every operation is one indivisible step on the     *)
(* record as it is NOW, and only a user with rights on that record takes   *)
(* it.  QgServer, run with one worker thread, implements this module.      *)
(***************************************************************************)
EXTENDS Naturals, Sequences

CONSTANTS Users,      \* user ids
          Admins,     \* the users of type USERTYPE_ADMIN
          GameIds,    \* keys of the table "games"
          Moves,      \* moves of the game being played
          MaxMoves,   \* number of moves after which a game is over
          Bodies,     \* bodies posted to /registra: game dumps and bad ones
          NoGame      \* no record under this key

VARIABLE games        \* the table: GameIds -> record or NoGame

Dump     == [moves : Seq(Moves), calc : BOOLEAN]
GameRec  == [owner : Users, moves : Seq(Moves), calc : BOOLEAN]

\* May user u touch record g?  The creator may, and an administrator may.
Entitled(u, g) == u = g.owner \/ u \in Admins

Present(id) == games[id] # NoGame

TypeOK == games \in [GameIds -> GameRec \cup {NoGame}]

Init == games = [id \in GameIds |-> NoGame]

\* A new game, under an id nobody uses, that belongs to its creator.
Create(u, id) ==
  /\ ~Present(id)
  /\ games' = [games EXCEPT ![id] = [owner |-> u, moves |-> <<>>, calc |-> FALSE]]

\* One more move at the end of the history of a game that is not over.
Play(u, id, m) ==
  /\ Present(id) /\ Entitled(u, games[id])
  /\ Len(games[id].moves) < MaxMoves
  /\ games' = [games EXCEPT ![id].moves = Append(@, m), ![id].calc = FALSE]

\* A reader stores the possible moves it computed, and nothing else.
Analyse(u, id) ==
  /\ Present(id) /\ Entitled(u, games[id])
  /\ games' = [games EXCEPT ![id].calc = TRUE]

\* A posted game takes the place of a record its user has rights on, or of none.
Register(u, id, d) ==
  /\ Present(id) => Entitled(u, games[id])
  /\ games' = [games EXCEPT ![id] = [owner |-> u, moves |-> d.moves, calc |-> d.calc]]

Unregister(u, id) ==
  /\ Present(id) /\ Entitled(u, games[id])
  /\ games' = [games EXCEPT ![id] = NoGame]

Next == \E u \in Users, id \in GameIds :
          \/ Create(u, id)
          \/ \E m \in Moves : Play(u, id, m)
          \/ Analyse(u, id)
          \/ \E d \in Bodies \cap Dump : Register(u, id, d)
          \/ Unregister(u, id)

Spec == Init /\ [][Next]_games
=============================================================================
